---------------------------- MODULE ConsoleProofs ----------------------------
(***************************************************************************)
(* The console for every screen, pitch, font, text and place, in three     *)
(* parts.  First that only the frame buffer is written (Inv), for which    *)
(* the loops need only be known to exist: induction over their rounds says *)
(* that each of the recursive functions is a solution of its equations.    *)
(* Then what each loop leaves in memory: a glyph, a text, and a forward    *)
(* copy to a lower address.  Last that each call is a step of Screen, as   *)
(* long as no 32-bit sum wraps (DrawingFits).                              *)
(***************************************************************************)
EXTENDS Console, TLAPS, WellFoundedInduction, FiniteSets, FiniteSetTheorems

\* What may be in memory: nothing is stored outside the frame buffer.
Area == fb.buffer .. (fb.buffer + fb.size - 1)
Words == Colors \cup {-1, 0}
Safe == {m \in [Memory -> Words] : \A a \in Memory : m[a] # -1 => a \in Area}

\* The frame buffer is one the VideoCore granted.
FbOK ==
  /\ fb \in [width : Nat, height : Nat, pitch : Nat, buffer : Nat, size : Nat,
             initialized : BOOLEAN]
  /\ fb.size = fb.pitch * fb.height /\ fb.width <= fb.pitch
  /\ Area \subseteq Memory
  /\ ~ fb.initialized => fb.size = 0 /\ fb.width = 0 /\ fb.height = 0
  /\ fb.width < WRAP /\ fb.height < WRAP

Inv == FbOK /\ mem \in Safe /\ calls \in 0 .. MaxCalls

-----------------------------------------------------------------------------
LEMMA RowInside ==
  ASSUME NEW x \in Nat, NEW y \in Nat, NEW w \in Nat, NEW h \in Nat, NEW p \in Nat,
         x < w, y < h, w <= p
  PROVE  y * p + x \in 0 .. (p * h - 1)
<1>1. PICK k \in Nat : h = y + 1 + k
  <2>1. h - y - 1 \in Nat /\ h = y + 1 + (h - y - 1)
    OBVIOUS
  <2>. QED
    BY <2>1
<1>2. p * h = y * p + p + k * p
  BY <1>1
<1>3. y * p \in Nat /\ k * p \in Nat
  BY <1>1
<1>. QED
  BY <1>2, <1>3

LEMMA StoreInside ==
  ASSUME FbOK, NEW x \in Nat, NEW y \in Nat, x < fb.width, y < fb.height
  PROVE  fb.buffer + Offset(x, y) \in Area
<1>. DEFINE b == fb.buffer
            p == fb.pitch
            h == fb.height
            w == fb.width
            s == fb.size
            o == y * p + x
<1>1. b \in Nat /\ p \in Nat /\ h \in Nat /\ w \in Nat /\ s = p * h /\ w <= p
  BY DEF FbOK
<1>2. o \in 0 .. (p * h - 1)
  <2>1. x < w /\ y < h
    OBVIOUS
  <2>. HIDE DEF p, h, w
  <2>. QED
    BY ONLY <1>1, <2>1, x \in Nat, y \in Nat, RowInside
<1>. HIDE DEF o, s, b
<1>3. b + o \in b .. (b + s - 1)
  <2>1. s \in Int
    BY DEF FbOK, s
  <2>2. o \in Int /\ 0 <= o /\ o <= s - 1
    BY <1>1, <1>2, <2>1
  <2>. QED
    BY <1>1, <2>1, <2>2
<1>. QED
  BY <1>3 DEF Area, Offset, o, s, b

LEMMA PixelSafe ==
  ASSUME FbOK, NEW m \in Safe, NEW x \in Nat, NEW y \in Nat, NEW c \in Colors
  PROVE  Pixel(m, x, y, c) \in Safe
<1>1. CASE ~ fb.initialized \/ x >= fb.width \/ y >= fb.height
  BY <1>1 DEF Pixel
<1>2. CASE ~ (~ fb.initialized \/ x >= fb.width \/ y >= fb.height)
  <2>. DEFINE k == fb.buffer + Offset(x, y)
  <2>1. k \in Area
    BY <1>2, StoreInside DEF FbOK
  <2>2. Pixel(m, x, y, c) = [m EXCEPT ![k] = c]
    BY <1>2 DEF Pixel, Store
  <2>. HIDE DEF k
  <2>. QED
    BY <2>1, <2>2 DEF Safe, Words, FbOK
<1>. QED
  BY <1>1, <1>2

LEMMA RectSafe ==
  ASSUME FbOK, NEW m \in Safe, NEW x \in Nat, NEW y \in Nat, NEW w \in Nat, NEW h \in Nat,
         NEW c \in Colors
  PROVE  Rect(m, x, y, w, h, c) \in Safe
<1>. DEFINE painted == {fb.buffer + Offset(i, j) :
                          i \in Loop(x, w, fb.width), j \in Loop(y, h, fb.height)}
<1>1. ASSUME NEW k \in painted PROVE k \in Area
  <2>1. PICK i \in Loop(x, w, fb.width), j \in Loop(y, h, fb.height) : k = fb.buffer + Offset(i, j)
    OBVIOUS
  <2>2. i \in Nat /\ i < fb.width /\ j \in Nat /\ j < fb.height
    BY DEF Loop, FbOK
  <2>. QED
    BY <2>1, <2>2, StoreInside
<1>2. Rect(m, x, y, w, h, c) = [a \in Memory |-> IF a \in painted THEN c ELSE m[a]]
  BY DEF Rect, Safe
<1>. HIDE DEF painted
<1>. QED
  BY <1>1, <1>2 DEF Safe, Words

\* Recursion over 0 .. n
LEMMA LeastExists ==
  ASSUME NEW S \in SUBSET Nat, S # {}
  PROVE  \E k \in S : \A j \in S : k <= j
<1>. DEFINE R == OpToRel(<, Nat)
<1>1. \A x, y \in Nat : <<y, x>> \in R <=> y < x
  BY DEF OpToRel
<1>2. IsWellFoundedOn(R, Nat)
  BY NatLessThanWellFounded
<1>. HIDE DEF R
<1>3. PICK k \in S : \A j \in S : ~ (<<j, k>> \in R)
  BY <1>2, WFMin
<1>4. \A j \in S : j \in Nat /\ k \in Nat /\ ~ (j < k)
  BY <1>1, <1>3
<1>. QED
  BY <1>4

\* Induction: a set with 0, and with each number's successor up to n.
LEMMA UpTo ==
  ASSUME NEW n \in Nat, NEW S, 0 \in S, \A k \in 1 .. n : k - 1 \in S => k \in S
  PROVE  0 .. n \subseteq S
<1>. DEFINE B == (0 .. n) \ S
<1>1. SUFFICES ASSUME B # {} PROVE FALSE
  OBVIOUS
<1>2. PICK k \in B : \A j \in B : k <= j
  <2>1. B \in SUBSET Nat
    OBVIOUS
  <2>. HIDE DEF B
  <2>. QED
    BY <1>1, <2>1, LeastExists
<1>3. k \in 1 .. n /\ k - 1 \in 0 .. n /\ ~ (k <= k - 1)
  BY <1>2
<1>. QED
  BY <1>2, <1>3

\* The equations of a recursive function of 0 .. n have a solution.
Solves(f, n, v, g) == f[0] = v /\ \A k \in 1 .. n : f[k] = g[<<k, f[k - 1]>>]

LEMMA RecursionWorks ==
  ASSUME NEW n \in Nat, NEW V, NEW v \in V, NEW g \in [(1 .. n) \X V -> V]
  PROVE  \E f \in [0 .. n -> V] : Solves(f, n, v, g)
<1>. DEFINE S == {j \in 0 .. n : \E f \in [0 .. n -> V] : Solves(f, j, v, g)}
<1>1. 0 \in S
  <2>. DEFINE f == [k \in 0 .. n |-> v]
  <2>1. f \in [0 .. n -> V] /\ Solves(f, 0, v, g)
    BY DEF Solves
  <2>. QED
    BY <2>1
<1>2. ASSUME NEW j \in 1 .. n, j - 1 \in S PROVE j \in S
  <2>1. PICK f \in [0 .. n -> V] : Solves(f, j - 1, v, g)
    BY <1>2
  <2>. DEFINE h == [f EXCEPT ![j] = g[<<j, f[j - 1]>>]]
  <2>2. <<j, f[j - 1]>> \in (1 .. n) \X V
    OBVIOUS
  <2>3. /\ h \in [0 .. n -> V] /\ h[j] = g[<<j, f[j - 1]>>]
        /\ \A k \in 0 .. (j - 1) : h[k] = f[k]
    BY <2>2
  <2>. HIDE DEF h
  <2>4. Solves(h, j, v, g)
    <3>1. h[0] = v
      BY <2>1, <2>3 DEF Solves
    <3>2. ASSUME NEW k \in 1 .. j PROVE h[k] = g[<<k, h[k - 1]>>]
      <4>1. h[k - 1] = f[k - 1]
        BY <2>3
      <4>2. CASE k = j
        BY <2>3, <4>1, <4>2
      <4>3. CASE k # j
        <5>1. k \in 1 .. (j - 1) /\ k \in 0 .. (j - 1)
          BY <4>3
        <5>. QED
          BY <2>1, <2>3, <4>1, <5>1 DEF Solves
      <4>. QED
        BY <4>2, <4>3
    <3>. QED
      BY <3>1, <3>2 DEF Solves
  <2>. QED
    BY <2>3, <2>4
<1>. HIDE DEF S
<1>3. 0 .. n \subseteq S
  BY <1>1, <1>2, UpTo
<1>4. n \in S
  BY <1>3
<1>. QED
  BY <1>4 DEF S

-----------------------------------------------------------------------------
LEMMA DivMod ==
  ASSUME NEW a \in Nat, NEW b \in Nat \ {0}
  PROVE  a % b \in Nat /\ a \div b \in Nat
OBVIOUS

LEMMA WrapNat ==
  ASSUME ConsoleAssumption, NEW n \in Nat
  PROVE  n % WRAP \in Nat
BY DEF ConsoleAssumption

\* fb_putchar's loop: memory after n pixels of the glyph.
CharLoops(draw, m, x, y, c, fg, bg) ==
  /\ draw[0] = m
  /\ \A n \in 0 .. (GLYPH * GLYPH) : draw[n] \in Safe
  /\ \A n \in 1 .. (GLYPH * GLYPH) :
       draw[n] = Pixel(draw[n - 1],
                       (x + ((n - 1) % GLYPH)) % WRAP, (y + (n - 1) \div GLYPH) % WRAP,
                       IF <<(n - 1) % GLYPH, (n - 1) \div GLYPH>>
                            \in Font[IF c \in DOMAIN Font THEN c ELSE 0]
                         THEN fg ELSE bg)
  /\ Char(m, x, y, c, fg, bg) = IF fb.initialized THEN draw[GLYPH * GLYPH] ELSE m

LEMMA CharLoop ==
  ASSUME ConsoleAssumption, FbOK, NEW m \in Safe, NEW x \in Nat, NEW y \in Nat, NEW c,
         NEW fg \in Colors, NEW bg \in Colors
  PROVE  /\ Char(m, x, y, c, fg, bg) \in Safe
         /\ \E draw : CharLoops(draw, m, x, y, c, fg, bg)
<1>. DEFINE glyph == Font[IF c \in DOMAIN Font THEN c ELSE 0]
            N == GLYPH * GLYPH
            step(n, w) == Pixel(w, (x + ((n - 1) % GLYPH)) % WRAP, (y + (n - 1) \div GLYPH) % WRAP,
                                IF <<(n - 1) % GLYPH, (n - 1) \div GLYPH>> \in glyph
                                THEN fg ELSE bg)
            Sol(d) == d = [n \in 0 .. N |-> IF n = 0 THEN m ELSE step(n, d[n - 1])]
            draw == CHOOSE d : Sol(d)
<1>6. Char(m, x, y, c, fg, bg) = IF fb.initialized THEN draw[N] ELSE m
  BY Zenon DEF Char
<1>1. N \in Nat
  BY DEF ConsoleAssumption
<1>2. ASSUME NEW n \in 1 .. N, NEW w \in Safe PROVE step(n, w) \in Safe
  <2>1. (n - 1) % GLYPH \in Nat /\ (n - 1) \div GLYPH \in Nat
    <3>1. GLYPH \in Nat \ {0}
      BY DEF ConsoleAssumption
    <3>2. n - 1 \in Nat
      BY <1>1
    <3>. QED
      BY <3>1, <3>2, DivMod
  <2>. DEFINE i == (n - 1) % GLYPH
              j == (n - 1) \div GLYPH
              color == IF <<i, j>> \in glyph THEN fg ELSE bg
  <2>2. color \in Colors
    OBVIOUS
  <2>3. x + i \in Nat /\ y + j \in Nat
    <3>1. i \in Nat /\ j \in Nat
      BY <2>1
    <3>. HIDE DEF i, j
    <3>. QED
      BY <3>1
  <2>. HIDE DEF i, j
  <2>4. (x + i) % WRAP \in Nat /\ (y + j) % WRAP \in Nat
    BY <2>3, WrapNat
  <2>. HIDE DEF color
  <2>5. Pixel(w, (x + i) % WRAP, (y + j) % WRAP, color) \in Safe
    BY <2>2, <2>4, PixelSafe
  <2>. QED
    BY <2>5 DEF i, j, color
<1>. HIDE DEF step, N
<1>3. \E d : Sol(d)
  <2>. DEFINE g == [p \in (1 .. N) \X Safe |-> step(p[1], p[2])]
  <2>1. g \in [(1 .. N) \X Safe -> Safe]
    BY <1>2
  <2>2. PICK f \in [0 .. N -> Safe] : Solves(f, N, m, g)
    <3>. HIDE DEF g
    <3>. QED
      BY <1>1, <2>1, RecursionWorks
  <2>3. \A n \in 1 .. N : f[n] = step(n, f[n - 1])
    <3>. SUFFICES ASSUME NEW n \in 1 .. N PROVE f[n] = step(n, f[n - 1])
      OBVIOUS
    <3>1. <<n, f[n - 1]>> \in (1 .. N) \X Safe
      BY <1>1
    <3>. QED
      BY <2>2, <3>1 DEF Solves
  <2>4. f = [n \in 0 .. N |-> IF n = 0 THEN m ELSE step(n, f[n - 1])]
    BY <1>1, <2>2, <2>3 DEF Solves
  <2>. QED
    BY <2>4
<1>4. Sol(draw)
  BY <1>3
<1>. HIDE DEF draw
<1>5. draw[0] = m /\ \A n \in 1 .. N : draw[n] = step(n, draw[n - 1])
  BY <1>1, <1>4
<1>7. \A n \in 0 .. N : draw[n] \in Safe
  <2>. DEFINE S == {n \in 0 .. N : draw[n] \in Safe}
  <2>1. 0 \in S
    BY <1>1, <1>5
  <2>2. \A n \in 1 .. N : n - 1 \in S => n \in S
    BY <1>1, <1>2, <1>5
  <2>. HIDE DEF S
  <2>3. 0 .. N \subseteq S
    BY <1>1, <2>1, <2>2, UpTo
  <2>. QED
    BY <2>3 DEF S
<1>8. draw[N] \in Safe
  BY <1>1, <1>7
<1>. QED
  BY <1>5, <1>6, <1>7, <1>8 DEF step, N, CharLoops

\* fb_puts' loop, after k characters.
TextLoops(draw, m, x, y, s, fg, bg) ==
  /\ draw[0] = [m |-> m, cx |-> x, y |-> y]
  /\ \A k \in 0 .. Len(s) : draw[k] \in [m : Safe, cx : Nat, y : Nat]
  /\ \A k \in 1 .. Len(s) : s[k] = NEWLINE =>
       draw[k] = [m |-> draw[k - 1].m, cx |-> x, y |-> (draw[k - 1].y + LEAD) % WRAP]
  /\ \A k \in 1 .. Len(s) : s[k] # NEWLINE =>
       draw[k] = [m |-> Char(draw[k - 1].m, draw[k - 1].cx, draw[k - 1].y, s[k], fg, bg),
                  cx |-> (draw[k - 1].cx + GLYPH) % WRAP, y |-> draw[k - 1].y]
  /\ Text(m, x, y, s, fg, bg) = draw[Len(s)].m

LEMMA TextLoop ==
  ASSUME ConsoleAssumption, FbOK, NEW m \in Safe, NEW x \in Nat, NEW y \in Nat,
         NEW s \in Seq(Nat), NEW fg \in Colors, NEW bg \in Colors
  PROVE  /\ Text(m, x, y, s, fg, bg) \in Safe
         /\ \E draw : TextLoops(draw, m, x, y, s, fg, bg)
<1>. DEFINE N == Len(s)
            V == [m : Safe, cx : Nat, y : Nat]
            v == [m |-> m, cx |-> x, y |-> y]
            step(k, d) ==
              IF s[k] = NEWLINE
                THEN [d EXCEPT !.cx = x, !.y = (@ + LEAD) % WRAP]
                ELSE [d EXCEPT !.m = Char(@, d.cx, d.y, s[k], fg, bg), !.cx = (@ + GLYPH) % WRAP]
            Sol(d) == d = [k \in 0 .. N |-> IF k = 0 THEN v ELSE step(k, d[k - 1])]
            draw == CHOOSE d : Sol(d)
<1>1. Text(m, x, y, s, fg, bg) = draw[N].m
  BY DEF Text
<1>2. N \in Nat /\ v \in V
  OBVIOUS
<1>3. ASSUME NEW k \in 1 .. N, NEW d \in V
      PROVE  /\ step(k, d) \in V
             /\ s[k] = NEWLINE =>
                  step(k, d) = [m |-> d.m, cx |-> x, y |-> (d.y + LEAD) % WRAP]
             /\ s[k] # NEWLINE =>
                  step(k, d) = [m |-> Char(d.m, d.cx, d.y, s[k], fg, bg),
                                cx |-> (d.cx + GLYPH) % WRAP, y |-> d.y]
  <2>1. d = [m |-> d.m, cx |-> d.cx, y |-> d.y] /\ d.m \in Safe /\ d.cx \in Nat /\ d.y \in Nat
    OBVIOUS
  <2>2. CASE s[k] = NEWLINE
    <3>1. step(k, d) = [m |-> d.m, cx |-> x, y |-> (d.y + LEAD) % WRAP]
      BY <2>1, <2>2
    <3>2. d.y + LEAD \in Nat
      BY <2>1 DEF ConsoleAssumption
    <3>3. (d.y + LEAD) % WRAP \in Nat
      BY <3>2, WrapNat
    <3>. HIDE DEF step
    <3>4. step(k, d) \in V
      BY <2>1, <3>1, <3>3
    <3>. QED
      BY <2>2, <3>1, <3>4
  <2>3. CASE s[k] # NEWLINE
    <3>1. step(k, d) = [m |-> Char(d.m, d.cx, d.y, s[k], fg, bg), cx |-> (d.cx + GLYPH) % WRAP,
                        y |-> d.y]
      BY <2>1, <2>3
    <3>2. d.cx + GLYPH \in Nat
      BY <2>1 DEF ConsoleAssumption
    <3>3. (d.cx + GLYPH) % WRAP \in Nat
      BY <3>2, WrapNat
    <3>4. Char(d.m, d.cx, d.y, s[k], fg, bg) \in Safe
      BY <2>1, CharLoop
    <3>. HIDE DEF step
    <3>5. step(k, d) \in V
      BY <2>1, <3>1, <3>3, <3>4
    <3>. QED
      BY <2>3, <3>1, <3>5
  <2>. QED
    BY <2>2, <2>3
<1>. HIDE DEF step, V, v, N
<1>4. \E d : Sol(d)
  <2>. DEFINE g == [p \in (1 .. N) \X V |-> step(p[1], p[2])]
  <2>1. g \in [(1 .. N) \X V -> V]
    BY <1>3
  <2>2. PICK f \in [0 .. N -> V] : Solves(f, N, v, g)
    <3>. HIDE DEF g
    <3>. QED
      BY <1>2, <2>1, RecursionWorks
  <2>3. \A k \in 1 .. N : f[k] = step(k, f[k - 1])
    <3>. SUFFICES ASSUME NEW k \in 1 .. N PROVE f[k] = step(k, f[k - 1])
      OBVIOUS
    <3>1. <<k, f[k - 1]>> \in (1 .. N) \X V
      BY <1>2
    <3>. QED
      BY <2>2, <3>1 DEF Solves
  <2>4. f = [k \in 0 .. N |-> IF k = 0 THEN v ELSE step(k, f[k - 1])]
    BY <1>2, <2>2, <2>3 DEF Solves
  <2>. QED
    BY <2>4
<1>5. Sol(draw)
  BY <1>4
<1>. HIDE DEF draw
<1>6. draw[0] = v /\ \A k \in 1 .. N : draw[k] = step(k, draw[k - 1])
  BY <1>2, <1>5
<1>7. \A k \in 0 .. N : draw[k] \in V
  <2>. DEFINE S == {k \in 0 .. N : draw[k] \in V}
  <2>1. 0 \in S
    BY <1>2, <1>6
  <2>2. \A k \in 1 .. N : k - 1 \in S => k \in S
    BY <1>2, <1>3, <1>6
  <2>. HIDE DEF S
  <2>3. 0 .. N \subseteq S
    BY <1>2, <2>1, <2>2, UpTo
  <2>. QED
    BY <2>3 DEF S
<1>8. \A k \in 1 .. N :
        /\ s[k] = NEWLINE =>
             draw[k] = [m |-> draw[k - 1].m, cx |-> x, y |-> (draw[k - 1].y + LEAD) % WRAP]
        /\ s[k] # NEWLINE =>
             draw[k] = [m |-> Char(draw[k - 1].m, draw[k - 1].cx, draw[k - 1].y, s[k], fg, bg),
                        cx |-> (draw[k - 1].cx + GLYPH) % WRAP, y |-> draw[k - 1].y]
  <2>. TAKE k \in 1 .. N
  <2>1. draw[k] = step(k, draw[k - 1]) /\ draw[k - 1] \in V
    BY <1>2, <1>6, <1>7
  <2>. QED
    BY <1>3, <2>1
<1>9. draw[N].m \in Safe
  <2>1. draw[N] \in V
    BY <1>2, <1>7
  <2>. QED
    BY <2>1 DEF V
<1>. QED
  BY <1>1, <1>6, <1>7, <1>8, <1>9 DEF V, v, N, TextLoops

\* memcpy's loop within the frame buffer, after k words.
CopyLoops(copy, m, dst, src, n) ==
  /\ copy[0] = m
  /\ \A k \in 0 .. n : copy[k] \in Safe
  /\ \A k \in 1 .. n :
       copy[k] = [copy[k - 1] EXCEPT ![dst + k - 1] = copy[k - 1][src + k - 1]]
  /\ Memcpy(m, dst, src, n) = copy[n]

LEMMA MemcpyLoop ==
  ASSUME FbOK, NEW m \in Safe, NEW dst \in Nat, NEW src \in Nat, NEW n \in Nat,
         dst .. (dst + n - 1) \subseteq Area, src .. (src + n - 1) \subseteq Area
  PROVE  /\ Memcpy(m, dst, src, n) \in Safe
         /\ \E copy : CopyLoops(copy, m, dst, src, n)
<1>. DEFINE step(k, c) == [c EXCEPT ![dst + k - 1] = c[src + k - 1]]
            Sol(d) == d = [k \in 0 .. n |-> IF k = 0 THEN m ELSE step(k, d[k - 1])]
            copy == CHOOSE d : Sol(d)
<1>1. Memcpy(m, dst, src, n) = copy[n]
  BY DEF Memcpy
<1>3. ASSUME NEW k \in 1 .. n, NEW c \in Safe PROVE step(k, c) \in Safe
  <2>1. dst + k - 1 \in Area /\ src + k - 1 \in Area
    OBVIOUS
  <2>. DEFINE i == dst + k - 1
              w == c[src + k - 1]
  <2>2. w \in Words /\ i \in Area /\ i \in Memory
    BY <2>1 DEF Safe, FbOK
  <2>. HIDE DEF i, w
  <2>3. [c EXCEPT ![i] = w] \in Safe
    BY <2>2 DEF Safe
  <2>. QED
    BY <2>3 DEF i, w
<1>. HIDE DEF step
<1>4. \E d : Sol(d)
  <2>. DEFINE g == [p \in (1 .. n) \X Safe |-> step(p[1], p[2])]
  <2>1. g \in [(1 .. n) \X Safe -> Safe]
    BY <1>3
  <2>2. PICK f \in [0 .. n -> Safe] : Solves(f, n, m, g)
    <3>. HIDE DEF g
    <3>. QED
      BY <2>1, RecursionWorks
  <2>3. \A k \in 1 .. n : f[k] = step(k, f[k - 1])
    <3>. SUFFICES ASSUME NEW k \in 1 .. n PROVE f[k] = step(k, f[k - 1])
      OBVIOUS
    <3>1. <<k, f[k - 1]>> \in (1 .. n) \X Safe
      OBVIOUS
    <3>. QED
      BY <2>2, <3>1 DEF Solves
  <2>4. f = [k \in 0 .. n |-> IF k = 0 THEN m ELSE step(k, f[k - 1])]
    BY <2>2, <2>3 DEF Solves
  <2>. QED
    BY <2>4
<1>5. Sol(copy)
  BY <1>4
<1>. HIDE DEF copy
<1>6. copy[0] = m /\ \A k \in 1 .. n : copy[k] = step(k, copy[k - 1])
  BY <1>5
<1>7. \A k \in 0 .. n : copy[k] \in Safe
  <2>. DEFINE S == {k \in 0 .. n : copy[k] \in Safe}
  <2>1. 0 \in S
    BY <1>6
  <2>2. \A k \in 1 .. n : k - 1 \in S => k \in S
    BY <1>3, <1>6
  <2>. HIDE DEF S
  <2>3. 0 .. n \subseteq S
    BY <2>1, <2>2, UpTo
  <2>. QED
    BY <2>3 DEF S
<1>8. copy[n] \in Safe
  BY <1>7
<1>9. /\ copy[0] = m
      /\ \A k \in 0 .. n : copy[k] \in Safe
      /\ \A k \in 1 .. n :
           copy[k] = [copy[k - 1] EXCEPT ![dst + k - 1] = copy[k - 1][src + k - 1]]
      /\ Memcpy(m, dst, src, n) = copy[n]
  BY <1>1, <1>6, <1>7 DEF step
<1>. QED
  BY <1>8, <1>9 DEF CopyLoops

LEMMA MemsetSafe ==
  ASSUME FbOK, NEW m \in Safe, NEW dst, NEW n, NEW c \in Words, dst .. (dst + n - 1) \subseteq Area
  PROVE  Memset(m, dst, c, n) \in Safe
BY DEF Memset, Safe

-----------------------------------------------------------------------------
LEMMA Begins ==
  ASSUME ConsoleAssumption, Init
  PROVE  Inv
<1>1. Area = {}
  BY DEF Init, Area
<1>2. FbOK
  BY <1>1 DEF Init, FbOK
<1>3. mem \in Safe
  BY DEF Init, Safe, Words
<1>4. calls \in 0 .. MaxCalls
  BY DEF Init, ConsoleAssumption
<1>. QED
  BY <1>2, <1>3, <1>4 DEF Inv

\* What the VideoCore grants is physical memory, and nothing is stored before.
LEMMA GrantKeeps ==
  ASSUME ConsoleAssumption, Inv, NEW g \in Grants, FbInit(g)
  PROVE  FbOK' /\ mem' \in Safe'
<1>. DEFINE b == g.buffer % BUS
<1>1. /\ g \in [width : Nat, height : Nat, pitch : Nat, buffer : Nat, size : Nat]
      /\ g.size = g.pitch * g.height /\ g.width <= g.pitch
      /\ \A a \in 0 .. (g.size - 1) : b + a \in Memory
  BY DEF ConsoleAssumption
<1>2. b \in Nat
  <2>1. BUS \in Nat \ {0} /\ g.buffer \in Nat
    BY <1>1 DEF ConsoleAssumption
  <2>. QED
    BY <2>1, DivMod
<1>3. fb' = [width |-> g.width, height |-> g.height, pitch |-> g.pitch, buffer |-> b,
             size |-> g.size, initialized |-> TRUE]
  BY DEF FbInit
<1>. HIDE DEF b
<1>4. Area' = b .. (b + g.size - 1)
  BY <1>3 DEF Area
<1>5. Area' \subseteq Memory
  <2>. SUFFICES ASSUME NEW a \in b .. (b + g.size - 1) PROVE a \in Memory
    BY <1>4
  <2>1. a - b \in 0 .. (g.size - 1) /\ a = b + (a - b)
    BY SMTT(30), <1>1, <1>2
  <2>. QED
    BY <1>1, <2>1
<1>6. FbOK'
  BY <1>1, <1>2, <1>3, <1>5 DEF FbOK
<1>7. \A a \in Memory : mem[a] = -1
  <2>1. ~ fb.initialized
    BY DEF FbInit
  <2>2. Area = {}
    BY <2>1 DEF Inv, FbOK, Area
  <2>. QED
    BY <2>2 DEF Inv, Safe
<1>8. mem' = mem /\ mem \in [Memory -> Words]
  BY DEF FbInit, Inv, Safe
<1>. QED
  BY <1>6, <1>7, <1>8 DEF Safe

\* Scrolling by no more than the screen's height copies and clears within it.
LEMMA ScrollSafe ==
  ASSUME ConsoleAssumption, FbOK, NEW m \in Safe, NEW lines \in Nat, lines * LEAD <= fb.height
  PROVE  LET gone == lines * LEAD * fb.pitch
             move_size == (fb.height - lines * LEAD) * fb.pitch IN
           Memset(Memcpy(m, fb.buffer, fb.buffer + gone, move_size),
                  fb.buffer + move_size, 0, gone) \in Safe
<1>. DEFINE b == fb.buffer
            l == lines * LEAD
            p == fb.pitch
            h == fb.height
            gone == l * p
            move_size == (h - l) * p
<1>1. b \in Nat /\ l \in Nat /\ p \in Nat /\ h \in Nat /\ l <= h /\ Area = b .. (b + p * h - 1)
  BY DEF FbOK, ConsoleAssumption, Area
<1>. HIDE DEF b, l, p, h
<1>2. gone \in Nat /\ move_size \in Nat /\ gone + move_size = p * h
  <2>1. h - l \in Nat
    BY <1>1
  <2>2. PICK k \in Nat : k = h - l /\ h = l + k
    BY <1>1, <2>1
  <2>3. move_size = k * p /\ p * h = l * p + k * p
    BY <1>1, <2>2
  <2>. QED
    BY <1>1, <2>3
<1>. HIDE DEF gone, move_size
<1>3. /\ b .. (b + move_size - 1) \subseteq Area
      /\ (b + gone) .. (b + gone + move_size - 1) \subseteq Area
      /\ (b + move_size) .. (b + move_size + gone - 1) \subseteq Area
      /\ b + gone \in Nat
  BY <1>1, <1>2
<1>4. Memcpy(m, b, b + gone, move_size) \in Safe
  BY <1>1, <1>2, <1>3, MemcpyLoop
<1>5. 0 \in Words
  BY DEF Words
<1>6. Memset(Memcpy(m, b, b + gone, move_size), b + move_size, 0, gone) \in Safe
  BY <1>3, <1>4, <1>5, MemsetSafe
<1>. QED
  BY <1>6 DEF b, l, p, h, gone, move_size

LEMMA StepKeeps ==
  ASSUME ConsoleAssumption, Inv, [Next]_vars
  PROVE  Inv'
<1>. USE DEF Inv
<1>. DEFINE Kept == fb' = fb /\ mem' \in Safe
<1>1. ASSUME Kept PROVE FbOK' /\ mem' \in Safe'
  <2>1. FbOK'
    BY <1>1 DEF FbOK, Area
  <2>2. Safe' = Safe
    BY <1>1 DEF Safe, Area
  <2>. QED
    BY <1>1, <2>1, <2>2
<1>2. ASSUME Next PROVE calls' \in 0 .. MaxCalls
  <2>1. calls < MaxCalls /\ calls' = calls + 1
    BY <1>2, ZenonT(60) DEF Next, FbInitFails, FbInit, FbPutPixel, FbFillRect, FbClear, FbPuts,
         FbDrawProgressBar, FbScrollUp, Called
  <2>2. MaxCalls \in Nat
    BY DEF ConsoleAssumption
  <2>3. calls \in 0 .. MaxCalls
    OBVIOUS
  <2>. QED
    BY ONLY <2>1, <2>2, <2>3
<1>3. CASE FbInitFails
  BY <1>1, <1>2, <1>3 DEF FbInitFails, Next
<1>4. ASSUME NEW g \in Grants, FbInit(g) PROVE Inv'
  BY <1>2, <1>4, GrantKeeps DEF Next
<1>5. ASSUME NEW x \in Coords, NEW y \in Coords, NEW c \in Colors, FbPutPixel(x, y, c)
      PROVE  Kept
  BY <1>5, PixelSafe DEF ConsoleAssumption, FbPutPixel
<1>6. ASSUME NEW x \in Coords, NEW y \in Coords, NEW w \in Sizes, NEW h \in Sizes, NEW c \in Colors,
             FbFillRect(x, y, w, h, c)
      PROVE  Kept
  BY <1>6, RectSafe DEF ConsoleAssumption, FbFillRect
<1>7. ASSUME NEW c \in Colors, FbClear(c) PROVE Kept
  <2>1. fb.width \in Nat /\ fb.height \in Nat /\ 0 \in Nat
    BY DEF FbOK
  <2>2. Rect(mem, 0, 0, fb.width, fb.height, c) \in Safe
    BY <2>1, RectSafe
  <2>. QED
    BY <1>7, <2>2 DEF FbClear
<1>8. ASSUME NEW x \in Coords, NEW y \in Coords, NEW s \in Texts,
             NEW fg \in Colors, NEW bg \in Colors,
             FbPuts(x, y, s, fg, bg)
      PROVE  Kept
  <2>1. x \in Nat /\ y \in Nat /\ s \in Seq(Nat)
    BY DEF ConsoleAssumption
  <2>2. Text(mem, x, y, s, fg, bg) \in Safe
    BY <2>1, TextLoop
  <2>. QED
    BY <1>8, <2>2 DEF FbPuts
<1>9. ASSUME NEW x \in Coords, NEW y \in Coords, NEW w \in Sizes, NEW h \in Sizes,
             NEW percent \in Percents, NEW fg \in Colors, NEW bg \in Colors,
             FbDrawProgressBar(x, y, w, h, percent, fg, bg)
      PROVE  Kept
  <2>1. x \in Nat /\ y \in Nat /\ w \in Nat /\ h \in Nat /\ percent \in Nat
    BY DEF ConsoleAssumption
  <2>. DEFINE part == ((w * percent) % WRAP) \div 100
  <2>2. part \in Nat
    <3>1. w * percent \in Nat
      BY <2>1
    <3>2. (w * percent) % WRAP \in Nat
      BY <3>1, WrapNat
    <3>. QED
      BY <3>2, DivMod
  <2>3. Rect(mem, x, y, w, h, bg) \in Safe
    BY <2>1, RectSafe
  <2>. HIDE DEF part
  <2>4. Rect(Rect(mem, x, y, w, h, bg), x, y, part, h, fg) \in Safe
    BY <2>1, <2>2, <2>3, RectSafe
  <2>. QED
    BY <1>9, <2>4 DEF FbDrawProgressBar, part
<1>10. ASSUME NEW lines \in Scrolls, FbScrollUp(lines) PROVE Kept
  <2>1. lines \in Nat
    BY DEF ConsoleAssumption
  <2>2. CASE ~ fb.initialized
    BY <1>10, <2>2 DEF FbScrollUp
  <2>3. CASE fb.initialized
    <3>1. lines * LEAD <= fb.height
      BY <1>10, <2>3 DEF FbScrollUp
    <3>. QED
      BY <1>10, <2>1, <2>3, <3>1, ScrollSafe DEF FbScrollUp
  <2>. QED
    BY <2>2, <2>3
<1>11. CASE UNCHANGED vars
  BY <1>1, <1>11 DEF vars
<1>12. ASSUME Next, Kept PROVE Inv'
  BY <1>1, <1>2, <1>12
<1>. HIDE DEF Inv, Kept
<1>. QED
  BY <1>3, <1>4, <1>5, <1>6, <1>7, <1>8, <1>9, <1>10, <1>11, <1>12 DEF Next

-----------------------------------------------------------------------------
(***************************************************************************)
(* What is kept by every call: the frame buffer is what the VideoCore      *)
(* granted, as long as its pitch times its height, and memory outside it   *)
(* has never been written.                                                 *)
(***************************************************************************)
THEOREM Invariance == Spec => []Inv
<1>1. Init => Inv
  BY ConsoleAssumption, Begins
<1>2. Inv /\ [Next]_vars => Inv'
  BY ConsoleAssumption, StepKeeps
<1>. QED
  BY <1>1, <1>2, PTL DEF Spec

\* Every variable is of its type, and the frame buffer is physical memory.
THEOREM TypeCorrect == Spec => []TypeOK
<1>1. Inv => TypeOK
  BY DEF Inv, FbOK, Safe, Words, Area, TypeOK
<1>. QED
  BY <1>1, Invariance, PTL

(***************************************************************************)
(* Only memory the VideoCore has granted is ever written (fb.c:176, 192,   *)
(* 198, 251): whatever the coordinates, the text, and its glyphs, for      *)
(* every grant and pitch, at every word size the sums wrap at.             *)
(***************************************************************************)
THEOREM Confined == Spec => []OnlyFrameBufferWritten
<1>1. Inv => OnlyFrameBufferWritten
  <2>. SUFFICES ASSUME Inv, NEW a \in Memory, mem[a] # -1
                PROVE  fb.initialized /\ a \in Area
    BY DEF OnlyFrameBufferWritten, Area
  <2>1. a \in Area
    BY DEF Inv, Safe
  <2>2. CASE ~ fb.initialized
    <3>1. Area = {}
      BY <2>2 DEF Inv, FbOK, Area
    <3>. QED
      BY <2>1, <3>1
  <2>. QED
    BY <2>1, <2>2
<1>. QED
  BY <1>1, Invariance, PTL

-----------------------------------------------------------------------------
\* What is on the screen, in memory m.
Pts == (0 .. (fb.width - 1)) \X (0 .. (fb.height - 1))
At(m, p) == m[fb.buffer + p[2] * fb.pitch + p[1]]


LEMMA PlacesDiffer ==
  ASSUME NEW p \in Nat, NEW x1 \in Nat, NEW x2 \in Nat, NEW y1 \in Nat, NEW y2 \in Nat,
         x1 < p, x2 < p, y1 * p + x1 = y2 * p + x2
  PROVE  x1 = x2 /\ y1 = y2
<1>1. ASSUME NEW a \in Nat, NEW b \in Nat, NEW c \in Nat, NEW d \in Nat, a < p, b < p, c < d
      PROVE  c * p + a < d * p + b
  <2>1. d - c - 1 \in Nat /\ d = c + 1 + (d - c - 1)
    BY <1>1
  <2>2. PICK k \in Nat : d = c + 1 + k
    BY <2>1
  <2>3. d * p = c * p + p + k * p
    BY <2>2
  <2>4. c * p \in Nat /\ k * p \in Nat
    BY <2>2
  <2>. QED
    BY <1>1, <2>3, <2>4
<1>2. ~ (y1 < y2)
  <2>1. y1 * p + x1 \in Nat /\ y2 * p + x2 \in Nat
    OBVIOUS
  <2>. QED
    BY <1>1, <2>1
<1>3. ~ (y2 < y1)
  <2>1. y1 * p + x1 \in Nat /\ y2 * p + x2 \in Nat
    OBVIOUS
  <2>. QED
    BY <1>1, <2>1
<1>4. y1 = y2
  BY <1>2, <1>3
<1>. QED
  BY <1>4

\* A pixel of the screen is a word of the frame buffer,
LEMMA OnScreen ==
  ASSUME FbOK, NEW p \in Pts
  PROVE  /\ p[1] \in Nat /\ p[1] < fb.width /\ p[2] \in Nat /\ p[2] < fb.height
         /\ p = <<p[1], p[2]>>
         /\ fb.initialized
         /\ fb.buffer + Offset(p[1], p[2]) \in Area
         /\ \A m : At(m, p) = m[fb.buffer + Offset(p[1], p[2])]
<1>1. p[1] \in Nat /\ p[1] < fb.width /\ p[2] \in Nat /\ p[2] < fb.height /\ p = <<p[1], p[2]>>
  BY DEF Pts, FbOK
<1>2. fb.initialized
  BY <1>1 DEF FbOK
<1>3. fb.buffer + Offset(p[1], p[2]) \in Area
  BY <1>1, StoreInside
<1>4. fb.buffer + p[2] * fb.pitch + p[1] = fb.buffer + (p[2] * fb.pitch + p[1])
  <2>1. p[2] * fb.pitch \in Nat /\ fb.buffer \in Nat
    BY <1>1 DEF FbOK
  <2>. QED
    BY <1>1, <2>1
<1>. QED
  BY <1>1, <1>2, <1>3, <1>4 DEF At, Offset

\* each of its own.
LEMMA OneWordEach ==
  ASSUME FbOK, NEW p \in Pts, NEW x \in Nat, NEW y \in Nat, x < fb.width,
         fb.buffer + Offset(p[1], p[2]) = fb.buffer + Offset(x, y)
  PROVE  p = <<x, y>>
<1>. DEFINE q == fb.pitch
            a == p[2] * q
            b == y * q
<1>1. /\ p[1] \in Nat /\ p[2] \in Nat /\ p[1] < q /\ x < q /\ q \in Nat /\ p = <<p[1], p[2]>>
      /\ fb.buffer \in Nat
  BY OnScreen DEF FbOK
<1>2. a \in Nat /\ b \in Nat
  BY <1>1
<1>3. a + p[1] = b + x
  <2>1. fb.buffer + (a + p[1]) = fb.buffer + (b + x)
    BY DEF Offset
  <2>. HIDE DEF a, b, q
  <2>. QED
    BY <1>1, <1>2, <2>1
<1>4. p[1] = x /\ p[2] = y
  <2>. HIDE DEF q
  <2>. QED
    BY <1>1, <1>3, PlacesDiffer
<1>. QED
  BY <1>1, <1>4

LEMMA PixelPaints ==
  ASSUME FbOK, NEW m \in Safe, NEW x \in Nat, NEW y \in Nat, NEW c, NEW p \in Pts
  PROVE  At(Pixel(m, x, y, c), p) = IF p = <<x, y>> THEN c ELSE At(m, p)
<1>. DEFINE a == fb.buffer + Offset(p[1], p[2])
            k == fb.buffer + Offset(x, y)
<1>1. a \in Memory /\ fb.initialized /\ At(m, p) = m[a] /\ \A w : At(w, p) = w[a]
  BY OnScreen DEF FbOK
<1>2. p[1] < fb.width /\ p[2] < fb.height /\ p = <<p[1], p[2]>>
  BY OnScreen
<1>3. CASE x >= fb.width \/ y >= fb.height
  <2>1. Pixel(m, x, y, c) = m
    BY <1>3 DEF Pixel
  <2>2. p # <<x, y>>
    BY <1>2, <1>3 DEF FbOK
  <2>. QED
    BY <2>1, <2>2
<1>4. CASE ~ (x >= fb.width \/ y >= fb.height)
  <2>1. Pixel(m, x, y, c) = [m EXCEPT ![k] = c]
    BY <1>1, <1>4 DEF Pixel, Store
  <2>2. DOMAIN m = Memory
    BY DEF Safe
  <2>3. x < fb.width
    BY <1>4 DEF FbOK
  <2>4. a = k => p = <<x, y>>
    BY <2>3, OneWordEach
  <2>5. p = <<x, y>> => a = k
    OBVIOUS
  <2>. HIDE DEF a, k
  <2>. QED
    BY <1>1, <2>1, <2>2, <2>4, <2>5
<1>. QED
  BY <1>3, <1>4

LEMMA DivRest ==
  ASSUME NEW a \in Nat, NEW b \in Nat \ {0}
  PROVE  a = (a \div b) * b + (a % b) /\ a % b < b /\ (a < b * b => a \div b < b)
<1>. DEFINE q == a \div b
            r == a % b
<1>1. q \in Nat /\ r \in Nat /\ a = q * b + r /\ r < b
  <2>1. a = q * b + r /\ r < b
    OBVIOUS
  <2>. QED
    BY <2>1, DivMod
<1>. HIDE DEF q, r
<1>2. ASSUME a < b * b, q >= b PROVE FALSE
  <2>1. q - b \in Nat /\ q = b + (q - b)
    BY <1>1, <1>2
  <2>2. PICK k \in Nat : q = b + k
    BY <2>1
  <2>3. q * b = b * b + k * b /\ k * b \in Nat /\ b * b \in Nat
    BY <2>2
  <2>. QED
    BY <1>1, <1>2, <2>3
<1>3. a = q * b + r /\ r < b /\ (a < b * b => q < b)
  BY <1>1, <1>2
<1>. QED
  BY <1>3 DEF q, r

LEMMA NoWrap ==
  ASSUME ConsoleAssumption, NEW n \in Nat, n < WRAP
  PROVE  n % WRAP = n
<1>. DEFINE q == n \div WRAP
            r == n % WRAP
<1>1. WRAP \in Nat /\ q \in Nat /\ r \in Nat /\ n = q * WRAP + r
  <2>1. WRAP \in Nat \ {0}
    BY DEF ConsoleAssumption
  <2>. QED
    BY <2>1, DivMod, DivRest
<1>. HIDE DEF q, r
<1>2. ASSUME q # 0 PROVE FALSE
  <2>1. q - 1 \in Nat /\ q = 1 + (q - 1)
    BY <1>1, <1>2
  <2>2. PICK k \in Nat : q = 1 + k
    BY <2>1
  <2>3. q * WRAP = WRAP + k * WRAP /\ k * WRAP \in Nat
    BY <1>1, <2>2
  <2>4. n < WRAP
    OBVIOUS
  <2>. DEFINE a == q * WRAP
              b == k * WRAP
  <2>5. WRAP \in Nat /\ r \in Nat /\ n = a + r /\ a = WRAP + b /\ b \in Nat
    BY <1>1, <2>3
  <2>. HIDE DEF a, b
  <2>. QED
    BY ONLY <2>4, <2>5
<1>3. n = r
  BY <1>1, <1>2
<1>. QED
  BY <1>3 DEF r

Fits(x, w) == x + w < WRAP

LEMMA LoopIs ==
  ASSUME ConsoleAssumption, NEW from \in Nat, NEW count \in Nat, NEW limit \in Nat,
         Fits(from, count)
  PROVE  Loop(from, count, limit) = {j \in from .. (limit - 1) : j < from + count}
<1>1. from + count \in Nat
  OBVIOUS
<1>2. (from + count) % WRAP = from + count
  BY <1>1, NoWrap DEF Fits
<1>. QED
  BY <1>2 DEF Loop

RectOver(m, x, y, w, h, c, p) == IF Shown!InRect(p, x, y, w, h) THEN c ELSE At(m, p)

LEMMA RectPaints ==
  ASSUME ConsoleAssumption, FbOK, NEW m \in Safe, NEW x \in Nat, NEW y \in Nat,
         NEW w \in Nat, NEW h \in Nat, NEW c, NEW p \in Pts, Fits(x, w), Fits(y, h)
  PROVE  At(Rect(m, x, y, w, h, c), p) = RectOver(m, x, y, w, h, c, p)
<1>. DEFINE a == fb.buffer + Offset(p[1], p[2])
            painted == {fb.buffer + Offset(i, j) :
                          i \in Loop(x, w, fb.width), j \in Loop(y, h, fb.height)}
<1>1. a \in Memory /\ At(m, p) = m[a] /\ \A v : At(v, p) = v[a]
  BY OnScreen DEF FbOK
<1>2. p[1] \in Nat /\ p[1] < fb.width /\ p[2] \in Nat /\ p[2] < fb.height
  BY OnScreen
<1>3. fb.width \in Nat /\ fb.height \in Nat
  BY DEF FbOK
<1>7. /\ Loop(x, w, fb.width) = {j \in x .. (fb.width - 1) : j < x + w}
      /\ Loop(y, h, fb.height) = {j \in y .. (fb.height - 1) : j < y + h}
  <2>. DEFINE u == fb.width
              v == fb.height
  <2>1. u \in Nat /\ v \in Nat
    BY <1>3
  <2>. HIDE DEF u, v
  <2>2. Loop(x, w, u) = {j \in x .. (u - 1) : j < x + w}
    BY SMTT(30), <2>1, LoopIs
  <2>3. Loop(y, h, v) = {j \in y .. (v - 1) : j < y + h}
    BY SMTT(30), <2>1, LoopIs
  <2>. QED
    BY <2>2, <2>3 DEF u, v
<1>4. ASSUME Shown!InRect(p, x, y, w, h) PROVE a \in painted
  <2>. DEFINE i == p[1]
              j == p[2]
              u == fb.width
              v == fb.height
  <2>1. i \in Nat /\ i < u /\ j \in Nat /\ j < v /\ u \in Nat /\ v \in Nat
        /\ i \in x .. (x + w - 1) /\ j \in y .. (y + h - 1)
    BY <1>2, <1>3, <1>4 DEF Shown!InRect
  <2>. HIDE DEF i, j, u, v
  <2>2. i \in {k \in x .. (u - 1) : k < x + w} /\ j \in {k \in y .. (v - 1) : k < y + h}
    BY ONLY <2>1, x \in Nat, w \in Nat, y \in Nat, h \in Nat
  <2>3. p[1] \in Loop(x, w, fb.width) /\ p[2] \in Loop(y, h, fb.height)
    BY <1>7, <2>2 DEF i, j, u, v
  <2>. QED
    BY <2>3
<1>5. ASSUME a \in painted PROVE Shown!InRect(p, x, y, w, h)
  <2>1. PICK i \in Loop(x, w, fb.width), j \in Loop(y, h, fb.height) : a = fb.buffer + Offset(i, j)
    BY <1>5
  <2>2. i \in Nat /\ i < fb.width /\ j \in Nat /\ i \in x .. (x + w - 1) /\ j \in y .. (y + h - 1)
    <3>1. /\ i \in {k \in x .. (fb.width - 1) : k < x + w}
          /\ j \in {k \in y .. (fb.height - 1) : k < y + h}
      BY <1>7
    <3>. HIDE DEF painted, a
    <3>. QED
      BY ONLY <1>3, <3>1, x \in Nat, w \in Nat, y \in Nat, h \in Nat
  <2>3. p = <<i, j>>
    BY <2>1, <2>2, OneWordEach
  <2>. QED
    BY <2>2, <2>3 DEF Shown!InRect
<1>6. Rect(m, x, y, w, h, c) = [v \in Memory |-> IF v \in painted THEN c ELSE m[v]]
  BY DEF Rect, Safe
<1>. HIDE DEF a, painted
<1>. QED
  BY <1>1, <1>4, <1>5, <1>6 DEF RectOver

LEMMA Between ==
  ASSUME NEW a \in Nat, NEW b \in Nat, NEW n \in Nat
  PROVE  a \in b .. (b + n - 1) <=> a - b \in Nat /\ a - b < n
OBVIOUS

\* fb_putchar paints the glyph's square, where that is on the screen.
CharOver(m, x, y, c, fg, bg, p) ==
  IF Shown!InRect(p, x, y, GLYPH, GLYPH)
    THEN IF <<p[1] - x, p[2] - y>> \in Shown!Glyph(c) THEN fg ELSE bg
    ELSE At(m, p)

LEMMA CharPaints ==
  ASSUME ConsoleAssumption, FbOK, NEW m \in Safe, NEW x \in Nat, NEW y \in Nat, NEW c,
         NEW fg \in Colors, NEW bg \in Colors, NEW p \in Pts,
         x + GLYPH <= WRAP, y + GLYPH <= WRAP
  PROVE  At(Char(m, x, y, c, fg, bg), p) = CharOver(m, x, y, c, fg, bg, p)
<1>. DEFINE G == GLYPH
            N == G * G
            glyph == Font[IF c \in DOMAIN Font THEN c ELSE 0]
            color(i, j) == IF <<i, j>> \in glyph THEN fg ELSE bg
            inside == Shown!InRect(p, x, y, G, G)
            place == (p[2] - y) * G + (p[1] - x)
<1>1. /\ G \in Nat \ {0} /\ N \in Nat /\ WRAP \in Nat
      /\ p[1] \in Nat /\ p[2] \in Nat /\ p = <<p[1], p[2]>>
  BY OnScreen DEF ConsoleAssumption
<1>2. PICK draw :
        /\ draw[0] = m
        /\ \A n \in 0 .. N : draw[n] \in Safe
        /\ \A n \in 1 .. N :
             draw[n] = Pixel(draw[n - 1],
                             (x + ((n - 1) % G)) % WRAP, (y + (n - 1) \div G) % WRAP,
                             color((n - 1) % G, (n - 1) \div G))
        /\ Char(m, x, y, c, fg, bg) = IF fb.initialized THEN draw[N] ELSE m
  <2>1. \E draw : CharLoops(draw, m, x, y, c, fg, bg)
    BY CharLoop
  <2>. QED
    BY <2>1, Zenon DEF CharLoops
<1>3. inside <=> /\ p[1] - x \in Nat /\ p[1] - x < G
                 /\ p[2] - y \in Nat /\ p[2] - y < G
  <2>. HIDE DEF G
  <2>. QED
    BY <1>1, Between DEF Shown!InRect
<1>4. Shown!Glyph(c) = glyph
  BY DEF Shown!Glyph
<1>. HIDE DEF glyph
<1>5. inside => place \in 0 .. (N - 1)
  <2>. SUFFICES ASSUME inside PROVE place \in 0 .. (N - 1)
    OBVIOUS
  <2>. DEFINE i == p[1] - x
              j == p[2] - y
  <2>1. i \in Nat /\ j \in Nat /\ i < G /\ j < G /\ G \in Nat /\ G <= G
    BY <1>1, <1>3
  <2>. HIDE DEF i, j, G
  <2>2. j * G + i \in 0 .. (G * G - 1)
    BY <2>1, RowInside
  <2>. QED
    BY <2>2 DEF i, j
<1>. DEFINE Done(n) == At(draw[n], p) = IF inside /\ place < n THEN color(p[1] - x, p[2] - y)
                                                               ELSE At(m, p)
            S == {n \in 0 .. N : Done(n)}
<1>6. 0 \in S
  <2>1. ~ (inside /\ place < 0)
    BY <1>5
  <2>. QED
    BY SMTT(30), <1>1, <1>2, <2>1
<1>7. ASSUME NEW n \in 1 .. N, n - 1 \in S PROVE n \in S
  <2>. DEFINE i == (n - 1) % G
              j == (n - 1) \div G
  <2>1. n \in Nat /\ n - 1 \in Nat /\ n - 1 < N /\ n - 1 \in 0 .. N /\ n \in 0 .. N
    BY SMTT(30), <1>1
  <2>2. i \in Nat /\ j \in Nat
    BY <1>1, <2>1, DivMod
  <2>3. n - 1 = j * G + i /\ i < G /\ j < G
    <3>1. G \in Nat \ {0} /\ n - 1 \in Nat /\ n - 1 < G * G
      BY <1>1, <2>1
    <3>. HIDE DEF G
    <3>2. \A v \in Nat : v < G * G => v = (v \div G) * G + (v % G) /\ v % G < G /\ v \div G < G
      BY <3>1, DivRest
    <3>. QED
      BY <3>1, <3>2
  <2>. HIDE DEF i, j, N
  <2>4. (x + i) % WRAP = x + i /\ (y + j) % WRAP = y + j
    <3>1. x + i \in Nat /\ y + j \in Nat /\ x + i < WRAP /\ y + j < WRAP
      <4>1. x + G <= WRAP /\ y + G <= WRAP /\ G \in Nat /\ WRAP \in Nat /\ i < G /\ j < G
        BY <1>1, <2>3
      <4>. HIDE DEF G
      <4>. QED
        BY <2>2, <4>1
    <3>. QED
      BY <3>1, NoWrap
  <2>5. draw[n] = Pixel(draw[n - 1], x + i, y + j, color(i, j))
    BY <1>2, <2>4 DEF i, j
  <2>6. At(draw[n], p) = IF p = <<x + i, y + j>> THEN color(i, j) ELSE At(draw[n - 1], p)
    <3>1. draw[n - 1] \in Safe /\ x + i \in Nat /\ y + j \in Nat
      BY <1>2, <2>1, <2>2
    <3>. HIDE DEF color
    <3>. QED
      BY <2>5, <3>1, PixelPaints
  <2>7. Done(n - 1)
    BY <1>7
  <2>8. CASE p = <<x + i, y + j>>
    <3>1. p[1] - x = i /\ p[2] - y = j
      BY <1>1, <2>2, <2>8
    <3>2. inside /\ place = n - 1
      BY <1>3, <2>2, <2>3, <3>1
    <3>. HIDE DEF place, inside, color
    <3>3. Done(n)
      BY <2>1, <2>6, <2>8, <3>1, <3>2
    <3>. QED
      BY <2>1, <3>3
  <2>9. CASE p # <<x + i, y + j>>
    <3>1. ASSUME inside, place = n - 1 PROVE FALSE
      <4>. DEFINE k == p[1] - x
                  l == p[2] - y
      <4>1. k \in Nat /\ l \in Nat /\ k < G /\ l * G + k = j * G + i
        BY <1>3, <2>3, <3>1
      <4>2. k = i /\ l = j
        <5>1. G \in Nat
          BY <1>1
        <5>. HIDE DEF k, l, G
        <5>2. i < G /\ j < G
          BY <2>3
        <5>. QED
          BY ONLY SMTT(30), <2>2, <4>1, <5>1, <5>2, PlacesDiffer
      <4>3. p = <<p[1], p[2]>> /\ p[1] \in Nat /\ p[2] \in Nat
        BY DEF Pts
      <4>4. p[1] = x + i /\ p[2] = y + j
        <5>. HIDE DEF i, j
        <5>. QED
          BY ONLY <2>2, <4>2, <4>3, x \in Nat, y \in Nat
      <4>. HIDE DEF i, j
      <4>. QED
        BY ONLY <2>9, <4>3, <4>4
    <3>2. inside => place \in Int
      BY <1>5
    <3>. HIDE DEF place, inside, color
    <3>3. (inside /\ place < n) <=> (inside /\ place < n - 1)
      BY <2>1, <3>1, <3>2
    <3>4. Done(n)
      BY <2>6, <2>7, <2>9, <3>3
    <3>. QED
      BY <2>1, <3>4
  <2>. QED
    BY <2>8, <2>9
<1>8. Done(N)
  <2>. HIDE DEF S, N
  <2>1. 0 .. N \subseteq S
    BY <1>1, <1>6, <1>7, UpTo
  <2>2. N \in S
    BY <1>1, <2>1
  <2>. QED
    BY <2>2 DEF S
<1>9. fb.initialized
  BY OnScreen
<1>10. inside => place < N
  BY <1>1, <1>5
<1>11. At(Char(m, x, y, c, fg, bg), p) = IF inside THEN color(p[1] - x, p[2] - y) ELSE At(m, p)
  <2>. HIDE DEF place, inside, color, N
  <2>. QED
    BY <1>2, <1>8, <1>9, <1>10
<1>. QED
  BY <1>4, <1>11 DEF CharOver

LEMMA MulStep ==
  ASSUME NEW a \in Nat, NEW b \in Nat, NEW c \in Nat, a < b
  PROVE  c * a + c <= c * b
<1>1. b - a - 1 \in Nat /\ b = a + 1 + (b - a - 1)
  OBVIOUS
<1>2. PICK k \in Nat : b = a + 1 + k
  BY <1>1
<1>3. c * b = c * a + c + c * k /\ c * k \in Nat /\ c * a \in Nat
  BY <1>2
<1>. QED
  BY <1>3

-----------------------------------------------------------------------------
\* The lines of a text and the places on each, a character at a time.
LEMMA Lines ==
  ASSUME NEW s, NEW n \in Nat
  PROVE  /\ Shown!LineOf(s, 1) = 0 /\ Shown!PlaceOf(s, 1) = 0
         /\ \A k \in 1 .. (n + 1) : Shown!LineOf(s, k) \in Nat /\ Shown!PlaceOf(s, k) \in Nat
         /\ \A k \in 1 .. n : s[k] = NEWLINE =>
              /\ Shown!LineOf(s, k + 1) = Shown!LineOf(s, k) + 1
              /\ Shown!PlaceOf(s, k + 1) = 0
         /\ \A k \in 1 .. n : s[k] # NEWLINE =>
              /\ Shown!LineOf(s, k + 1) = Shown!LineOf(s, k)
              /\ Shown!PlaceOf(s, k + 1) = Shown!PlaceOf(s, k) + 1
<1>. DEFINE L(k) == Shown!LineOf(s, k)
            P(k) == Shown!PlaceOf(s, k)
            Ends(k) == {j \in 1 .. (k - 1) : s[j] = NEWLINE}
            Row(k) == {j \in 1 .. (k - 1) : s[j] # NEWLINE /\ L(j) = L(k)}
<1>1. \A k : L(k) = Cardinality(Ends(k))
  BY Zenon DEF Shown!LineOf, Shown!NEWLINE, NEWLINE, Shown!Cardinality, Cardinality
<1>2. \A k : P(k) = Cardinality(Row(k))
  BY Zenon DEF Shown!PlaceOf, Shown!NEWLINE, NEWLINE, Shown!Cardinality, Cardinality
<1>. HIDE DEF L, P
<1>3. ASSUME NEW k \in Nat, k > 0 PROVE IsFiniteSet(Ends(k)) /\ IsFiniteSet(Row(k))
  <2>1. IsFiniteSet(1 .. (k - 1))
    BY <1>3, FS_Interval
  <2>2. Ends(k) \subseteq 1 .. (k - 1) /\ Row(k) \subseteq 1 .. (k - 1)
    OBVIOUS
  <2>. QED
    BY <2>1, <2>2, FS_Subset
<1>4. L(1) = 0 /\ P(1) = 0
  <2>1. Ends(1) = {} /\ Row(1) = {}
    OBVIOUS
  <2>. QED
    BY <1>1, <1>2, <2>1, FS_EmptySet
<1>5. ASSUME NEW k \in Nat, k > 0 PROVE L(k) \in Nat /\ P(k) \in Nat
  BY <1>1, <1>2, <1>3, <1>5, FS_CardinalityType
<1>6. ASSUME NEW j \in Nat, NEW k \in Nat, 0 < j, j <= k PROVE L(j) <= L(k)
  <2>1. Ends(j) \subseteq Ends(k)
    BY <1>6
  <2>2. IsFiniteSet(Ends(k)) /\ IsFiniteSet(Ends(j))
    <3>1. k > 0 /\ j > 0
      BY <1>6
    <3>. HIDE DEF Ends
    <3>. QED
      BY <1>3, <3>1
  <2>. HIDE DEF Ends
  <2>3. Cardinality(Ends(j)) <= Cardinality(Ends(k))
    BY <2>1, <2>2, FS_Subset
  <2>. QED
    BY <1>1, <2>3
<1>7. ASSUME NEW k \in Nat, k > 0, s[k] = NEWLINE
      PROVE  L(k + 1) = L(k) + 1 /\ P(k + 1) = 0
  <2>1. Ends(k + 1) = Ends(k) \cup {k} /\ k \notin Ends(k)
    BY <1>7
  <2>2. L(k + 1) = L(k) + 1
    <3>. HIDE DEF Ends
    <3>. QED
      BY <1>1, <1>3, <1>7, <2>1, FS_AddElement
  <2>3. Row(k + 1) = {}
    <3>. SUFFICES ASSUME NEW j \in Row(k + 1) PROVE FALSE
      OBVIOUS
    <3>1. j \in Nat /\ 0 < j /\ j <= k /\ L(j) = L(k + 1)
      BY <1>7
    <3>2. L(j) <= L(k) /\ L(k) \in Nat
      BY <1>5, <1>6, <1>7, <3>1
    <3>. QED
      BY <2>2, <3>1, <3>2
  <2>. QED
    BY <1>2, <2>2, <2>3, FS_EmptySet
<1>8. ASSUME NEW k \in Nat, k > 0, s[k] # NEWLINE
      PROVE  L(k + 1) = L(k) /\ P(k + 1) = P(k) + 1
  <2>1. Ends(k + 1) = Ends(k)
    BY <1>8
  <2>2. L(k + 1) = L(k)
    BY <1>1, <2>1
  <2>3. Row(k + 1) = Row(k) \cup {k} /\ k \notin Row(k)
    BY <1>8, <2>2
  <2>4. P(k + 1) = P(k) + 1
    <3>. HIDE DEF Row
    <3>. QED
      BY <1>2, <1>3, <1>8, <2>3, FS_AddElement
  <2>. QED
    BY <2>2, <2>4
<1>9. /\ L(1) = 0 /\ P(1) = 0
      /\ \A k \in 1 .. (n + 1) : L(k) \in Nat /\ P(k) \in Nat
      /\ \A k \in 1 .. n : s[k] = NEWLINE => L(k + 1) = L(k) + 1 /\ P(k + 1) = 0
      /\ \A k \in 1 .. n : s[k] # NEWLINE => L(k + 1) = L(k) /\ P(k + 1) = P(k) + 1
  BY <1>4, <1>5, <1>7, <1>8
<1>. QED
  BY <1>9 DEF L, P

LEMMA Disjoint ==
  ASSUME NEW q \in Nat, NEW x \in Nat, NEW c \in Nat, NEW g \in Nat, NEW u \in Nat, NEW v \in Nat,
         g <= c, u < v, q \in (x + c * u) .. (x + c * u + g - 1),
         q \in (x + c * v) .. (x + c * v + g - 1)
  PROVE  FALSE
<1>. DEFINE d == c * u
            e == c * v
<1>1. d + c <= e /\ d \in Nat /\ e \in Nat
  BY MulStep
<1>2. q <= x + d + g - 1 /\ x + e <= q
  BY <1>1
<1>. HIDE DEF d, e
<1>. QED
  BY <1>1, <1>2

\* No two characters of a text are drawn over each other.
LEMMA Apart ==
  ASSUME ConsoleAssumption, GLYPH <= LEAD, NEW s \in Seq(Nat), NEW x \in Nat, NEW y \in Nat,
         NEW p \in Pts, NEW j \in Shown!CharAt(s, x, y, p), NEW k \in Shown!CharAt(s, x, y, p), FbOK
  PROVE  j = k
<1>. DEFINE n == Len(s)
            L(i) == Shown!LineOf(s, i)
            P(i) == Shown!PlaceOf(s, i)
            C == Shown!CharAt(s, x, y, p)
<1>1. /\ n \in Nat
      /\ \A i \in 1 .. (n + 1) : L(i) \in Nat /\ P(i) \in Nat
      /\ \A i \in 1 .. n : s[i] = NEWLINE => L(i + 1) = L(i) + 1 /\ P(i + 1) = 0
      /\ \A i \in 1 .. n : s[i] # NEWLINE => L(i + 1) = L(i) /\ P(i + 1) = P(i) + 1
  <2>1. n \in Nat
    OBVIOUS
  <2>. HIDE DEF n
  <2>. QED
    BY <2>1, Lines
<1>2. \A i \in C : /\ i \in 1 .. n /\ s[i] # NEWLINE
                   /\ p[1] \in (x + GLYPH * P(i)) .. (x + GLYPH * P(i) + GLYPH - 1)
                   /\ p[2] \in (y + LEAD * L(i)) .. (y + LEAD * L(i) + GLYPH - 1)
  <2>. TAKE i \in C
  <2>1. DOMAIN s = 1 .. n
    OBVIOUS
  <2>. QED
    BY <2>1, Zenon DEF Shown!CharAt, Shown!InRect, Shown!NEWLINE, NEWLINE
<1>. HIDE DEF L, P, C
<1>3. GLYPH \in Nat /\ LEAD \in Nat /\ p[1] \in Nat /\ p[2] \in Nat
  BY OnScreen DEF ConsoleAssumption
<1>4. ASSUME NEW a \in C, NEW b \in C, a < b PROVE FALSE
  <2>. DEFINE After(i) == L(a) <= L(i) /\ (L(i) = L(a) => P(a) < P(i))
              S == {i \in 0 .. (b - a - 1) : After(a + 1 + i)}
  <2>1. a \in 1 .. n /\ b \in 1 .. n /\ s[a] # NEWLINE
    BY <1>2
  <2>2. 0 \in S
    <3>1. L(a + 1) = L(a) /\ P(a + 1) = P(a) + 1 /\ L(a) \in Nat /\ P(a) \in Nat
      <4>1. a \in 1 .. (n + 1) /\ a \in 1 .. n
        BY <1>1, <2>1
      <4>. HIDE DEF n
      <4>. QED
        BY ONLY ZenonT(60), <1>1, <2>1, <4>1
    <3>2. After(a + 1 + 0)
      <4>1. a + 1 + 0 = a + 1
        BY <1>1, <2>1
      <4>2. L(a) <= L(a + 1) /\ (L(a + 1) = L(a) => P(a) < P(a + 1))
        BY ONLY <3>1
      <4>3. After(a + 1)
        BY <4>2
      <4>. HIDE DEF After
      <4>. QED
        BY ONLY <4>1, <4>3
    <3>. HIDE DEF After
    <3>. QED
      BY <1>1, <1>4, <2>1, <3>2
  <2>3. ASSUME NEW i \in 1 .. (b - a - 1), i - 1 \in S PROVE i \in S
    <3>1. After(a + i)
      <4>1. a + 1 + (i - 1) = a + i
        BY <1>1, <2>1
      <4>2. After(a + 1 + (i - 1))
        BY <2>3
      <4>. HIDE DEF After
      <4>. QED
        BY <4>1, <4>2
    <3>2. a + i \in 1 .. n /\ a + i + 1 = a + 1 + i /\ i \in 0 .. (b - a - 1)
      BY <1>1, <2>1
    <3>. DEFINE g == a + i
    <3>3. /\ L(g) \in Nat /\ P(g) \in Nat /\ L(a) \in Nat /\ P(a) \in Nat
          /\ s[g] = NEWLINE => L(g + 1) = L(g) + 1 /\ P(g + 1) = 0
          /\ s[g] # NEWLINE => L(g + 1) = L(g) /\ P(g + 1) = P(g) + 1
      <4>1. g \in 1 .. n /\ g \in 1 .. (n + 1) /\ a \in 1 .. (n + 1)
        BY SMTT(30), <1>1, <2>1, <3>2
      <4>. HIDE DEF g, n
      <4>. QED
        BY <1>1, <4>1
    <3>4. After(g)
      BY <3>1
    <3>. HIDE DEF g
    <3>5. After(g + 1)
      BY <3>3, <3>4
    <3>. QED
      BY <3>2, <3>5 DEF g
  <2>4. After(b)
    <3>1. b - a - 1 \in Nat /\ a + 1 + (b - a - 1) = b
      BY <1>1, <1>4, <2>1
    <3>. HIDE DEF S
    <3>2. 0 .. (b - a - 1) \subseteq S
      BY <2>2, <2>3, <3>1, UpTo
    <3>3. b - a - 1 \in S
      BY <3>1, <3>2
    <3>4. After(a + 1 + (b - a - 1))
      BY <3>3 DEF S
    <3>. HIDE DEF After
    <3>. QED
      BY <3>1, <3>4
  <2>5. L(a) \in Nat /\ P(a) \in Nat /\ L(b) \in Nat /\ P(b) \in Nat
    BY SMTT(30), <1>1, <2>1
  <2>6. /\ p[1] \in (x + GLYPH * P(a)) .. (x + GLYPH * P(a) + GLYPH - 1)
        /\ p[1] \in (x + GLYPH * P(b)) .. (x + GLYPH * P(b) + GLYPH - 1)
        /\ p[2] \in (y + LEAD * L(a)) .. (y + LEAD * L(a) + GLYPH - 1)
        /\ p[2] \in (y + LEAD * L(b)) .. (y + LEAD * L(b) + GLYPH - 1)
    BY <1>2
  <2>. DEFINE la == L(a)
              lb == L(b)
              pa == P(a)
              pb == P(b)
              p1 == p[1]
              p2 == p[2]
  <2>7. /\ la <= lb /\ (lb = la => pa < pb)
        /\ la \in Nat /\ lb \in Nat /\ pa \in Nat /\ pb \in Nat /\ p1 \in Nat /\ p2 \in Nat
        /\ GLYPH <= LEAD /\ GLYPH <= GLYPH
    BY <1>3, <2>4, <2>5
  <2>. HIDE DEF la, lb, pa, pb, p1, p2
  <2>8. CASE la = lb
    <3>1. pa < pb
      BY <2>7, <2>8
    <3>2. p1 \in (x + GLYPH * pa) .. (x + GLYPH * pa + GLYPH - 1)
      BY <2>6 DEF pa, p1
    <3>3. p1 \in (x + GLYPH * pb) .. (x + GLYPH * pb + GLYPH - 1)
      BY <2>6 DEF pb, p1
    <3>. QED
      BY ONLY <1>3, <2>7, <3>1, <3>2, <3>3, x \in Nat, Disjoint
  <2>9. CASE la # lb
    <3>1. la < lb
      BY <2>7, <2>9
    <3>2. p2 \in (y + LEAD * la) .. (y + LEAD * la + GLYPH - 1)
      BY <2>6 DEF la, p2
    <3>3. p2 \in (y + LEAD * lb) .. (y + LEAD * lb + GLYPH - 1)
      BY <2>6 DEF lb, p2
    <3>. QED
      BY ONLY <1>3, <2>7, <3>1, <3>2, <3>3, y \in Nat, Disjoint
  <2>. QED
    BY <2>8, <2>9
<1>5. j \in Nat /\ k \in Nat
  BY <1>1, <1>2 DEF C
<1>. QED
  BY <1>4, <1>5 DEF C

LEMMA MulNext ==
  ASSUME NEW a \in Nat, NEW b \in Nat
  PROVE  a * b \in Nat /\ a * (b + 1) = a * b + a /\ a * 0 = 0
OBVIOUS

\* fb_puts paints the characters, each where it belongs.
TextOver(new, m, x, y, s, fg, bg, p) ==
  LET C == Shown!CharAt(s, x, y, p)
      color(k) == IF <<p[1] - x - GLYPH * Shown!PlaceOf(s, k),
                       p[2] - y - LEAD * Shown!LineOf(s, k)>> \in Shown!Glyph(s[k])
                    THEN fg ELSE bg IN
    /\ \A k \in C : At(new, p) = color(k)
    /\ C = {} => At(new, p) = At(m, p)

LEMMA TextPaints ==
  ASSUME ConsoleAssumption, GLYPH <= LEAD, FbOK, NEW m \in Safe, NEW x \in Nat, NEW y \in Nat,
         NEW s \in Seq(Nat), NEW fg \in Colors, NEW bg \in Colors, NEW p \in Pts,
         x + (Len(s) + 1) * LEAD < WRAP, y + (Len(s) + 1) * LEAD < WRAP
  PROVE  TextOver(Text(m, x, y, s, fg, bg), m, x, y, s, fg, bg, p)
<1>. DEFINE n == Len(s)
            L(i) == Shown!LineOf(s, i)
            P(i) == Shown!PlaceOf(s, i)
            C == Shown!CharAt(s, x, y, p)
            color(k) == IF <<p[1] - x - GLYPH * P(k), p[2] - y - LEAD * L(k)>> \in Shown!Glyph(s[k])
                          THEN fg ELSE bg
<1>1. /\ n \in Nat
      /\ L(1) = 0 /\ P(1) = 0
      /\ \A i \in 1 .. (n + 1) : L(i) \in Nat /\ P(i) \in Nat
      /\ \A i \in 1 .. n : s[i] = NEWLINE => L(i + 1) = L(i) + 1 /\ P(i + 1) = 0
      /\ \A i \in 1 .. n : s[i] # NEWLINE => L(i + 1) = L(i) /\ P(i + 1) = P(i) + 1
  <2>1. n \in Nat
    OBVIOUS
  <2>. HIDE DEF n
  <2>. QED
    BY <2>1, Lines
<1>2. PICK draw :
        /\ draw[0] = [m |-> m, cx |-> x, y |-> y]
        /\ \A k \in 0 .. n : draw[k] \in [m : Safe, cx : Nat, y : Nat]
        /\ \A k \in 1 .. n : s[k] = NEWLINE =>
             draw[k] = [m |-> draw[k - 1].m, cx |-> x, y |-> (draw[k - 1].y + LEAD) % WRAP]
        /\ \A k \in 1 .. n : s[k] # NEWLINE =>
             draw[k] = [m |-> Char(draw[k - 1].m, draw[k - 1].cx, draw[k - 1].y, s[k], fg, bg),
                        cx |-> (draw[k - 1].cx + GLYPH) % WRAP, y |-> draw[k - 1].y]
        /\ Text(m, x, y, s, fg, bg) = draw[n].m
  <2>1. \E draw : TextLoops(draw, m, x, y, s, fg, bg)
    BY TextLoop
  <2>. QED
    BY <2>1, Zenon DEF TextLoops
<1>3. \A k \in C : k \in 1 .. n /\ s[k] # NEWLINE
  <2>1. DOMAIN s = 1 .. n
    OBVIOUS
  <2>. QED
    BY <2>1, Zenon DEF Shown!CharAt, Shown!NEWLINE, NEWLINE
<1>4. \A k \in 1 .. n : s[k] # NEWLINE =>
        (k \in C <=> Shown!InRect(p, x + GLYPH * P(k), y + LEAD * L(k), GLYPH, GLYPH))
  <2>1. DOMAIN s = 1 .. n
    OBVIOUS
  <2>. QED
    BY <2>1, Zenon DEF Shown!CharAt, Shown!NEWLINE, NEWLINE
<1>5. \A j, k \in C : j = k
  BY Apart
<1>6. /\ GLYPH \in Nat /\ LEAD \in Nat /\ WRAP \in Nat /\ p[1] \in Nat /\ p[2] \in Nat
      /\ GLYPH <= LEAD
  BY OnScreen DEF ConsoleAssumption
<1>. HIDE DEF L, P, C, color
<1>. DEFINE Placed(k) == /\ draw[k].cx = x + GLYPH * P(k + 1) /\ draw[k].y = y + LEAD * L(k + 1)
                         /\ draw[k].cx <= x + k * LEAD /\ draw[k].y <= y + k * LEAD
            Drawn(k) == /\ \A j \in C : j <= k => At(draw[k].m, p) = color(j)
                        /\ (\A j \in C : ~ (j <= k)) => At(draw[k].m, p) = At(m, p)
            S == {k \in 0 .. n : Placed(k) /\ Drawn(k)}
<1>7. 0 \in S
  <2>1. draw[0].m = m /\ draw[0].cx = x /\ draw[0].y = y
    BY <1>2
  <2>2. Placed(0)
    BY <1>1, <1>6, <2>1
  <2>3. Drawn(0)
    BY <1>3, <2>1
  <2>. HIDE DEF Placed, Drawn
  <2>. QED
    BY <1>1, <2>2, <2>3
<1>8. ASSUME NEW k \in 1 .. n, k - 1 \in S PROVE k \in S
  <2>. DEFINE w == draw[k - 1].m
              u == draw[k - 1].cx
              v == draw[k - 1].y
  <2>1. Placed(k - 1) /\ Drawn(k - 1)
    BY <1>8
  <2>2. k \in Nat /\ k - 1 \in 0 .. n /\ k \in 0 .. n /\ (k - 1) + 1 = k /\ k \in 1 .. (n + 1)
    BY <1>1
  <2>3. L(k) \in Nat /\ P(k) \in Nat
    BY <1>1, <2>2
  <2>20. /\ GLYPH * P(k) \in Nat /\ GLYPH * (P(k) + 1) = GLYPH * P(k) + GLYPH /\ GLYPH * 0 = 0
         /\ LEAD * L(k) \in Nat /\ LEAD * (L(k) + 1) = LEAD * L(k) + LEAD
    BY ONLY <1>6, <2>3, MulNext
  <2>4. w \in Safe /\ u \in Nat /\ v \in Nat
    BY <1>2, <2>2
  <2>5. /\ u = x + GLYPH * P(k) /\ v = y + LEAD * L(k)
        /\ u <= x + (k - 1) * LEAD /\ v <= y + (k - 1) * LEAD
    <3>. HIDE DEF L, P
    <3>. QED
      BY <2>1, <2>2
  <2>6. /\ \A j \in C : j <= k - 1 => At(w, p) = color(j)
        /\ (\A j \in C : ~ (j <= k - 1)) => At(w, p) = At(m, p)
    BY <2>1
  <2>. HIDE DEF w, u, v
  <2>7. /\ (k - 1) * LEAD + LEAD = k * LEAD /\ k * LEAD + LEAD <= (n + 1) * LEAD
        /\ k * LEAD \in Nat /\ (k - 1) * LEAD \in Nat /\ (n + 1) * LEAD \in Nat
    <3>1. LEAD * k + LEAD <= LEAD * (n + 1)
      <4>1. k < n + 1 /\ n + 1 \in Nat
        BY <1>1
      <4>. HIDE DEF n
      <4>. QED
        BY <1>6, <2>2, <4>1, MulStep
    <3>2. LEAD * k = k * LEAD /\ LEAD * (n + 1) = (n + 1) * LEAD /\ (k - 1) * LEAD = k * LEAD - LEAD
      BY <1>1, <1>6, <2>2
    <3>3. k * LEAD \in Nat /\ (k - 1) * LEAD \in Nat /\ (n + 1) * LEAD \in Nat
      BY <1>1, <1>6, <2>2
    <3>. QED
      BY <1>6, <3>1, <3>2, <3>3
  <2>8. u + LEAD < WRAP /\ v + LEAD < WRAP
        /\ u + LEAD <= x + k * LEAD /\ v + LEAD <= y + k * LEAD
    <3>. DEFINE a == (k - 1) * LEAD
                b == k * LEAD
                c == (n + 1) * LEAD
    <3>1. /\ a + LEAD = b /\ b + LEAD <= c /\ a \in Nat /\ b \in Nat /\ c \in Nat
          /\ u <= x + a /\ v <= y + a /\ x + c < WRAP /\ y + c < WRAP
      BY <2>5, <2>7
    <3>. HIDE DEF a, b, c
    <3>2. u + LEAD < WRAP /\ v + LEAD < WRAP /\ u + LEAD <= x + b /\ v + LEAD <= y + b
      BY ONLY <1>6, <2>4, <3>1, x \in Nat, y \in Nat
    <3>. QED
      BY <3>2 DEF b
  <2>9. CASE s[k] = NEWLINE
    <3>1. draw[k] = [m |-> w, cx |-> x, y |-> (v + LEAD) % WRAP]
      BY <1>2, <2>9 DEF u, v, w
    <3>2. (v + LEAD) % WRAP = v + LEAD
      <4>1. v + LEAD \in Nat
        BY <1>6, <2>4
      <4>. QED
        BY <2>8, <4>1, NoWrap
    <3>3. L(k + 1) = L(k) + 1 /\ P(k + 1) = 0
      BY <1>1, <2>9
    <3>4. draw[k].m = w /\ draw[k].cx = x /\ draw[k].y = v + LEAD
      BY <3>1, <3>2
    <3>5. LEAD * L(k + 1) = LEAD * L(k) + LEAD /\ GLYPH * P(k + 1) = 0 /\ LEAD * L(k) \in Nat
      BY ONLY <2>20, <3>3
    <3>6. Placed(k)
      <4>1. draw[k].cx = x + GLYPH * P(k + 1) /\ draw[k].cx <= x + k * LEAD
        BY ONLY <2>7, <3>4, <3>5, x \in Nat
      <4>2. draw[k].y = y + LEAD * L(k + 1)
        BY SMTT(30), <1>6, <2>5, <3>4, <3>5
      <4>. QED
        BY <2>8, <3>4, <4>1, <4>2
    <3>7. \A j \in C : j <= k <=> j <= k - 1
      <4>1. \A j \in C : j \in Int /\ j # k
        BY <1>3, <2>9
      <4>. QED
        BY ONLY <2>2, <4>1
    <3>8. Drawn(k)
      BY <2>6, <3>4, <3>7
    <3>. HIDE DEF Placed, Drawn
    <3>. QED
      BY <2>2, <3>6, <3>8
  <2>10. CASE s[k] # NEWLINE
    <3>1. draw[k] = [m |-> Char(w, u, v, s[k], fg, bg), cx |-> (u + GLYPH) % WRAP,
                     y |-> v]
      BY <1>2, <2>10 DEF u, v, w
    <3>2. (u + GLYPH) % WRAP = u + GLYPH
      <4>1. u + GLYPH \in Nat /\ u + GLYPH < WRAP
        BY ONLY <1>6, <2>4, <2>8
      <4>. QED
        BY <4>1, NoWrap
    <3>3. L(k + 1) = L(k) /\ P(k + 1) = P(k) + 1
      BY <1>1, <2>10
    <3>4. draw[k].m = Char(w, u, v, s[k], fg, bg) /\ draw[k].cx = u + GLYPH /\ draw[k].y = v
      BY <3>1, <3>2
    <3>5. GLYPH * P(k + 1) = GLYPH * P(k) + GLYPH /\ GLYPH * P(k) \in Nat
      BY ONLY <2>20, <3>3
    <3>6. Placed(k)
      <4>1. draw[k].cx = x + GLYPH * P(k + 1)
        BY SMTT(30), <1>6, <2>5, <3>4, <3>5
      <4>2. draw[k].y = y + LEAD * L(k + 1)
        BY <2>5, <3>3, <3>4
      <4>3. draw[k].cx <= x + k * LEAD /\ draw[k].y <= y + k * LEAD
        <5>1. u + GLYPH <= x + k * LEAD /\ v <= y + k * LEAD
          BY ONLY <1>6, <2>4, <2>7, <2>8, x \in Nat, y \in Nat
        <5>. QED
          BY <3>4, <5>1
      <4>. QED
        BY <4>1, <4>2, <4>3
    <3>7. At(draw[k].m, p) =
            IF Shown!InRect(p, u, v, GLYPH, GLYPH)
              THEN IF <<p[1] - u, p[2] - v>> \in Shown!Glyph(s[k]) THEN fg ELSE bg
              ELSE At(w, p)
      <4>1. u + GLYPH <= WRAP /\ v + GLYPH <= WRAP
        BY ONLY <1>6, <2>4, <2>8
      <4>2. draw[k].m = Char(w, u, v, s[k], fg, bg)
        BY <3>4
      <4>. DEFINE c == s[k]
      <4>. HIDE DEF c
      <4>3. w \in Safe /\ u \in Nat /\ v \in Nat
        BY <2>4
      <4>4. At(Char(w, u, v, c, fg, bg), p) = CharOver(w, u, v, c, fg, bg, p)
        BY ONLY SMTT(30), <4>1, <4>3, CharPaints, ConsoleAssumption, FbOK, fg \in Colors, bg \in Colors,
                p \in Pts
      <4>. QED
        BY <4>2, <4>4 DEF c, CharOver
    <3>8. k \in C <=> Shown!InRect(p, u, v, GLYPH, GLYPH)
      BY <1>4, <2>5, <2>10
    <3>9. CASE k \in C
      <4>1. p[1] - u = p[1] - x - GLYPH * P(k) /\ p[2] - v = p[2] - y - LEAD * L(k)
        <5>. DEFINE p1 == p[1]
                    p2 == p[2]
                    a == GLYPH * P(k)
                    b == LEAD * L(k)
        <5>1. p1 \in Nat /\ p2 \in Nat /\ a \in Nat /\ b \in Nat /\ u = x + a /\ v = y + b
          BY <1>6, <2>5, <2>20
        <5>. HIDE DEF p1, p2, a, b
        <5>2. p1 - u = p1 - x - a /\ p2 - v = p2 - y - b
          BY ONLY <5>1, x \in Nat, y \in Nat
        <5>. QED
          BY <5>2 DEF p1, p2, a, b
      <4>2. At(draw[k].m, p) = color(k)
        BY <3>7, <3>8, <3>9, <4>1 DEF color
      <4>3. \A j \in C : j = k
        BY <1>5, <3>9
      <4>4. Drawn(k)
        BY <2>2, <3>9, <4>2, <4>3
      <4>. HIDE DEF Placed, Drawn
      <4>. QED
        BY <2>2, <3>6, <4>4
    <3>10. CASE k \notin C
      <4>1. At(draw[k].m, p) = At(w, p)
        BY <3>7, <3>8, <3>10
      <4>2. \A j \in C : j <= k <=> j <= k - 1
        <5>1. \A j \in C : j \in Int /\ j # k
          BY <1>3, <3>10
        <5>. QED
          BY ONLY <2>2, <5>1
      <4>3. Drawn(k)
        BY <2>6, <4>1, <4>2
      <4>. HIDE DEF Placed, Drawn
      <4>. QED
        BY <2>2, <3>6, <4>3
    <3>. QED
      BY <3>9, <3>10
  <2>. QED
    BY <2>9, <2>10
<1>9. Drawn(n)
  <2>. HIDE DEF S, n
  <2>1. 0 .. n \subseteq S
    BY <1>1, <1>7, <1>8, UpTo
  <2>2. n \in S
    BY <1>1, <2>1
  <2>. QED
    BY <2>2 DEF S
<1>10. /\ \A k \in C : At(Text(m, x, y, s, fg, bg), p) = color(k)
       /\ C = {} => At(Text(m, x, y, s, fg, bg), p) = At(m, p)
  BY <1>2, <1>3, <1>9
<1>. QED
  BY <1>10 DEF C, color, L, P, TextOver

\* A forward copy to a lower address is of what was there, though the two overlap.
Copied(m, dst, src, n, a) == IF a \in dst .. (dst + n - 1) THEN m[src + (a - dst)] ELSE m[a]

LEMMA MemcpyCopies ==
  ASSUME FbOK, NEW m \in Safe, NEW dst \in Nat, NEW src \in Nat, NEW n \in Nat, dst <= src,
         dst .. (dst + n - 1) \subseteq Area, src .. (src + n - 1) \subseteq Area,
         NEW a \in Memory
  PROVE  Memcpy(m, dst, src, n)[a] = Copied(m, dst, src, n, a)
<1>. DEFINE new(k, i) == IF i \in dst .. (dst + k - 1) THEN m[src + (i - dst)] ELSE m[i]
<1>1. PICK copy :
        /\ copy[0] = m
        /\ \A k \in 0 .. n : copy[k] \in Safe
        /\ \A k \in 1 .. n :
             copy[k] = [copy[k - 1] EXCEPT ![dst + k - 1] = copy[k - 1][src + k - 1]]
        /\ Memcpy(m, dst, src, n) = copy[n]
  <2>1. \E copy : CopyLoops(copy, m, dst, src, n)
    BY MemcpyLoop
  <2>. QED
    BY <2>1, Zenon DEF CopyLoops
<1>. DEFINE Done(k) == \A i \in Memory : copy[k][i] = new(k, i)
            S == {k \in 0 .. n : Done(k)}
<1>2. 0 \in S
  <2>1. dst .. (dst + 0 - 1) = {}
    OBVIOUS
  <2>. QED
    BY <1>1, <2>1
<1>3. ASSUME NEW k \in 1 .. n, k - 1 \in S PROVE k \in S
  <2>. DEFINE to == dst + k - 1
              from == src + k - 1
              c == copy[k - 1]
  <2>1. k - 1 \in 0 .. n /\ k \in 0 .. n /\ k \in Nat
    OBVIOUS
  <2>2. c \in Safe
    BY <1>1, <2>1
  <2>3. from \in Memory /\ DOMAIN c = Memory
    <3>1. from \in src .. (src + n - 1)
      OBVIOUS
    <3>. QED
      BY <2>2, <3>1 DEF FbOK, Safe
  <2>4. copy[k] = [c EXCEPT ![to] = c[from]]
    BY <1>1
  <2>5. c[from] = m[from]
    <3>1. from \notin dst .. (dst + (k - 1) - 1)
      OBVIOUS
    <3>2. c[from] = new(k - 1, from)
      BY <1>3, <2>3
    <3>. HIDE DEF c, from
    <3>. QED
      BY <3>1, <3>2
  <2>6. ASSUME NEW i \in Memory PROVE copy[k][i] = new(k, i)
    <3>1. c[i] = new(k - 1, i)
      BY <1>3
    <3>2. CASE i = to
      <4>1. i \in dst .. (dst + k - 1) /\ src + (i - dst) = from
        BY <3>2
      <4>2. copy[k][i] = m[from]
        BY <2>3, <2>4, <2>5, <3>2
      <4>. HIDE DEF from
      <4>. QED
        BY <4>1, <4>2
    <3>3. CASE i # to
      <4>1. i \in dst .. (dst + k - 1) <=> i \in dst .. (dst + (k - 1) - 1)
        BY <2>1, <3>3
      <4>2. copy[k][i] = c[i]
        <5>. HIDE DEF c, to, from
        <5>. QED
          BY <2>3, <2>4, <3>3
      <4>. HIDE DEF c
      <4>. QED
        BY <3>1, <4>1, <4>2
    <3>. QED
      BY <3>2, <3>3
  <2>. HIDE DEF new
  <2>. QED
    BY <2>1, <2>6
<1>4. Done(n)
  <2>. HIDE DEF S
  <2>1. 0 .. n \subseteq S
    BY <1>2, <1>3, UpTo
  <2>. QED
    BY <2>1 DEF S
<1>. QED
  BY <1>1, <1>4 DEF Copied

\* fb_scroll_up: each row is the one so many lines below, or black.
LEMMA ScrollPaints ==
  ASSUME ConsoleAssumption, FbOK, NEW m \in Safe, NEW lines \in Nat, lines * LEAD <= fb.height,
         NEW p \in Pts
  PROVE  LET gone == lines * LEAD * fb.pitch
             move_size == (fb.height - lines * LEAD) * fb.pitch
             from == p[2] + lines * LEAD IN
           At(Memset(Memcpy(m, fb.buffer, fb.buffer + gone, move_size),
                     fb.buffer + move_size, 0, gone), p)
             = IF from < fb.height THEN At(m, <<p[1], from>>) ELSE 0
<1>. DEFINE b == fb.buffer
            l == lines * LEAD
            q == fb.pitch
            h == fb.height
            gone == l * q
            move_size == (h - l) * q
            x == p[1]
            y == p[2]
            a == b + (y * q + x)
            copied == Memcpy(m, b, b + gone, move_size)
            scrolled == Memset(copied, b + move_size, 0, gone)
<1>1. /\ b \in Nat /\ l \in Nat /\ q \in Nat /\ h \in Nat /\ l <= h /\ Area = b .. (b + q * h - 1)
      /\ x \in Nat /\ y \in Nat /\ x < q /\ y < h
  <2>1. x \in Nat /\ y \in Nat /\ x < fb.width /\ y < h
    BY OnScreen
  <2>2. /\ b \in Nat /\ q \in Nat /\ h \in Nat /\ fb.width \in Nat /\ fb.width <= q
        /\ Area = b .. (b + q * h - 1)
    BY DEF FbOK, Area
  <2>3. l \in Nat /\ l <= h
    <3>1. LEAD \in Nat
      BY DEF ConsoleAssumption
    <3>. QED
      BY <3>1
  <2>. DEFINE w == fb.width
  <2>4. x \in Nat /\ x < w /\ w \in Nat /\ w <= q /\ q \in Nat
    BY <2>1, <2>2
  <2>. HIDE DEF x, w, q
  <2>5. x < q
    BY ONLY <2>4
  <2>. QED
    BY <2>1, <2>2, <2>3, <2>5
<1>2. a \in Area /\ a \in Memory /\ \A w : At(w, p) = w[a]
  BY OnScreen DEF Offset, FbOK
<1>3. At(m, <<x, y + l>>) = m[b + (y + l) * q + x]
  BY DEF At
<1>. HIDE DEF b, l, q, h, x, y
<1>4. gone \in Nat /\ move_size \in Nat /\ gone + move_size = q * h /\ y * q \in Nat
  <2>1. h - l \in Nat
    BY <1>1
  <2>2. PICK k \in Nat : k = h - l /\ h = l + k
    BY <1>1, <2>1
  <2>3. move_size = k * q /\ q * h = l * q + k * q
    BY <1>1, <2>2
  <2>. QED
    BY <1>1, <2>3
<1>5. (y + l) * q = y * q + gone
  BY <1>1
<1>6. y + l < h => y * q + x < move_size
  <2>. SUFFICES ASSUME y + l < h PROVE y * q + x < move_size
    OBVIOUS
  <2>1. h - l \in Nat /\ y < h - l
    BY <1>1
  <2>2. q * y + q <= q * (h - l)
    BY <1>1, <2>1, MulStep
  <2>3. q * y = y * q /\ q * (h - l) = move_size
    BY <1>1
  <2>. QED
    BY <1>1, <1>4, <2>2, <2>3
<1>7. ~ (y + l < h) => y * q + x >= move_size
  <2>. SUFFICES ASSUME ~ (y + l < h) PROVE y * q + x >= move_size
    OBVIOUS
  <2>1. h - l \in Nat /\ y - (h - l) \in Nat
    BY <1>1
  <2>2. PICK k \in Nat : k = y - (h - l) /\ y = (h - l) + k
    BY <1>1, <2>1
  <2>3. y * q = move_size + k * q /\ k * q \in Nat
    BY <1>1, <2>2
  <2>. QED
    BY <1>1, <1>4, <2>3
<1>. DEFINE g == y * q
<1>8. /\ (y + l) * q = g + gone /\ g \in Nat /\ a = b + (g + x) /\ g + x < q * h
      /\ y + l < h => g + x < move_size
      /\ ~ (y + l < h) => g + x >= move_size
      /\ gone + move_size = q * h
  <2>1. y * q + x \in 0 .. (q * h - 1)
    BY <1>1, RowInside
  <2>2. q * h \in Nat
    BY <1>1
  <2>3. g + x < q * h
    BY <1>1, <1>4, <2>1, <2>2
  <2>. QED
    BY <1>4, <1>5, <1>6, <1>7, <2>3
<1>9. q * h \in Nat
  BY <1>1
<1>. HIDE DEF gone, move_size, a, g
<1>10. /\ b .. (b + move_size - 1) \subseteq Area
       /\ (b + gone) .. (b + gone + move_size - 1) \subseteq Area
       /\ b + gone \in Nat /\ b <= b + gone
  BY <1>1, <1>4, <1>8, <1>9
<1>11. copied[a] = IF a \in b .. (b + move_size - 1) THEN m[b + gone + (a - b)] ELSE m[a]
  <2>. DEFINE c == b + gone
  <2>1. c \in Nat /\ b <= c /\ c .. (c + move_size - 1) \subseteq Area
    BY <1>10
  <2>. HIDE DEF c
  <2>2. Memcpy(m, b, c, move_size)[a] = Copied(m, b, c, move_size, a)
    <3>1. /\ b \in Nat /\ move_size \in Nat /\ a \in Memory
          /\ b .. (b + move_size - 1) \subseteq Area
      BY <1>1, <1>2, <1>4, <1>10
    <3>. QED
      BY ONLY <2>1, <3>1, FbOK, m \in Safe, MemcpyCopies
  <2>. QED
    BY <2>2 DEF c, Copied
<1>12. copied \in Safe
  BY <1>1, <1>4, <1>10, MemcpyLoop
<1>13. scrolled[a] = IF a \in (b + move_size) .. (b + move_size + gone - 1) THEN 0 ELSE copied[a]
  <2>. HIDE DEF copied
  <2>1. DOMAIN copied = Memory
    BY <1>12 DEF Safe
  <2>. QED
    BY <1>2, <2>1 DEF Memset
<1>. HIDE DEF copied, scrolled
<1>14. CASE y + l < h
  <2>1. /\ a \in b .. (b + move_size - 1) /\ a \notin (b + move_size) .. (b + move_size + gone - 1)
        /\ b + gone + (a - b) = b + (y + l) * q + x
    <3>. DEFINE r == (y + l) * q
    <3>1. /\ r = g + gone /\ g \in Nat /\ gone \in Nat /\ b \in Nat /\ x \in Nat /\ a = b + (g + x)
          /\ move_size \in Nat /\ g + x < move_size
      BY <1>1, <1>4, <1>8, <1>14
    <3>. HIDE DEF r
    <3>2. /\ a \in b .. (b + move_size - 1)
          /\ a \notin (b + move_size) .. (b + move_size + gone - 1)
          /\ b + gone + (a - b) = b + r + x
      BY ONLY <3>1
    <3>. QED
      BY <3>2 DEF r
  <2>2. scrolled[a] = At(m, <<x, y + l>>)
    BY <1>3, <1>11, <1>13, <2>1
  <2>. QED
    BY <1>2, <1>14, <2>2 DEF scrolled, copied, gone, move_size, b, l, q, h, x, y
<1>15. CASE ~ (y + l < h)
  <2>1. a \in (b + move_size) .. (b + move_size + gone - 1)
    BY SMTT(30), <1>1, <1>4, <1>8, <1>9, <1>15
  <2>2. scrolled[a] = 0
    BY <1>13, <2>1
  <2>. QED
    BY <1>2, <1>15, <2>2 DEF scrolled, copied, gone, move_size, b, l, q, h, x, y
<1>. QED
  BY <1>14, <1>15

-----------------------------------------------------------------------------
\* Each call is what Screen says of it.
Screens == <<fb.width, fb.height,
             [p \in (0 .. (fb.width - 1)) \X (0 .. (fb.height - 1)) |->
                mem[fb.buffer + p[2] * fb.pitch + p[1]]], call>>

LEMMA Comes ==
  ASSUME ConsoleAssumption, Inv, FbInitFails \/ \E g \in Grants : FbInit(g)
  PROVE  Shown!SpecOn
<1>1. fb.width = 0 /\ fb.height = 0 /\ call' = <<"fb_init">>
  BY DEF Inv, FbOK, FbInitFails, FbInit, Called
<1>2. CASE FbInitFails
  BY <1>1, <1>2 DEF FbInitFails, Shown!SpecOn
<1>3. ASSUME NEW g \in Grants, FbInit(g) PROVE Shown!SpecOn
  <2>1. g.width \in 1 .. (WRAP - 1) /\ g.height \in 1 .. (WRAP - 1)
    BY DEF ConsoleAssumption
  <2>2. fb'.width > 0 /\ fb'.height # 0
    BY <1>3, <2>1 DEF FbInit
  <2>. QED
    BY <1>1, <2>2 DEF Shown!SpecOn
<1>. QED
  BY <1>2, <1>3

LEMMA PutPixelShown ==
  ASSUME ConsoleAssumption, Inv, NEW x \in Coords, NEW y \in Coords, NEW c \in Colors,
         FbPutPixel(x, y, c)
  PROVE  Shown!PutPixel(x, y, c)
<1>1. x \in Nat /\ y \in Nat /\ FbOK /\ mem \in Safe
  BY DEF ConsoleAssumption, Inv
<1>2. fb' = fb /\ mem' = Pixel(mem, x, y, c) /\ call' = <<"putpixel", x, y, c>>
  BY DEF FbPutPixel, Called
<1>3. \A p \in Pts : At(mem', p) = IF p = <<x, y>> THEN c ELSE At(mem, p)
  BY <1>1, <1>2, PixelPaints
<1>. QED
  BY <1>2, <1>3 DEF Shown!PutPixel, Shown!Paint, Pts, At

LEMMA FillRectShown ==
  ASSUME ConsoleAssumption, DrawingFits, Inv, NEW x \in Coords, NEW y \in Coords,
         NEW w \in Sizes, NEW h \in Sizes, NEW c \in Colors, FbFillRect(x, y, w, h, c)
  PROVE  Shown!FillRect(x, y, w, h, c)
<1>1. x \in Nat /\ y \in Nat /\ w \in Nat /\ h \in Nat /\ FbOK /\ mem \in Safe
  BY DEF ConsoleAssumption, Inv
<1>2. fb' = fb /\ mem' = Rect(mem, x, y, w, h, c) /\ call' = <<"fillrect", x, y, w, h, c>>
  BY DEF FbFillRect, Called
<1>3. Fits(x, w) /\ Fits(y, h)
  BY DEF DrawingFits, Fits
<1>4. ASSUME NEW p \in Pts PROVE At(mem', p) = RectOver(mem, x, y, w, h, c, p)
  <2>1. At(Rect(mem, x, y, w, h, c), p) = RectOver(mem, x, y, w, h, c, p)
    BY ONLY SMTT(30), <1>1, <1>3, ConsoleAssumption, p \in Pts, RectPaints
  <2>. QED
    BY <1>2, <2>1
<1>. QED
  BY <1>2, <1>4 DEF Shown!FillRect, Shown!Paint, Pts, At, RectOver

LEMMA ClearShown ==
  ASSUME ConsoleAssumption, Inv, NEW c \in Colors, FbClear(c)
  PROVE  Shown!Clear(c)
<1>. DEFINE w == fb.width
            h == fb.height
<1>1. w \in Nat /\ h \in Nat /\ w < WRAP /\ h < WRAP /\ FbOK /\ mem \in Safe
  BY DEF Inv, FbOK
<1>2. fb' = fb /\ call' = <<"clear", c>>
  BY DEF FbClear, Called
<1>3. \A p \in Pts : At(mem', p) = c
  <2>. TAKE p \in Pts
  <2>1. fb.initialized /\ p[1] \in Nat /\ p[1] < w /\ p[2] \in Nat /\ p[2] < h
    BY <1>1, OnScreen
  <2>2. mem' = Rect(mem, 0, 0, w, h, c)
    BY <2>1 DEF FbClear
  <2>. HIDE DEF w, h
  <2>3. Fits(0, w) /\ Fits(0, h) /\ 0 \in Nat
    BY <1>1 DEF Fits
  <2>4. Shown!InRect(p, 0, 0, w, h)
    BY <1>1, <2>1 DEF Shown!InRect
  <2>5. At(Rect(mem, 0, 0, w, h, c), p) = RectOver(mem, 0, 0, w, h, c, p)
    BY ONLY <1>1, <2>3, ConsoleAssumption, p \in Pts, RectPaints
  <2>6. At(mem', p) = At(Rect(mem, 0, 0, w, h, c), p)
    BY <2>2
  <2>. QED
    BY <2>4, <2>5, <2>6 DEF RectOver
<1>. QED
  BY <1>2, <1>3 DEF Shown!Clear, Shown!Paint, Pts, At

LEMMA PutsShown ==
  ASSUME ConsoleAssumption, DrawingFits, Inv, NEW x \in Coords, NEW y \in Coords, NEW s \in Texts,
         NEW fg \in Colors, NEW bg \in Colors, FbPuts(x, y, s, fg, bg)
  PROVE  Shown!PutText(x, y, s, fg, bg)
<1>1. x \in Nat /\ y \in Nat /\ s \in Seq(Nat) /\ FbOK /\ mem \in Safe
  BY DEF ConsoleAssumption, Inv
<1>2. /\ GLYPH <= LEAD
      /\ x + (Len(s) + 1) * LEAD < WRAP /\ y + (Len(s) + 1) * LEAD < WRAP
  BY DEF DrawingFits
<1>3. fb' = fb /\ mem' = Text(mem, x, y, s, fg, bg) /\ call' = <<"puts", x, y, s, fg, bg>>
  BY DEF FbPuts, Called
<1>4. ASSUME NEW p \in Pts
      PROVE  At(mem', p) =
               IF Shown!CharAt(s, x, y, p) # {}
                 THEN LET k == CHOOSE k \in Shown!CharAt(s, x, y, p) : TRUE
                          cell == <<p[1] - x - GLYPH * Shown!PlaceOf(s, k),
                                    p[2] - y - LEAD * Shown!LineOf(s, k)>>
                      IN IF cell \in Shown!Glyph(s[k]) THEN fg ELSE bg
                 ELSE At(mem, p)
  <2>. DEFINE C == Shown!CharAt(s, x, y, p)
              color(k) == IF <<p[1] - x - GLYPH * Shown!PlaceOf(s, k),
                               p[2] - y - LEAD * Shown!LineOf(s, k)>> \in Shown!Glyph(s[k])
                            THEN fg ELSE bg
  <2>1. /\ \A k \in C : At(mem', p) = color(k)
        /\ C = {} => At(mem', p) = At(mem, p)
    <3>. DEFINE new == Text(mem, x, y, s, fg, bg)
    <3>3. TextOver(new, mem, x, y, s, fg, bg, p)
      BY ONLY <1>1, <1>2, ConsoleAssumption, fg \in Colors, bg \in Colors, p \in Pts, TextPaints
    <3>1. /\ \A k \in C : At(new, p) = color(k)
          /\ C = {} => At(new, p) = At(mem, p)
      BY <3>3 DEF TextOver
    <3>2. At(mem', p) = At(new, p)
      BY <1>3
    <3>. HIDE DEF new, C, color
    <3>. QED
      BY <3>1, <3>2
  <2>2. C # {} => (CHOOSE k \in C : TRUE) \in C
    OBVIOUS
  <2>3. C # {} => At(mem', p) = color(CHOOSE k \in C : TRUE)
    BY <2>1, <2>2
  <2>. QED
    BY <2>1, <2>3
<1>. QED
  BY <1>3, <1>4 DEF Shown!PutText, Shown!Paint, Pts, At

LEMMA ProgressShown ==
  ASSUME ConsoleAssumption, DrawingFits, Inv, NEW x \in Coords, NEW y \in Coords, NEW w \in Sizes,
         NEW h \in Sizes, NEW percent \in Percents, NEW fg \in Colors, NEW bg \in Colors,
         FbDrawProgressBar(x, y, w, h, percent, fg, bg)
  PROVE  Shown!ProgressBar(x, y, w, h, percent, fg, bg)
<1>. DEFINE part == ((w * percent) % WRAP) \div 100
            bar == Rect(mem, x, y, w, h, bg)
            full == w * percent
<1>1. /\ x \in Nat /\ y \in Nat /\ w \in Nat /\ h \in Nat /\ percent \in Nat
      /\ FbOK /\ mem \in Safe
  BY DEF ConsoleAssumption, Inv
<1>2. /\ fb' = fb /\ mem' = Rect(bar, x, y, part, h, fg)
      /\ call' = <<"progress", x, y, w, h, percent, fg, bg>>
  BY DEF FbDrawProgressBar, Called
<1>3. full \in Nat /\ full < WRAP /\ percent <= 100 /\ x + w < WRAP /\ y + h < WRAP
  BY <1>1 DEF DrawingFits
<1>4. part = full \div 100
  BY <1>3, NoWrap
<1>5. full <= w * 100
  <2>1. 100 - percent \in Nat
    BY <1>1, <1>3
  <2>2. PICK k \in Nat : 100 = percent + k
    BY <1>1, <2>1
  <2>3. w * 100 = w * percent + w * k /\ w * k \in Nat
    BY <1>1, <2>2
  <2>. QED
    BY <1>3, <2>3
<1>. HIDE DEF full, part
<1>6. part \in Nat /\ part <= w /\ \A a \in Nat : a * 100 <= full <=> a <= part
  BY SMTT(30), <1>1, <1>3, <1>4, <1>5
<1>7. bar \in Safe
  BY <1>1, RectSafe
<1>8. Fits(x, w) /\ Fits(y, h) /\ Fits(x, part)
  <2>1. WRAP \in Nat
    BY DEF ConsoleAssumption
  <2>. QED
    BY ONLY <1>1, <1>3, <1>6, <2>1 DEF Fits
<1>9. ASSUME NEW p \in Pts
      PROVE  At(mem', p) = IF Shown!InRect(p, x, y, w, h)
                             THEN IF (p[1] - x + 1) * 100 <= full THEN fg ELSE bg
                             ELSE At(mem, p)
  <2>1. At(bar, p) = RectOver(mem, x, y, w, h, bg, p)
    BY ONLY SMTT(30), <1>1, <1>8, ConsoleAssumption, p \in Pts, RectPaints
  <2>. HIDE DEF bar
  <2>5. At(Rect(bar, x, y, part, h, fg), p) = RectOver(bar, x, y, part, h, fg, p)
    <3>1. ASSUME NEW m \in Safe, NEW q \in Nat, Fits(x, q)
          PROVE  At(Rect(m, x, y, q, h, fg), p) = RectOver(m, x, y, q, h, fg, p)
      <4>1. Fits(y, h) /\ FbOK /\ x \in Nat /\ y \in Nat /\ h \in Nat
        BY <1>1, <1>8
      <4>. QED
        BY ONLY SMTT(30), <3>1, <4>1, m \in Safe, q \in Nat, ConsoleAssumption, p \in Pts, RectPaints
    <3>. QED
      BY ONLY <1>6, <1>7, <1>8, <3>1
  <2>2. At(mem', p) = RectOver(bar, x, y, part, h, fg, p)
    BY <1>2, <2>5
  <2>3. p[1] \in Nat /\ p[2] \in Nat
    BY <1>1, OnScreen
  <2>4. Shown!InRect(p, x, y, part, h)
          <=> Shown!InRect(p, x, y, w, h) /\ (p[1] - x + 1) * 100 <= full
    <3>. DEFINE a == p[1]
    <3>1. a \in Nat
      BY <2>3
    <3>. HIDE DEF a
    <3>2. a \in x .. (x + part - 1) <=> a \in x .. (x + w - 1) /\ (a - x + 1) * 100 <= full
      <4>1. CASE a < x
        BY <1>1, <1>6, <3>1, <4>1
      <4>2. CASE x <= a
        <5>1. a - x + 1 \in Nat
          BY <1>1, <3>1, <4>2
        <5>2. (a - x + 1) * 100 <= full <=> a - x + 1 <= part
          BY <1>6, <5>1
        <5>. QED
          BY SMTT(30), <1>1, <1>6, <3>1, <4>2, <5>2
      <4>. QED
        BY <1>1, <3>1, <4>1, <4>2
    <3>. QED
      BY <3>2 DEF Shown!InRect, a
  <2>. QED
    BY <2>1, <2>2, <2>4 DEF RectOver
<1>. QED
  BY <1>2, <1>9 DEF Shown!ProgressBar, Shown!Paint, Pts, At, full

LEMMA ScrollShown ==
  ASSUME ConsoleAssumption, Inv, NEW lines \in Scrolls, FbScrollUp(lines)
  PROVE  Shown!ScrollUp(lines)
<1>1. lines \in Nat /\ FbOK /\ mem \in Safe
  BY DEF ConsoleAssumption, Inv
<1>2. fb' = fb /\ call' = <<"scroll", lines>>
  BY DEF FbScrollUp, Called
<1>3. ASSUME NEW p \in Pts
      PROVE  At(mem', p) = IF p[2] + lines * LEAD < fb.height
                             THEN At(mem, <<p[1], p[2] + lines * LEAD>>) ELSE 0
  <2>1. fb.initialized
    BY <1>1, OnScreen
  <2>2. lines * LEAD <= fb.height
    BY <2>1 DEF FbScrollUp
  <2>. DEFINE new == Memset(Memcpy(mem, fb.buffer, fb.buffer + lines * LEAD * fb.pitch,
                                   (fb.height - lines * LEAD) * fb.pitch),
                            fb.buffer + (fb.height - lines * LEAD) * fb.pitch, 0,
                            lines * LEAD * fb.pitch)
  <2>3. mem' = new
    BY <2>1 DEF FbScrollUp
  <2>4. At(new, p) = IF p[2] + lines * LEAD < fb.height
                       THEN At(mem, <<p[1], p[2] + lines * LEAD>>) ELSE 0
    BY <1>1, <2>2, ScrollPaints
  <2>. HIDE DEF new
  <2>. QED
    BY <2>3, <2>4
<1>4. ASSUME NEW p \in Pts, p[2] + lines * LEAD < fb.height
      PROVE  <<p[1], p[2] + lines * LEAD>> \in Pts
  <2>1. p[1] \in Nat /\ p[1] < fb.width /\ p[2] \in Nat
    BY <1>1, OnScreen
  <2>2. lines * LEAD \in Nat
    BY <1>1 DEF ConsoleAssumption
  <2>3. fb.width \in Nat /\ fb.height \in Nat
    BY <1>1 DEF FbOK
  <2>. QED
    BY SMTT(30), <1>4, <2>1, <2>2, <2>3 DEF Pts
<1>. QED
  BY <1>2, <1>3, <1>4 DEF Shown!ScrollUp, Shown!Paint, Pts, At

LEMMA StepShown ==
  ASSUME ConsoleAssumption, DrawingFits, Inv, [Next]_vars
  PROVE  [Shown!SpecNext]_Screens
<1>1. CASE FbInitFails \/ \E g \in Grants : FbInit(g)
  BY <1>1, Comes DEF Shown!SpecNext
<1>2. ASSUME NEW x \in Coords, NEW y \in Coords, NEW c \in Colors, FbPutPixel(x, y, c)
      PROVE  Shown!SpecNext
  BY <1>2, PutPixelShown DEF Shown!SpecNext
<1>3. ASSUME NEW x \in Coords, NEW y \in Coords, NEW w \in Sizes, NEW h \in Sizes, NEW c \in Colors,
             FbFillRect(x, y, w, h, c)
      PROVE  Shown!SpecNext
  BY <1>3, FillRectShown DEF Shown!SpecNext
<1>4. ASSUME NEW c \in Colors, FbClear(c) PROVE Shown!SpecNext
  BY <1>4, ClearShown DEF Shown!SpecNext
<1>5. ASSUME NEW x \in Coords, NEW y \in Coords, NEW s \in Texts,
             NEW fg \in Colors, NEW bg \in Colors,
             FbPuts(x, y, s, fg, bg)
      PROVE  Shown!SpecNext
  BY <1>5, PutsShown DEF Shown!SpecNext
<1>6. ASSUME NEW x \in Coords, NEW y \in Coords, NEW w \in Sizes, NEW h \in Sizes,
             NEW percent \in Percents, NEW fg \in Colors, NEW bg \in Colors,
             FbDrawProgressBar(x, y, w, h, percent, fg, bg)
      PROVE  Shown!SpecNext
  BY <1>6, ProgressShown DEF Shown!SpecNext
<1>7. ASSUME NEW lines \in Scrolls, FbScrollUp(lines) PROVE Shown!SpecNext
  BY <1>7, ScrollShown DEF Shown!SpecNext
<1>8. CASE UNCHANGED vars
  BY <1>8 DEF vars, Screens
<1>. QED
  BY <1>1, <1>2, <1>3, <1>4, <1>5, <1>6, <1>7, <1>8 DEF Next

(***************************************************************************)
(* Each call paints on the screen what Screen says it does (fb.c:191-253), *)
(* when no sum of 32 bits wraps: rectangles and glyphs clipped at the      *)
(* edges, text a character at a time, the bar's part, and a scroll's copy  *)
(* of rows over rows that are still to be copied.                          *)
(***************************************************************************)
THEOREM ScreenImplemented ==
  ASSUME DrawingFits
  PROVE  Spec => ImplementsScreen
<1>1. Init => Shown!SpecInit
  <2>. SUFFICES ASSUME Init PROVE Shown!SpecInit
    OBVIOUS
  <2>1. fb.width = 0 /\ fb.height = 0 /\ call = <<>>
    BY DEF Init
  <2>2. (0 .. (fb.width - 1)) \X (0 .. (fb.height - 1)) = {}
    BY <2>1
  <2>. QED
    BY <2>1, <2>2 DEF Shown!SpecInit
<1>2. Inv /\ [Next]_vars => [Shown!SpecNext]_Screens
  BY ConsoleAssumption, StepShown
<1>. QED
  BY <1>1, <1>2, Invariance, PTL DEF Spec, ImplementsScreen, Shown!ScreenSpecification, Screens
====
