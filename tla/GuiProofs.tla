------------------------------ MODULE GuiProofs ------------------------------
(***************************************************************************)
(* The window manager, for every screen, every list of windows and every   *)
(* text: raising keeps the windows, a grabbed window stays under the       *)
(* cursor, and no drawing leaves the framebuffer.                          *)
(***************************************************************************)
EXTENDS Gui, FiniteSetTheorems, SequenceTheorems, WellFoundedInduction, TLAPS

-----------------------------------------------------------------------------
(* The inductive invariant.                                                *)

Point == [x : Int, y : Int]

TypeInv ==
    /\ windows \in Seq(Window)
    /\ cursor \in Point
    /\ left \in BOOLEAN /\ prev_left_down \in BOOLEAN
    /\ drag_window \in Nat
    /\ drag_offset \in Point
    /\ by_title \in BOOLEAN

\* What makes GrabHeld inductive: the offset is the one of this grab, lies in
\* the title bar, and the window is where cursor and offset put it.
GrabInv ==
    drag_window # NoDrag /\ by_title =>
      LET w == windows[drag_window]
      IN  /\ drag_window = Len(windows)
          /\ drag_offset.x \in 0 .. w.w - 1
          /\ drag_offset.y \in 0 .. TITLEBAR_HEIGHT - 1
          /\ w.x = cursor.x - drag_offset.x
          /\ w.y = cursor.y - drag_offset.y

IInv == TypeInv /\ WindowsKept /\ GrabInv /\ DrawnInside

-----------------------------------------------------------------------------
(* Numbers.                                                                *)

\* Every set of natural numbers that is not empty has a least element.
LEMMA LeastNat ==
    ASSUME NEW T \in SUBSET Nat, T # {}
    PROVE  \E m \in T : \A n \in T : m <= n
<1>1. PICK m \in T : \A n \in T : <<n, m>> \notin OpToRel(<, Nat)
  BY NatLessThanWellFounded, WFMin
<1>2. ASSUME NEW n \in T, n < m
      PROVE  <<n, m>> \in OpToRel(<, Nat)
  <2>1. <<n, m>> \in Nat \X Nat
    OBVIOUS
  <2>2. <<n, m>>[1] < <<n, m>>[2]
    BY <1>2
  <2> QED BY <2>1, <2>2 DEF OpToRel
<1>3. \A n \in T : ~(n < m)
  BY <1>1, <1>2
<1> QED BY <1>3

\* Max is the greatest element of a bounded set of natural numbers.
LEMMA MaxOfBounded ==
    ASSUME NEW S \in SUBSET Nat, S # {}, NEW b \in Nat, \A k \in S : k <= b
    PROVE  Max(S) \in S /\ \A k \in S : k <= Max(S)
<1> DEFINE T == {b - k : k \in S}
<1>1. T \in SUBSET Nat
  <2>1. \A k \in S : k \in Nat /\ b - k \in Nat
    OBVIOUS
  <2> QED BY <2>1
<1>2. T # {}
  OBVIOUS
<1>3. PICK m \in T : \A n \in T : m <= n
  BY <1>1, <1>2, LeastNat
<1>4. PICK k \in S : m = b - k
  OBVIOUS
<1>5. ASSUME NEW j \in S
      PROVE  k >= j
  <2>1. b - j \in T
    OBVIOUS
  <2>2. b - k <= b - j
    BY <1>3, <1>4, <2>1
  <2> QED BY <2>2
<1> QED BY <1>5 DEF Max

LEMMA U32Nat == ASSUME NEW n \in Int PROVE u32(n) \in Nat
BY GuiAssumption DEF u32

-----------------------------------------------------------------------------
(* The drawing routines.                                                   *)

LEMMA FillInside ==
    ASSUME NEW x \in Nat, NEW y \in Nat, NEW w \in Nat, NEW h \in Nat
    PROVE  fb_fill_rect(x, y, w, h) \subseteq Screen
<1> DEFINE x1 == IF u32(x + w) > Width THEN Width ELSE u32(x + w)
           y1 == IF u32(y + h) > Height THEN Height ELSE u32(y + h)
<1>1. x1 \in Nat /\ x1 <= Width /\ y1 \in Nat /\ y1 <= Height
  BY U32Nat, GuiAssumption
<1>2. x .. x1 - 1 \subseteq 0 .. Width - 1 /\ y .. y1 - 1 \subseteq 0 .. Height - 1
  BY <1>1, GuiAssumption
<1>3. fb_fill_rect(x, y, w, h) = (x .. x1 - 1) \X (y .. y1 - 1)
  BY DEF fb_fill_rect
<1> HIDE DEF x1, y1
<1> QED BY <1>2, <1>3 DEF Screen

LEMMA PixelInside ==
    ASSUME NEW x \in Nat, NEW y \in Nat
    PROVE  fb_put_pixel(x, y) \subseteq Screen
BY GuiAssumption DEF fb_put_pixel, Screen

LEMMA CharInside ==
    ASSUME NEW x \in Int, NEW y \in Int
    PROVE  fb_draw_char(x, y) \subseteq Screen
<1>1. ASSUME NEW col \in 0 .. GLYPH - 1, NEW row \in 0 .. GLYPH - 1
      PROVE  fb_put_pixel(u32(x + col), u32(y + row)) \subseteq Screen
  BY U32Nat, PixelInside, GuiAssumption
<1> QED BY <1>1 DEF fb_draw_char

\* Texts of any length, with any line ends, from any place.
LEMMA StringInside ==
    ASSUME NEW x \in Int, NEW y \in Int, NEW s \in Text
    PROVE  fb_draw_string(x, y, s) \subseteq Screen
<1> DEFINE Ends(k)  == {j \in 1 .. k : s[j] = NewLine}
           Place(k) == k - 1 - Max(Ends(k) \cup {0})
           Drawn(k) == fb_draw_char(u32(x + GLYPH * Place(k)),
                                    u32(y + GLYPH * Cardinality(Ends(k))))
<1>1. ASSUME NEW k \in DOMAIN s
      PROVE  Drawn(k) \subseteq Screen
  <2>1. k \in Nat
    BY DEF Text
  <2>2. Max(Ends(k) \cup {0}) \in Nat
    <3>1. Ends(k) \cup {0} \in SUBSET Nat /\ Ends(k) \cup {0} # {}
      OBVIOUS
    <3>2. \A j \in Ends(k) \cup {0} : j <= k
      BY <2>1
    <3> HIDE DEF Ends
    <3> QED BY <2>1, <3>1, <3>2, MaxOfBounded
  <2>3. Cardinality(Ends(k)) \in Nat
    <3>1. IsFiniteSet(1 .. k)
      BY <2>1, FS_Interval
    <3>2. IsFiniteSet(Ends(k))
      BY <3>1, FS_Subset
    <3> QED BY <3>2, FS_CardinalityType
  <2>4. GLYPH * Place(k) \in Int /\ GLYPH * Cardinality(Ends(k)) \in Int
    BY <2>1, <2>2, <2>3, GuiAssumption
  <2> HIDE DEF Ends, Place
  <2>5. u32(x + GLYPH * Place(k)) \in Int /\ u32(y + GLYPH * Cardinality(Ends(k))) \in Int
    BY <2>4, U32Nat
  <2> QED BY <2>5, CharInside
<1>2. fb_draw_string(x, y, s) = UNION {Drawn(k) : k \in {j \in DOMAIN s : s[j] # NewLine}}
  BY DEF fb_draw_string
<1> HIDE DEF Drawn
<1> QED BY <1>1, <1>2

LEMMA WindowInside ==
    ASSUME NEW w \in Window
    PROVE  draw_window(w) \subseteq Screen
<1>1. w.x \in Int /\ w.y \in Int /\ w.w \in Nat /\ w.h \in Nat /\ w.title \in Text
  BY DEF Window
<1>2. u32(w.x) \in Nat /\ u32(w.y) \in Nat
  BY <1>1, U32Nat
<1>3. u32(w.x + TITLE_X) \in Int /\ u32(w.y + TITLE_Y) \in Int
  BY <1>1, U32Nat, GuiAssumption
<1>4. TITLEBAR_HEIGHT \in Nat
  BY GuiAssumption
<1> QED BY <1>1, <1>2, <1>3, <1>4, FillInside, StringInside DEF draw_window

LEMMA CursorInside ==
    ASSUME NEW c \in Point
    PROVE  draw_cursor(c) \subseteq Screen
<1>1. c.x \in Int /\ c.y \in Int /\ CURSOR_SIZE \in Nat /\ CURSOR_SIZE - 2 \in Nat
  BY GuiAssumption DEF Point
<1>2. u32(c.x) \in Nat /\ u32(c.y) \in Nat /\ u32(c.x + 1) \in Nat /\ u32(c.y + 1) \in Nat
  BY <1>1, U32Nat
<1> QED BY <1>1, <1>2, FillInside DEF draw_cursor

LEMMA RedrawInside ==
    ASSUME NEW ws \in Seq(Window), NEW c \in Point
    PROVE  Redraw(ws, c) \subseteq Screen
<1>1. fb_fill_rect(0, 0, Width, Height) \subseteq Screen
  BY FillInside, GuiAssumption
<1>2. \A i \in DOMAIN ws : draw_window(ws[i]) \subseteq Screen
  BY WindowInside
<1>3. draw_cursor(c) \subseteq Screen
  BY CursorInside
<1> QED BY <1>1, <1>2, <1>3 DEF Redraw

-----------------------------------------------------------------------------
(* The window list and the drag.                                           *)

Grip == [ws : Seq(Window), drag : Nat, off : Point, title : BOOLEAN]

\* Two windows that differ in place and colour only.
Same(v, w) == v.id = w.id /\ v.w = w.w /\ v.h = w.h

Kept(ws) ==
    /\ Len(ws) = Len(InitialWindows)
    /\ \A i \in DOMAIN InitialWindows : \E j \in DOMAIN ws : Same(ws[j], InitialWindows[i])

\* The part of GrabInv that does not speak of the cursor.
Gripped(g) ==
    /\ g.drag \in 0 .. Len(g.ws)
    /\ g.drag # NoDrag /\ g.title =>
         /\ g.drag = Len(g.ws)
         /\ g.off.x \in 0 .. g.ws[g.drag].w - 1
         /\ g.off.y \in 0 .. TITLEBAR_HEIGHT - 1

LEMMA KeptIs == WindowsKept <=> Kept(windows) /\ drag_window \in 0 .. Len(windows)
<1>1. \A v, w : (\A f \in {"id", "w", "h"} : v[f] = w[f]) <=> Same(v, w)
  BY DEF Same
<1> QED BY <1>1, Zenon DEF WindowsKept, Kept

\* Whatever reorders the windows and changes their places and colours only,
\* keeps them.
LEMMA KeptBySame ==
    ASSUME NEW ws \in Seq(Window), NEW vs \in Seq(Window), Kept(ws),
           Len(vs) = Len(ws),
           \A j \in 1 .. Len(ws) : \E k \in 1 .. Len(vs) : Same(vs[k], ws[j])
    PROVE  Kept(vs)
<1>1. ASSUME NEW i \in DOMAIN InitialWindows
      PROVE  \E k \in DOMAIN vs : Same(vs[k], InitialWindows[i])
  <2>1. PICK j \in 1 .. Len(ws) : Same(ws[j], InitialWindows[i])
    <3>1. DOMAIN ws = 1 .. Len(ws)
      OBVIOUS
    <3> QED BY <3>1 DEF Kept
  <2>2. PICK k \in 1 .. Len(vs) : Same(vs[k], ws[j])
    OBVIOUS
  <2>3. Same(vs[k], InitialWindows[i])
    BY <2>1, <2>2, Zenon DEF Same
  <2>4. DOMAIN vs = 1 .. Len(vs)
    OBVIOUS
  <2> QED BY <2>3, <2>4
<1> QED BY <1>1 DEF Kept

LEMMA Concat ==
    ASSUME NEW s \in Seq(Window), NEW t \in Seq(Window)
    PROVE  /\ s \o t \in Seq(Window)
           /\ Len(s \o t) = Len(s) + Len(t)
           /\ \A j \in 1 .. Len(s) + Len(t) :
                (s \o t)[j] = IF j <= Len(s) THEN s[j] ELSE t[j - Len(s)]
BY ConcatProperties

\* raise_window: those above the window move down by one, it becomes the last.
LEMMA RaiseIs ==
    ASSUME NEW ws \in Seq(Window), NEW i \in 1 .. Len(ws)
    PROVE  /\ raise_window(ws, i) \in Seq(Window)
           /\ Len(raise_window(ws, i)) = Len(ws)
           /\ \A j \in 1 .. Len(ws) :
                raise_window(ws, i)[j] =
                  IF j < i THEN ws[j] ELSE IF j < Len(ws) THEN ws[j + 1] ELSE ws[i]
<1> DEFINE a == SubSeq(ws, 1, i - 1)
           b == SubSeq(ws, i + 1, Len(ws))
           n == Len(ws)
<1>1. n \in Nat /\ i \in Nat /\ 1 <= i /\ i <= n
  OBVIOUS
<1>2. a \in Seq(Window) /\ Len(a) = i - 1 /\ \A j \in 1 .. i - 1 : a[j] = ws[j]
  BY <1>1
<1>3. b \in Seq(Window) /\ Len(b) = n - i /\ \A j \in 1 .. n - i : b[j] = ws[i + j]
  BY <1>1
<1>4. <<ws[i]>> \in Seq(Window) /\ Len(<<ws[i]>>) = 1 /\ <<ws[i]>>[1] = ws[i]
  OBVIOUS
<1> HIDE DEF a, b, n
<1>5. /\ a \o b \in Seq(Window) /\ Len(a \o b) = n - 1
      /\ \A j \in 1 .. n - 1 : (a \o b)[j] = IF j < i THEN ws[j] ELSE ws[j + 1]
  <2>1. a \o b \in Seq(Window) /\ Len(a \o b) = n - 1
    <3>1. a \o b \in Seq(Window) /\ Len(a \o b) = Len(a) + Len(b)
      BY <1>2, <1>3, Concat
    <3> QED BY <1>1, <1>2, <1>3, <3>1
  <2>2. ASSUME NEW j \in 1 .. n - 1
        PROVE  (a \o b)[j] = IF j < i THEN ws[j] ELSE ws[j + 1]
    <3>1. CASE j < i
      BY <1>1, <1>2, <1>3, <3>1, Concat
    <3>2. CASE ~(j < i)
      <4>1. (a \o b)[j] = b[j - (i - 1)]
        BY <1>1, <1>2, <1>3, <3>2, Concat
      <4>2. j - (i - 1) \in 1 .. n - i /\ i + (j - (i - 1)) = j + 1
        BY <1>1, <3>2
      <4> QED BY <1>3, <3>2, <4>1, <4>2
    <3> QED BY <3>1, <3>2
  <2> QED BY <2>1, <2>2
<1>6. /\ (a \o b) \o <<ws[i]>> \in Seq(Window) /\ Len((a \o b) \o <<ws[i]>>) = n
      /\ \A j \in 1 .. n :
           ((a \o b) \o <<ws[i]>>)[j] = IF j < n THEN (a \o b)[j] ELSE ws[i]
  <2> DEFINE ab == a \o b
             e  == <<ws[i]>>
  <2>1. ab \in Seq(Window) /\ e \in Seq(Window) /\ Len(ab) = n - 1 /\ Len(e) = 1 /\ e[1] = ws[i]
    BY <1>4, <1>5
  <2> HIDE DEF ab, e
  <2>2. /\ ab \o e \in Seq(Window) /\ Len(ab \o e) = Len(ab) + Len(e)
        /\ \A j \in 1 .. Len(ab) + Len(e) :
             (ab \o e)[j] = IF j <= Len(ab) THEN ab[j] ELSE e[j - Len(ab)]
    BY <2>1, Concat
  <2>3. \A j \in 1 .. n : (ab \o e)[j] = IF j < n THEN ab[j] ELSE ws[i]
    BY <1>1, <2>1, <2>2
  <2> QED BY <1>1, <2>1, <2>2, <2>3 DEF ab, e
<1>7. raise_window(ws, i) = (a \o b) \o <<ws[i]>>
  BY DEF raise_window, a, b
<1>8. ASSUME NEW j \in 1 .. n
      PROVE  ((a \o b) \o <<ws[i]>>)[j] =
               IF j < i THEN ws[j] ELSE IF j < n THEN ws[j + 1] ELSE ws[i]
  <2>1. CASE j < n
    <3>1. j \in 1 .. n - 1
      BY <1>1, <2>1
    <3> QED BY <1>5, <1>6, <2>1, <3>1
  <2>2. CASE ~(j < n)
    <3>1. ~(j < i)
      BY <1>1, <2>2
    <3> QED BY <1>6, <2>2, <3>1
  <2> QED BY <2>1, <2>2
<1> QED BY <1>6, <1>7, <1>8 DEF n

\* Raising a window keeps all of them.
LEMMA RaiseKeeps ==
    ASSUME NEW ws \in Seq(Window), NEW i \in 1 .. Len(ws), Kept(ws)
    PROVE  Kept(raise_window(ws, i))
<1> DEFINE vs == raise_window(ws, i)
<1>1. /\ vs \in Seq(Window) /\ Len(vs) = Len(ws)
      /\ \A j \in 1 .. Len(ws) :
           vs[j] = IF j < i THEN ws[j] ELSE IF j < Len(ws) THEN ws[j + 1] ELSE ws[i]
  BY RaiseIs
<1> HIDE DEF vs
<1>2. ASSUME NEW j \in 1 .. Len(ws)
      PROVE  \E k \in 1 .. Len(vs) : Same(vs[k], ws[j])
  <2>1. CASE j < i
    <3>1. vs[j] = ws[j]
      BY <1>1, <2>1
    <3> QED BY <1>1, <3>1 DEF Same
  <2>2. CASE j > i
    <3>1. j - 1 \in 1 .. Len(ws) /\ ~(j - 1 < i) /\ j - 1 < Len(ws) /\ (j - 1) + 1 = j
      BY <2>2
    <3>2. vs[j - 1] = ws[j]
      BY <1>1, <3>1
    <3> QED BY <1>1, <3>1, <3>2 DEF Same
  <2>3. CASE j = i
    <3>1. Len(ws) \in 1 .. Len(ws) /\ ~(Len(ws) < i)
      OBVIOUS
    <3>2. vs[Len(ws)] = ws[i]
      BY <1>1, <3>1
    <3> QED BY <1>1, <2>3, <3>1, <3>2 DEF Same
  <2> QED BY <2>1, <2>2, <2>3
<1> QED BY <1>1, <1>2, KeptBySame DEF vs

\* The window a click finds.
LEMMA TopmostHit ==
    ASSUME NEW g \in Grip, NEW c \in Point, Hits(g, c) # {}
    PROVE  Max(Hits(g, c)) \in 1 .. Len(g.ws) /\ in_win(c, g.ws[Max(Hits(g, c))])
<1>1. g.ws \in Seq(Window) /\ Len(g.ws) \in Nat /\ DOMAIN g.ws = 1 .. Len(g.ws)
  BY DEF Grip
<1>2. Hits(g, c) \in SUBSET Nat /\ \A k \in Hits(g, c) : k <= Len(g.ws)
  BY <1>1 DEF Hits
<1>3. Max(Hits(g, c)) \in Hits(g, c)
  BY <1>1, <1>2, MaxOfBounded
<1> QED BY <1>1, <1>3 DEF Hits

\* handle_click keeps the windows, and what it drags it has by the offset of
\* this click.
LEMMA ClickGrips ==
    ASSUME NEW g \in Grip, NEW c \in Point, Kept(g.ws), Gripped(g)
    PROVE  /\ handle_click(g, c) \in Grip
           /\ Kept(handle_click(g, c).ws)
           /\ Gripped(handle_click(g, c))
<1>1. CASE Hits(g, c) = {}
  BY <1>1 DEF handle_click
<1>2. CASE Hits(g, c) # {}
  <2> DEFINE i == Max(Hits(g, c))
             w == g.ws[i]
             title == c.y < w.y + TITLEBAR_HEIGHT
             lit == IF title THEN g.ws ELSE [g.ws EXCEPT ![i].lit = ~@]
             off == IF title THEN [x |-> c.x - w.x, y |-> c.y - w.y] ELSE g.off
             h == [ws |-> raise_window(lit, i), drag |-> Len(g.ws), title |-> title, off |-> off]
  <2>1. handle_click(g, c) = h
    BY <1>2 DEF handle_click
  <2>2. i \in 1 .. Len(g.ws) /\ in_win(c, w)
    BY <1>2, TopmostHit
  <2>3. g.ws \in Seq(Window) /\ Len(g.ws) \in Nat /\ g.off \in Point
    BY DEF Grip
  <2> HIDE DEF i
  <2>4. w \in Window /\ w.x \in Int /\ w.y \in Int /\ w.w \in Nat /\ c.x \in Int /\ c.y \in Int
    <3>1. w \in Window
      BY <2>2, <2>3
    <3> HIDE DEF w
    <3> QED BY <3>1 DEF Window, Point
  <2>5. /\ lit \in Seq(Window) /\ Len(lit) = Len(g.ws)
        /\ \A j \in 1 .. Len(g.ws) : Same(lit[j], g.ws[j])
    <3>1. CASE title
      BY <2>3, <3>1 DEF Same
    <3>2. CASE ~title
      <4> DEFINE v == [w EXCEPT !.lit = ~@]
      <4>1. v \in Window /\ Same(v, w)
        BY <2>4 DEF Window, Same
      <4>2. lit = [g.ws EXCEPT ![i] = v]
        BY <3>2
      <4> HIDE DEF v, w, lit
      <4>3. lit \in Seq(Window) /\ Len(lit) = Len(g.ws)
        BY <2>2, <2>3, <4>1, <4>2, ExceptSeq
      <4>4. ASSUME NEW j \in 1 .. Len(g.ws)
            PROVE  Same(lit[j], g.ws[j])
        <5>1. lit[j] = IF j = i THEN v ELSE g.ws[j]
          BY <2>2, <2>3, <4>2
        <5> QED BY <4>1, <5>1 DEF Same, w
      <4> QED BY <4>3, <4>4
    <3> QED BY <3>1, <3>2
  <2> HIDE DEF lit
  <2>6. /\ raise_window(lit, i) \in Seq(Window)
        /\ Len(raise_window(lit, i)) = Len(g.ws)
        /\ raise_window(lit, i)[Len(g.ws)] = lit[i]
    <3>1. Len(lit) \in 1 .. Len(lit) /\ ~(Len(lit) < i)
      BY <2>2, <2>3, <2>5
    <3>2. /\ raise_window(lit, i) \in Seq(Window)
          /\ Len(raise_window(lit, i)) = Len(lit)
          /\ \A j \in 1 .. Len(lit) :
               raise_window(lit, i)[j] =
                 IF j < i THEN lit[j] ELSE IF j < Len(lit) THEN lit[j + 1] ELSE lit[i]
      BY <2>2, <2>5, RaiseIs
    <3>3. raise_window(lit, i)[Len(lit)] = lit[i]
      BY <3>1, <3>2
    <3> QED BY <2>5, <3>2, <3>3
  <2>7. Kept(raise_window(lit, i))
    <3>1. Kept(lit)
      BY <2>3, <2>5, KeptBySame
    <3> QED BY <2>2, <2>5, <3>1, RaiseKeeps
  <2>8. off \in Point
    BY <2>3, <2>4 DEF Point
  <2>9. title => off.x \in 0 .. lit[i].w - 1 /\ off.y \in 0 .. TITLEBAR_HEIGHT - 1
    <3>1. lit[i].w = w.w
      BY <2>2, <2>5 DEF Same
    <3>2. c.x >= w.x /\ c.x < w.x + w.w /\ c.y >= w.y
      BY <2>2 DEF in_win
    <3>3. ASSUME title
          PROVE  off.x = c.x - w.x /\ off.y = c.y - w.y
      BY <3>3
    <3>4. TITLEBAR_HEIGHT \in Nat
      BY GuiAssumption
    <3> HIDE DEF w, off
    <3> QED BY <2>4, <3>1, <3>2, <3>3, <3>4
  <2>10. h \in Grip
    BY <2>3, <2>6, <2>8 DEF Grip
  <2>11. Gripped(h)
    <3>1. /\ h.ws = raise_window(lit, i) /\ h.drag = Len(g.ws) /\ h.off = off
          /\ h.title = title
      OBVIOUS
    <3> HIDE DEF h, off, title
    <3> QED BY <2>3, <2>6, <2>9, <3>1 DEF Gripped
  <2> QED BY <2>1, <2>7, <2>10, <2>11
<1> QED BY <1>1, <1>2

LEMMA MovedWindow ==
    ASSUME NEW w \in Window, NEW a \in Int, NEW b \in Int
    PROVE  /\ [w EXCEPT !.x = a, !.y = b] \in Window
           /\ Same([w EXCEPT !.x = a, !.y = b], w)
           /\ [w EXCEPT !.x = a, !.y = b].x = a
           /\ [w EXCEPT !.x = a, !.y = b].y = b
BY DEF Window, Same

\* Dragging puts the window under the cursor.
LEMMA DragHolds ==
    ASSUME NEW g \in Grip, NEW c \in Point, Kept(g.ws), Gripped(g)
    PROVE  LET h == Drag(g, c)
           IN  /\ h \in Grip /\ Kept(h.ws) /\ Gripped(h)
               /\ h.drag = g.drag /\ h.off = g.off /\ h.title = g.title
               /\ h.drag # NoDrag => /\ h.ws[h.drag].x = c.x - h.off.x
                                     /\ h.ws[h.drag].y = c.y - h.off.y
<1>1. CASE g.drag = NoDrag
  BY <1>1 DEF Drag
<1>2. CASE g.drag # NoDrag
  <2> DEFINE d == g.drag
             w == g.ws[d]
             v == [w EXCEPT !.x = c.x - g.off.x, !.y = c.y - g.off.y]
             vs == [g.ws EXCEPT ![d] = v]
             h == [g EXCEPT !.ws = vs]
  <2>1. /\ g.ws \in Seq(Window) /\ Len(g.ws) \in Nat /\ d \in 1 .. Len(g.ws)
        /\ g.off.x \in Int /\ g.off.y \in Int /\ c.x \in Int /\ c.y \in Int
    BY <1>2 DEF Grip, Gripped, NoDrag, Point
  <2>2. w \in Window
    BY <2>1
  <2>3. v \in Window /\ Same(v, w) /\ v.x = c.x - g.off.x /\ v.y = c.y - g.off.y
    <3>1. c.x - g.off.x \in Int /\ c.y - g.off.y \in Int
      BY <2>1
    <3> HIDE DEF w
    <3> DEFINE a == c.x - g.off.x
               b == c.y - g.off.y
    <3>2. v = [w EXCEPT !.x = a, !.y = b]
      OBVIOUS
    <3> HIDE DEF a, b, v
    <3>3. v \in Window
      BY <2>2, <3>1, <3>2, MovedWindow DEF a, b
    <3>4. Same(v, w) /\ v.x = a /\ v.y = b
      BY <2>2, <3>2 DEF Window, Same
    <3> QED BY <3>3, <3>4 DEF a, b
  <2>4. Drag(g, c) = h
    BY <1>2, <2>1, <2>2 DEF Drag, Grip, Window
  <2> HIDE DEF v, w
  <2>5. vs \in Seq(Window) /\ Len(vs) = Len(g.ws)
    BY <2>1, <2>3, ExceptSeq
  <2>6. \A j \in 1 .. Len(g.ws) : vs[j] = IF j = d THEN v ELSE g.ws[j]
    BY <2>1
  <2>7. \A j \in 1 .. Len(g.ws) : Same(vs[j], g.ws[j])
    BY <2>3, <2>6 DEF Same, w
  <2> HIDE DEF vs
  <2>8. Kept(vs)
    BY <2>1, <2>5, <2>7, KeptBySame
  <2>9. h \in Grip /\ h.ws = vs /\ h.drag = d /\ h.off = g.off /\ h.title = g.title
    BY <2>5 DEF Grip
  <2>10. vs[d].w = g.ws[d].w /\ vs[d].x = c.x - g.off.x /\ vs[d].y = c.y - g.off.y
    BY <2>1, <2>3, <2>6, <2>7 DEF Same
  <2> HIDE DEF h
  <2>11. Gripped(h)
    BY <2>5, <2>9, <2>10 DEF Gripped
  <2> QED BY <2>4, <2>8, <2>9, <2>10, <2>11
<1> QED BY <1>1, <1>2

-----------------------------------------------------------------------------
(* The steps.                                                              *)

LEMMA UpdatePreserves ==
    ASSUME IInv, NEW c \in Point, NEW l \in BOOLEAN, gui_update(c, l)
    PROVE  IInv'
<1> DEFINE g0 == [ws |-> windows, drag |-> drag_window, off |-> drag_offset, title |-> by_title]
           g1 == IF l /\ ~prev_left_down THEN handle_click(g0, c) ELSE g0
           g2 == IF l THEN g1 ELSE Release(g1)
           g3 == Drag(g2, c)
<1>1. g0 \in Grip /\ Kept(g0.ws) /\ Gripped(g0)
  <2>1. g0 \in Grip
    BY DEF IInv, TypeInv, Grip
  <2>2. Kept(g0.ws) /\ drag_window \in 0 .. Len(windows)
    BY KeptIs DEF IInv
  <2>3. /\ g0.ws = windows /\ g0.drag = drag_window /\ g0.off = drag_offset
        /\ g0.title = by_title
    OBVIOUS
  <2> HIDE DEF g0
  <2>4. Gripped(g0)
    BY <2>2, <2>3 DEF IInv, GrabInv, Gripped
  <2> QED BY <2>1, <2>2, <2>4
<1> HIDE DEF g0
<1>2. g1 \in Grip /\ Kept(g1.ws) /\ Gripped(g1)
  BY <1>1, ClickGrips
<1> HIDE DEF g1
<1>3. g2 \in Grip /\ Kept(g2.ws) /\ Gripped(g2)
  <2>1. CASE l
    BY <1>2, <2>1
  <2>2. CASE ~l
    <3>1. g2 = [g1 EXCEPT !.drag = NoDrag]
      BY <2>2 DEF Release
    <3>2. /\ g2 \in Grip /\ g2.ws = g1.ws /\ g2.drag = NoDrag
      BY <1>2, <3>1 DEF Grip, NoDrag
    <3>3. Len(g2.ws) \in Nat
      BY <3>2 DEF Grip
    <3> HIDE DEF g2
    <3> QED BY <1>2, <3>2, <3>3 DEF Gripped, NoDrag
  <2> QED BY <2>1, <2>2
<1> HIDE DEF g2
<1>4. /\ g3 \in Grip /\ Kept(g3.ws) /\ Gripped(g3)
      /\ g3.drag # NoDrag => /\ g3.ws[g3.drag].x = c.x - g3.off.x
                             /\ g3.ws[g3.drag].y = c.y - g3.off.y
  BY <1>3, DragHolds
<1>5. /\ windows' = g3.ws /\ drag_window' = g3.drag /\ drag_offset' = g3.off
      /\ by_title' = g3.title /\ cursor' = c /\ left' = l /\ prev_left_down' = l
      /\ \/ drawn' = drawn
         \/ drawn' = Redraw(g3.ws, c)
  BY DEF gui_update, g0, g1, g2
<1> HIDE DEF g3
<1>6. TypeInv'
  BY <1>4, <1>5 DEF TypeInv, Grip
<1>7. WindowsKept'
  <2>1. Kept(windows') /\ drag_window' \in 0 .. Len(windows')
    BY <1>4, <1>5 DEF Gripped
  <2> QED BY <2>1 DEF WindowsKept, Kept, Same
<1>8. GrabInv'
  BY <1>4, <1>5 DEF GrabInv, Gripped
<1>9. DrawnInside'
  <2>1. Redraw(g3.ws, c) \subseteq Screen
    BY <1>4, RedrawInside DEF Grip
  <2>2. drawn' \subseteq Screen
    BY <1>5, <2>1 DEF IInv, DrawnInside
  <2> QED BY <2>2 DEF DrawnInside, Screen
<1> QED BY <1>6, <1>7, <1>8, <1>9 DEF IInv

LEMMA InitIInv == Init => IInv
<1> SUFFICES ASSUME Init PROVE IInv
  OBVIOUS
<1>1. TypeInv
  <2>1. Width \div 2 \in Int /\ Height \div 2 \in Int
    BY GuiAssumption
  <2>2. cursor \in Point /\ drag_offset \in Point
    BY <2>1 DEF Init, Point
  <2> QED BY <2>2, WindowAssumption DEF Init, TypeInv, NoDrag
<1>2. WindowsKept
  <2>1. Kept(windows)
    BY DEF Init, Kept, Same
  <2>2. Len(windows) \in Nat
    BY WindowAssumption DEF Init
  <2>3. drag_window \in 0 .. Len(windows)
    BY <2>2 DEF Init, NoDrag
  <2> QED BY <2>1, <2>3, KeptIs
<1>3. GrabInv
  BY DEF Init, GrabInv
<1>4. DrawnInside
  <2>1. PICK s \in Messages : drawn = Message(s)
    BY DEF Init
  <2>2. s \in Text /\ MessageX \in Int /\ MessageY \in Int
    BY GuiAssumption, WindowAssumption
  <2> QED BY <2>1, <2>2, StringInside DEF DrawnInside, Message
<1> QED BY <1>1, <1>2, <1>3, <1>4 DEF IInv

LEMMA NextPreserves == IInv /\ [Next]_vars => IInv'
<1> SUFFICES ASSUME IInv, [Next]_vars PROVE IInv'
  OBVIOUS
<1>1. CASE UpdateNoNews
  <2>1. cursor \in Point /\ left \in BOOLEAN
    BY DEF IInv, TypeInv
  <2> QED BY <1>1, <2>1, UpdatePreserves DEF UpdateNoNews
<1>2. CASE UpdateNews
  <2>1. PICK c \in [x : 0 .. Width - 1, y : 0 .. Height - 1], l \in BOOLEAN : gui_update(c, l)
    BY <1>2 DEF UpdateNews
  <2>2. c \in Point
    BY GuiAssumption DEF Point
  <2> QED BY <2>1, <2>2, UpdatePreserves
<1>3. CASE blinker_thread
  <2>1. u32(Width - BlinkRight) \in Nat /\ BlinkSize \in Nat
    BY U32Nat, GuiAssumption
  <2>2. drawn' \subseteq Screen
    BY <1>3, <2>1, FillInside DEF blinker_thread
  <2> QED BY <1>3, <2>2
          DEF blinker_thread, IInv, TypeInv, WindowsKept, GrabInv, DrawnInside, Screen
<1>4. CASE TimerTick
  BY <1>4 DEF TimerTick, IInv, TypeInv, WindowsKept, GrabInv, DrawnInside, Screen
<1>5. CASE UNCHANGED vars
  BY <1>5 DEF vars, IInv, TypeInv, WindowsKept, GrabInv, DrawnInside, Screen
<1> QED BY <1>1, <1>2, <1>3, <1>4, <1>5 DEF Next

\* A window grabbed by its title bar is under the cursor.
LEMMA GrabInvHolds == IInv => GrabHeld
<1> SUFFICES ASSUME IInv, drag_window # NoDrag, by_title PROVE GrabHeld
  BY DEF GrabHeld
<1> DEFINE w == windows[drag_window]
<1>1. /\ drag_window = Len(windows)
      /\ drag_offset.x \in 0 .. w.w - 1 /\ drag_offset.y \in 0 .. TITLEBAR_HEIGHT - 1
      /\ w.x = cursor.x - drag_offset.x /\ w.y = cursor.y - drag_offset.y
  BY DEF IInv, GrabInv
<1>2. cursor.x \in Int /\ cursor.y \in Int /\ TITLEBAR_HEIGHT \in Nat
  BY GuiAssumption DEF IInv, TypeInv, Point
<1>3. w \in Window
  <2>1. drag_window \in 1 .. Len(windows)
    BY DEF IInv, TypeInv, WindowsKept, NoDrag
  <2> QED BY <2>1 DEF IInv, TypeInv
<1> HIDE DEF w
<1>4. w.w \in Nat
  BY <1>3 DEF Window
<1>5. /\ cursor.x \in w.x .. w.x + w.w - 1
      /\ cursor.y \in w.y .. w.y + TITLEBAR_HEIGHT - 1
  BY <1>1, <1>2, <1>4
<1> QED BY <1>1, <1>5 DEF GrabHeld, w

\* Through every sequence of mouse reports, ticks and blinks: no window is lost
\* or duplicated by raising it.
THEOREM WindowsSafe == Spec => []WindowsKept
<1>1. IInv => WindowsKept
  BY DEF IInv
<1> QED BY <1>1, InitIInv, NextPreserves, PTL DEF Spec

\* A window grabbed by its title bar stays on top and under the cursor for as
\* long as it is dragged, whatever was dragged or raised before.
THEOREM GrabSafe == Spec => []GrabHeld
BY GrabInvHolds, InitIInv, NextPreserves, PTL DEF Spec

\* No drawing writes outside the framebuffer: not for windows dragged over an
\* edge, whose coordinates wrap, and not for texts longer than a line.
THEOREM DrawingSafe == Spec => []DrawnInside
<1>1. IInv => DrawnInside
  BY DEF IInv
<1> QED BY <1>1, InitIInv, NextPreserves, PTL DEF Spec
=============================================================================
