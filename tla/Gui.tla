-------------------------------- MODULE Gui --------------------------------
(***************************************************************************)
(* The compositor (gui/gui.c), the blinker thread that paints beside it    *)
(* (kernel.c) and the drawing routines both use (the same code on both     *)
(* architectures).  Colours are a flag per window; a drawing is the set of *)
(* pixels it writes; of a text, only where its lines end matters, as every *)
(* glyph paints its whole cell.  Unsigned arithmetic wraps at U32.         *)
(***************************************************************************)
EXTENDS Integers, Sequences, FiniteSets, FiniteSetsExt

CONSTANTS
    Width, Height,      \* arch_gfx_width(), arch_gfx_height()
    TITLEBAR_HEIGHT,    \* 20
    CURSOR_SIZE,        \* 10
    TITLE_X, TITLE_Y,   \* 4 and 6: the title within its window
    GLYPH,              \* 8
    RedrawTicks,        \* 3
    BlinkTicks,         \* 100
    BlinkRight,         \* 20: from the right edge to the blinker's square
    BlinkSize,          \* 10: its size, and its distance from the top
    MessageX, MessageY, \* 10 and 30: where boot writes what it read from disk
    Messages,           \* those texts, as sequences of "c" and NewLine
    InitialWindows,     \* the windows gui_init opens
    U32                 \* 2^32

\* What fb_draw_string is given, and a window_t.
NewLine == "nl"
Text    == Seq({"c", NewLine})
Window  == [id : Nat, x : Int, y : Int, w : Nat, h : Nat, lit : BOOLEAN, title : Text]

ASSUME GuiAssumption ==
    /\ {Width, Height, TITLEBAR_HEIGHT, CURSOR_SIZE, RedrawTicks, BlinkTicks, GLYPH, U32}
         \subseteq Nat \ {0}
    /\ {TITLE_X, TITLE_Y, BlinkRight, BlinkSize, MessageX, MessageY} \subseteq Nat
    /\ Width < U32 \div 2 /\ Height < U32 \div 2
    /\ CURSOR_SIZE >= 2

ASSUME WindowAssumption == InitialWindows \in Seq(Window) /\ Messages \subseteq Text

VARIABLES
    windows,            \* bottom to top: [id, x, y, w, h, lit, title]
    cursor,             \* cursor_x, cursor_y
    left,               \* cursor_buttons, the left one
    prev_left_down,
    drag_window,        \* index into windows, NoDrag for -1
    drag_offset,
    since_redraw,       \* now - last_redraw_tick, capped
    since_blink,        \* now - last_tick of the blinker, capped
    drawn,              \* pixels the last drawing wrote
    by_title            \* history: the drag began on a title bar

vars == <<windows, cursor, left, prev_left_down, drag_window, drag_offset,
          since_redraw, since_blink, drawn, by_title>>

NoDrag == 0

Screen == (0 .. Width - 1) \X (0 .. Height - 1)

-----------------------------------------------------------------------------
(* The drawing routines.                                                   *)

u32(n) == n % U32

\* Mutant of fb_fill_rect: the right edge is not clipped.
FillUnclipped(x, y, w, h) ==
    LET x1 == u32(x + w)
        y1 == IF u32(y + h) > Height THEN Height ELSE u32(y + h)
    IN  (x .. x1 - 1) \X (y .. y1 - 1)

\* The pixels written: the far edges wrap, then are clipped to the screen.
fb_fill_rect(x, y, w, h) ==
    LET x1 == IF u32(x + w) > Width THEN Width ELSE u32(x + w)
        y1 == IF u32(y + h) > Height THEN Height ELSE u32(y + h)
    IN  (x .. x1 - 1) \X (y .. y1 - 1)

fb_put_pixel(x, y) == IF x >= Width \/ y >= Height THEN {} ELSE {<<x, y>>}

fb_draw_char(x, y) ==
    UNION {fb_put_pixel(u32(x + col), u32(y + row)) : col, row \in 0 .. GLYPH - 1}

\* Character k stands after those of its own line, below the lines before it.
fb_draw_string(x, y, s) ==
    LET Ends(k) == {j \in 1 .. k : s[j] = NewLine}
        Place(k) == k - 1 - Max(Ends(k) \cup {0})
    IN  UNION {fb_draw_char(u32(x + GLYPH * Place(k)), u32(y + GLYPH * Cardinality(Ends(k)))) :
                 k \in {j \in DOMAIN s : s[j] # NewLine}}

draw_window(win) ==
    fb_fill_rect(u32(win.x), u32(win.y), win.w, win.h)
      \cup fb_fill_rect(u32(win.x), u32(win.y), win.w, TITLEBAR_HEIGHT)
      \cup fb_draw_string(u32(win.x + TITLE_X), u32(win.y + TITLE_Y), win.title)

draw_cursor(c) ==
    fb_fill_rect(u32(c.x), u32(c.y), CURSOR_SIZE, CURSOR_SIZE)
      \cup fb_fill_rect(u32(c.x + 1), u32(c.y + 1), CURSOR_SIZE - 2, CURSOR_SIZE - 2)

\* The end of gui_update: background, windows, cursor.
Redraw(ws, c) ==
    fb_fill_rect(0, 0, Width, Height)
      \cup (UNION {draw_window(ws[i]) : i \in DOMAIN ws})
      \cup draw_cursor(c)

\* What kernel_main shows of the file it read, or of its failure.
Message(s) == fb_draw_string(MessageX, MessageY, s)

\* gui_init, with a framebuffer present; boot has shown what it read from disk.
Init ==
    /\ windows = InitialWindows
    /\ cursor = [x |-> Width \div 2, y |-> Height \div 2]
    /\ left = FALSE
    /\ prev_left_down = FALSE
    /\ drag_window = NoDrag
    /\ drag_offset = [x |-> 0, y |-> 0]
    /\ since_redraw = 0 /\ since_blink = 0
    /\ \E s \in Messages : drawn = Message(s)
    /\ by_title = FALSE

-----------------------------------------------------------------------------
(* The window list and the drag, g = [ws, drag, off, title].               *)

\* Mutant of raise_window: the last slot keeps what the shift left there.
RaiseDropsTmp(ws, i) ==
    SubSeq(ws, 1, i - 1) \o SubSeq(ws, i + 1, Len(ws)) \o <<ws[Len(ws)]>>

raise_window(ws, i) ==
    SubSeq(ws, 1, i - 1) \o SubSeq(ws, i + 1, Len(ws)) \o <<ws[i]>>

in_win(c, w) == /\ c.x >= w.x /\ c.x < w.x + w.w
                /\ c.y >= w.y /\ c.y < w.y + w.h

Hits(g, c) == {i \in DOMAIN g.ws : in_win(c, g.ws[i])}

\* Mutant of handle_click: the index from before the raise is dragged.
ClickDragsOldIndex(g, c) ==
    IF Hits(g, c) = {} THEN g
    ELSE LET i == Max(Hits(g, c))
             w == g.ws[i]
             title == c.y < w.y + TITLEBAR_HEIGHT
             lit   == IF title THEN g.ws ELSE [g.ws EXCEPT ![i].lit = ~@]
         IN  [ws |-> raise_window(lit, i), drag |-> i, title |-> title,
              off |-> IF title THEN [x |-> c.x - w.x, y |-> c.y - w.y] ELSE g.off]

\* The topmost window under the cursor is recoloured or grabbed by its title
\* bar, raised, and dragged in either case.
handle_click(g, c) ==
    IF Hits(g, c) = {} THEN g
    ELSE LET i == Max(Hits(g, c))
             w == g.ws[i]
             title == c.y < w.y + TITLEBAR_HEIGHT
             lit   == IF title THEN g.ws ELSE [g.ws EXCEPT ![i].lit = ~@]
         IN  [ws |-> raise_window(lit, i), drag |-> Len(g.ws), title |-> title,
              off |-> IF title THEN [x |-> c.x - w.x, y |-> c.y - w.y] ELSE g.off]

Release(g) == [g EXCEPT !.drag = NoDrag]

Drag(g, c) ==
    IF g.drag = NoDrag THEN g
    ELSE [g EXCEPT !.ws[g.drag].x = c.x - g.off.x, !.ws[g.drag].y = c.y - g.off.y]

\* gui_update once the mouse has been asked: c and l are the new cursor and
\* button, the old ones when arch_mouse_get_state returned false.
gui_update(c, l) ==
    LET g0 == [ws |-> windows, drag |-> drag_window, off |-> drag_offset,
               title |-> by_title]
        g1 == IF l /\ ~prev_left_down THEN handle_click(g0, c) ELSE g0
        g2 == IF l THEN g1 ELSE Release(g1)
        g3 == Drag(g2, c)
    IN  /\ cursor' = c /\ left' = l /\ prev_left_down' = l
        /\ windows' = g3.ws /\ drag_window' = g3.drag
        /\ drag_offset' = g3.off /\ by_title' = g3.title
        /\ IF since_redraw < RedrawTicks
           THEN UNCHANGED <<since_redraw, drawn>>
           ELSE /\ since_redraw' = 0
                /\ drawn' = Redraw(g3.ws, c)
        /\ UNCHANGED since_blink

UpdateNoNews == gui_update(cursor, left)

UpdateNews == \E c \in [x : 0 .. Width - 1, y : 0 .. Height - 1], l \in BOOLEAN :
                gui_update(c, l)

\* One round of blinker_thread, when its second is over.
blinker_thread ==
    /\ since_blink >= BlinkTicks
    /\ since_blink' = 0
    /\ drawn' = fb_fill_rect(u32(Width - BlinkRight), BlinkSize, BlinkSize, BlinkSize)
    /\ UNCHANGED <<windows, cursor, left, prev_left_down, drag_window, drag_offset,
                   since_redraw, by_title>>

TimerTick ==
    /\ since_redraw' = Min({since_redraw + 1, RedrawTicks})
    /\ since_blink' = Min({since_blink + 1, BlinkTicks})
    /\ UNCHANGED <<windows, cursor, left, prev_left_down, drag_window, drag_offset,
                   drawn, by_title>>

Next == UpdateNoNews \/ UpdateNews \/ blinker_thread \/ TimerTick

Spec == Init /\ [][Next]_vars

-----------------------------------------------------------------------------
\* Raising reorders the windows; none is lost, duplicated or resized.
WindowsKept ==
    /\ Len(windows) = Len(InitialWindows) /\ drag_window \in 0 .. Len(windows)
    /\ \A i \in DOMAIN InitialWindows :
         \E j \in DOMAIN windows :
           \A f \in {"id", "w", "h"} : windows[j][f] = InitialWindows[i][f]

\* A window grabbed by its title bar is the topmost one and stays under the
\* cursor by its title bar for the whole drag.
GrabHeld ==
    drag_window # NoDrag /\ by_title =>
      LET w == windows[drag_window]
      IN  /\ drag_window = Len(windows)
          /\ cursor.x \in w.x .. w.x + w.w - 1
          /\ cursor.y \in w.y .. w.y + TITLEBAR_HEIGHT - 1

\* No drawing writes outside the framebuffer, wherever the windows were dragged,
\* and however long the titles and the texts are.
DrawnInside == drawn \subseteq Screen
============================================================================
