------------------------------ MODULE Terminal ------------------------------
(***************************************************************************)
(* The idle loop of kernel_main without graphics: what keyboard_getchar    *)
(* returns is echoed on the console, while the keyboard interrupts.  The   *)
(* console is the loop's own, so the echo is one step with the end of      *)
(* keyboard_getchar.                                                       *)
(***************************************************************************)
EXTENDS Keyboard, Console, FiniteSetsExt

CONSTANTS
    BootText,   \* what kernel_main has printed by then
    MaxKeys     \* bound: characters typed and accepted

ASSUME TerminalAssumption == BootText \in Seq({BootText[k] : k \in DOMAIN BootText})

VARIABLES
    con,
    text        \* history: all that was printed

terminal == <<vars, con, text>>

TerminalInit ==
    /\ Init
    /\ con = console_puts(arch_console_clear, BootText)
    /\ text = BootText

Echo ==
    /\ GetAdvance
    /\ con' = arch_console_putc(con, c)
    /\ text' = Append(text, c)

IdleLoop ==
    \/ (GetTest \/ GetLoad) /\ UNCHANGED <<con, text>>
    \/ Echo

Typed ==
    /\ keyboard_irq
    /\ Len(text) - Len(BootText) + Waiting(buf_head', buf_tail') <= MaxKeys
    /\ UNCHANGED <<con, text>>

TerminalNext == IdleLoop \/ Typed

\* The loop runs for ever; between two interrupts it makes progress.
TerminalSpec == TerminalInit /\ [][TerminalNext]_terminal /\ WF_terminal(IdleLoop)

-----------------------------------------------------------------------------
(* The same text on endless paper, whose places are numbered row by row.   *)

Controls == {"\n", "\r", "\t"}

\* Where the next character goes after ch was printed at p.
NextPlace(p, ch) ==
    CASE ch = "\n" -> (p \div VGA_COLS + 1) * VGA_COLS
      [] ch = "\r" -> (p \div VGA_COLS) * VGA_COLS
      [] ch = "\t" -> (p \div TAB + 1) * TAB
      [] OTHER -> p + 1

\* The place after the first k characters of t.
Place(t) ==
    LET place[k \in 0 .. Len(t)] == IF k = 0 THEN 0 ELSE NextPlace(place[k - 1], t[k])
    IN  place

\* What the paper has at a place: the last character printed there.
Printed(t, p) ==
    LET K == {k \in DOMAIN t : Place(t)[k - 1] = p /\ t[k] \notin Controls}
    IN  IF K = {} THEN Blank ELSE t[Max(K)]

\* The first row of the paper that is on the screen.
Top(t) == Max({0, Place(t)[Len(t)] \div VGA_COLS - (VGA_ROWS - 1)})

\* The screen shows the end of all that was printed, in the order it was typed:
\* the last VGA_ROWS rows of the paper, with the cursor where it ends, through
\* any mix of wraps, tabs, newlines and scrolls.
ScreenShowsTail ==
    /\ (Top(text) + con.cursor_row) * VGA_COLS + con.cursor_col = Place(text)[Len(text)]
    /\ \A i \in Cells : con.vga[i] = Printed(text, Top(text) * VGA_COLS + i)
=============================================================================
