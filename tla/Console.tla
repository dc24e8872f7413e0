------------------------------ MODULE Console ------------------------------
(***************************************************************************)
(* The VGA text console (arch/x86_64/drivers/console.c).  The console is a *)
(* record con = [vga, cursor_row, cursor_col]; every call maps one to the  *)
(* next.  The colour of a cell never changes and is left out.              *)
(***************************************************************************)
EXTENDS Naturals, Sequences

CONSTANTS
    VGA_COLS, VGA_ROWS,     \* 80 and 25
    TAB,                    \* 4
    Blank                   \* ' '

ASSUME ConsoleAssumption ==
    /\ {VGA_COLS, VGA_ROWS, TAB} \subseteq Nat \ {0}
    /\ VGA_COLS % TAB = 0

Cells == 0 .. VGA_ROWS * VGA_COLS - 1

arch_console_clear == [vga |-> [i \in Cells |-> Blank], cursor_row |-> 0, cursor_col |-> 0]

\* Mutant of scroll: the last row keeps what was on it.
ScrollKeepsLast(con) ==
    [con EXCEPT !.vga = [i \in Cells |-> IF i + VGA_COLS \in Cells THEN con.vga[i + VGA_COLS]
                                         ELSE con.vga[i]],
                !.cursor_row = VGA_ROWS - 1]

\* Every row moves up by one; the last is cleared and holds the cursor.
scroll(con) ==
    [con EXCEPT !.vga = [i \in Cells |-> IF i + VGA_COLS \in Cells THEN con.vga[i + VGA_COLS]
                                         ELSE Blank],
                !.cursor_row = VGA_ROWS - 1]

Newline(con) == [con EXCEPT !.cursor_row = @ + 1, !.cursor_col = 0]

Advance(con, ch) ==
    CASE ch = "\n" -> Newline(con)
      [] ch = "\r" -> [con EXCEPT !.cursor_col = 0]
      [] ch = "\t" -> [con EXCEPT !.cursor_col = (@ \div TAB + 1) * TAB]
      [] OTHER -> [con EXCEPT !.vga[con.cursor_row * VGA_COLS + con.cursor_col] = ch,
                              !.cursor_col = @ + 1]

\* The character, then the wrap, then the scroll.
arch_console_putc(con, ch) ==
    LET put  == Advance(con, ch)
        wrap == IF put.cursor_col >= VGA_COLS THEN Newline(put) ELSE put
    IN  IF wrap.cursor_row >= VGA_ROWS THEN scroll(wrap) ELSE wrap

\* The string, character by character.
console_puts(con, s) ==
    LET after[k \in 0 .. Len(s)] ==
          IF k = 0 THEN con ELSE arch_console_putc(after[k - 1], s[k])
    IN  after[Len(s)]
=============================================================================
