------------------------------ MODULE Keyboard ------------------------------
(***************************************************************************)
(* The PS/2 keyboard (arch/x86_64/drivers/keyboard.c): the IRQ 1 handler   *)
(* fills a ring of KB_BUF_SIZE characters, keyboard_getchar empties it.    *)
(* The handler runs with interrupts off, in one step; the reader takes one *)
(* shared access per step, so the handler may strike between any two.      *)
(***************************************************************************)
EXTENDS Integers, Sequences

CONSTANTS
    KB_BUF_SIZE,           \* 256
    Chars,                 \* characters the tables produce
    NoChar,                \* '\0'
    Make,                  \* codes below 0x80 that are not a shift key
    scancode_ascii,        \* Make -> Chars \cup {NoChar}
    scancode_ascii_shift

ASSUME KeyboardAssumption ==
    /\ KB_BUF_SIZE \in Nat /\ KB_BUF_SIZE >= 2
    /\ NoChar \notin Chars
    /\ scancode_ascii \in [Make -> Chars \cup {NoChar}]
    /\ scancode_ascii_shift \in [Make -> Chars \cup {NoChar}]

VARIABLES
    buf, buf_head, buf_tail, shift_held,
    pc,         \* reader: "test", "load", "advance"
    c,          \* keyboard_getchar's local
    extended,   \* history: the last byte was the 0xE0 prefix
    out, lost   \* history: last character returned; last push was dropped

vars == <<buf, buf_head, buf_tail, shift_held, pc, c, extended, out, lost>>
ring == <<buf, buf_head, buf_tail>>

Slots == 0 .. KB_BUF_SIZE - 1

Init ==
    /\ buf = [s \in Slots |-> NoChar]
    /\ buf_head = 0
    /\ buf_tail = 0
    /\ shift_held = FALSE
    /\ pc = "test"
    /\ c = NoChar
    /\ extended = FALSE
    /\ out = NoChar
    /\ lost = FALSE

-----------------------------------------------------------------------------
(* keyboard_irq, by the byte read from the data port.                      *)

\* Left or right shift, pressed or released.
ShiftIrq(down) ==
    /\ shift_held' = down
    /\ extended' = FALSE
    /\ UNCHANGED <<ring, pc, c, out, lost>>

\* A byte with bit 7 set: the release of another key, or the 0xE0 prefix.
HighIrq(prefix) ==
    /\ extended' = prefix
    /\ UNCHANGED <<ring, shift_held, pc, c, out, lost>>

\* Mutant of buf_push: a full ring gives up its oldest character.
PushOverwrites(ch) ==
    LET next == (buf_head + 1) % KB_BUF_SIZE
    IN  /\ buf' = [buf EXCEPT ![buf_head] = ch]
        /\ buf_head' = next
        /\ buf_tail' = IF next = buf_tail THEN (buf_tail + 1) % KB_BUF_SIZE ELSE buf_tail
        /\ lost' = FALSE

\* One slot stays empty, to tell a full ring from an empty one.
buf_push(ch) ==
    LET next == (buf_head + 1) % KB_BUF_SIZE
    IN  IF next = buf_tail
        THEN lost' = TRUE /\ UNCHANGED ring
        ELSE /\ buf' = [buf EXCEPT ![buf_head] = ch]
             /\ buf_head' = next
             /\ lost' = FALSE
             /\ UNCHANGED buf_tail

\* Any other code: looked up in the table the shift state selects.
KeyIrq(sc) ==
    LET ch == IF shift_held THEN scancode_ascii_shift[sc] ELSE scancode_ascii[sc]
    IN  /\ IF ch # NoChar THEN buf_push(ch) ELSE UNCHANGED <<ring, lost>>
        /\ extended' = FALSE
        /\ UNCHANGED <<shift_held, pc, c, out>>

-----------------------------------------------------------------------------
(* keyboard_getchar, called again and again by the idle loop.              *)

\* Mutant of GetTest: a ring with one character in it counts as empty.
GetTestLate ==
    /\ pc = "test"
    /\ buf_tail # buf_head /\ (buf_tail + 1) % KB_BUF_SIZE # buf_head
    /\ pc' = "load"
    /\ UNCHANGED <<ring, shift_held, c, extended, out, lost>>

\* buf_tail == buf_head returns 0; the caller comes back.
GetTest ==
    /\ pc = "test"
    /\ buf_tail # buf_head
    /\ pc' = "load"
    /\ UNCHANGED <<ring, shift_held, c, extended, out, lost>>

GetLoad ==
    /\ pc = "load"
    /\ c' = buf[buf_tail]
    /\ pc' = "advance"
    /\ UNCHANGED <<ring, shift_held, extended, out, lost>>

GetAdvance ==
    /\ pc = "advance"
    /\ buf_tail' = (buf_tail + 1) % KB_BUF_SIZE
    /\ out' = c
    /\ pc' = "test"
    /\ UNCHANGED <<buf, buf_head, shift_held, c, extended, lost>>

keyboard_getchar == GetTest \/ GetLoad \/ GetAdvance

keyboard_irq ==
    \/ \E down \in BOOLEAN : ShiftIrq(down)
    \/ \E prefix \in BOOLEAN : HighIrq(prefix)
    \/ \E sc \in Make : KeyIrq(sc)

Next == keyboard_getchar \/ keyboard_irq

\* The idle loop calls keyboard_getchar for ever; between two interrupts it
\* makes progress.
Spec == Init /\ [][Next]_vars /\ WF_vars(keyboard_getchar)

-----------------------------------------------------------------------------
\* Number of characters in a ring with these indices, the slot of the one
\* with i ahead of it, and the characters, oldest first.
Waiting(h, t) == IF t <= h THEN h - t ELSE KB_BUF_SIZE - t + h

SlotAt(t, i) == IF t + i < KB_BUF_SIZE THEN t + i ELSE t + i - KB_BUF_SIZE

Contents(b, h, t) == [i \in 1 .. Waiting(h, t) |-> b[SlotAt(t, i - 1)]]

Queue == Contents(buf, buf_head, buf_tail)

F == INSTANCE Fifo WITH q <- Queue, Capacity <- KB_BUF_SIZE - 1

\* The indices stay in the ring and a reader past its test has something to read.
TypeOK ==
    /\ buf \in [Slots -> Chars \cup {NoChar}]
    /\ buf_head \in Slots /\ buf_tail \in Slots
    /\ shift_held \in BOOLEAN /\ extended \in BOOLEAN /\ lost \in BOOLEAN
    /\ pc \in {"test", "load", "advance"}
    /\ c \in Chars \cup {NoChar} /\ out \in Chars \cup {NoChar}
    /\ pc # "test" => buf_tail # buf_head

\* The ring is a first-in first-out queue of KB_BUF_SIZE - 1 characters however
\* the handler interrupts the reader: no character is overwritten, returned
\* twice or out of order, and one is dropped only when the queue is full.
ImplementsFifo == F!FifoSafety

\* With the idle loop running, a character that was accepted is returned.
Delivers == F!Drains
=============================================================================
