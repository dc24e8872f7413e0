------------------------------- MODULE Mouse -------------------------------
(***************************************************************************)
(* The PS/2 mouse (arch/x86_64/drivers/mouse.c): the IRQ 12 handler        *)
(* assembles three-byte packets and moves the pointer; mouse_get_state     *)
(* copies the pointer out, one shared access per step, and the handler may *)
(* strike between any two of them.                                         *)
(***************************************************************************)
EXTENDS Integers, Sequences

CONSTANTS
    Width, Height,  \* fb_width(), fb_height(); 0 without a framebuffer
    Bytes,          \* bytes the device may send
    Far             \* bound on a coordinate no screen edge limits

VARIABLES
    mouse_x, mouse_y, mouse_buttons, state_dirty,
    packet,         \* bytes collected; packet_index is its length
    pc,             \* reader: "test", "x", "y", "buttons", "clear"
    out,            \* the caller's x, y, buttons
    seen            \* history: what the last call that returned true reported

vars == <<mouse_x, mouse_y, mouse_buttons, state_dirty, packet, pc, out, seen>>

State == [x |-> mouse_x, y |-> mouse_y, b |-> mouse_buttons]

Bit(byte, n) == (byte \div 2^n) % 2 = 1

\* mouse_init: the pointer starts in the middle; the handler is installed last.
Init ==
    /\ mouse_x = Width \div 2
    /\ mouse_y = Height \div 2
    /\ mouse_buttons = 0
    /\ state_dirty = FALSE
    /\ packet = << >>
    /\ pc = "test"
    /\ out = [x |-> 0, y |-> 0, b |-> 0]
    /\ seen = State

-----------------------------------------------------------------------------
\* Keep a coordinate on the screen; without a screen there is no upper edge.
Clamp(v, size) ==
    LET low == IF v < 0 THEN 0 ELSE v
    IN  IF size - 1 >= 0 /\ low > size - 1 THEN size - 1 ELSE low

\* A byte that cannot open a packet is dropped.
IrqDropped(data) ==
    /\ packet = << >>
    /\ ~Bit(data, 3)
    /\ UNCHANGED vars

\* First and second byte of a packet.
IrqCollect(data) ==
    /\ packet = << >> => Bit(data, 3)
    /\ Len(packet) < 2
    /\ packet' = Append(packet, data)
    /\ UNCHANGED <<mouse_x, mouse_y, mouse_buttons, state_dirty, pc, out, seen>>

\* The third byte: two 9-bit two's complement deltas, Y upwards, and buttons.
IrqPacket(data) ==
    /\ Len(packet) = 2
    /\ LET dx == packet[2] - (IF Bit(packet[1], 4) THEN 256 ELSE 0)
           dy == data - (IF Bit(packet[1], 5) THEN 256 ELSE 0)
       IN  /\ mouse_x + dx <= Far /\ mouse_y - dy <= Far
           /\ mouse_x' = Clamp(mouse_x + dx, Width)
           /\ mouse_y' = Clamp(mouse_y - dy, Height)
    /\ mouse_buttons' = packet[1] % 8
    /\ state_dirty' = TRUE
    /\ packet' = << >>
    /\ UNCHANGED <<pc, out, seen>>

mouse_irq(data) == IrqDropped(data) \/ IrqCollect(data) \/ IrqPacket(data)

-----------------------------------------------------------------------------
\* With nothing new the call returns false and the caller comes back.
GetTest ==
    /\ pc = "test" /\ state_dirty
    /\ pc' = "x"
    /\ UNCHANGED <<mouse_x, mouse_y, mouse_buttons, state_dirty, packet, out, seen>>

GetX ==
    /\ pc = "x" /\ pc' = "y"
    /\ out' = [out EXCEPT !.x = mouse_x]
    /\ UNCHANGED <<mouse_x, mouse_y, mouse_buttons, state_dirty, packet, seen>>

GetY ==
    /\ pc = "y" /\ pc' = "buttons"
    /\ out' = [out EXCEPT !.y = mouse_y]
    /\ UNCHANGED <<mouse_x, mouse_y, mouse_buttons, state_dirty, packet, seen>>

GetButtons ==
    /\ pc = "buttons" /\ pc' = "clear"
    /\ out' = [out EXCEPT !.b = mouse_buttons]
    /\ UNCHANGED <<mouse_x, mouse_y, mouse_buttons, state_dirty, packet, seen>>

GetClear ==
    /\ pc = "clear" /\ pc' = "test"
    /\ state_dirty' = FALSE
    /\ seen' = out
    /\ UNCHANGED <<mouse_x, mouse_y, mouse_buttons, packet, out>>

mouse_get_state == GetTest \/ GetX \/ GetY \/ GetButtons \/ GetClear

Next == mouse_get_state \/ \E data \in Bytes : mouse_irq(data)

Spec == Init /\ [][Next]_vars

-----------------------------------------------------------------------------
\* "Returns false ... if there's nothing new" (include/arch/arch.h:30-31): when
\* a call would return false, what the last call reported is still the state.
FalseMeansNothingNew == (pc = "test" /\ ~state_dirty) => seen = State
=============================================================================
