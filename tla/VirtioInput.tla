----------------------------- MODULE VirtioInput -----------------------------
(***************************************************************************)
(* virtio_input.c on top of the event queue of Virtqueue: the idle loop    *)
(* calls virtio_keyboard_getchar or virtio_mouse_get_state, which handles  *)
(* every event that is there and then returns.  The device works on        *)
(* between any two accesses to the rings.  The keyboard and the mouse have *)
(* a queue and a state of their own; a behaviour follows one of them.      *)
(***************************************************************************)
EXTENDS Virtqueue

CONSTANTS
    KeyEvents, MouseEvents, \* [type, code, value]; together Events
    KB_BUF_SIZE,
    plain, shifted,         \* code -> character, 0 for none; other codes
                            \* are outside the tables
    Shifts,                 \* KEY_LEFTSHIFT, KEY_RIGHTSHIFT
    Width, Height,          \* of the framebuffer, 0 when there is none
    MaxEvents               \* bound on the events of a behaviour

ASSUME VirtioInputAssumption ==
    /\ Events = KeyEvents \cup MouseEvents
    /\ KB_BUF_SIZE \in Nat \ {0, 1}
    /\ DOMAIN plain = DOMAIN shifted /\ Shifts \cap DOMAIN plain = {}
    /\ Width \in Nat /\ Height \in Nat /\ MaxEvents \in Nat

VARIABLES
    which,          \* the device: "keyboard" or "mouse"
    fresh,          \* the event in out is not yet handled
    kb_buf, kb_head, kb_tail, shift_held,
    mouse_x, mouse_y, mouse_buttons, mouse_dirty,
    events,         \* history: every event of the device
    got, dropped,   \* history: characters returned; one found the buffer full
    seen            \* history: the mouse state last handed out

kb    == <<kb_buf, kb_head, kb_tail, shift_held, got, dropped>>
mouse == <<mouse_x, mouse_y, mouse_buttons, mouse_dirty, seen>>
input == <<which, fresh, kb, mouse, events>>

State == [x |-> mouse_x, y |-> mouse_y, b |-> mouse_buttons]

InputInit ==
    /\ Init
    /\ which \in {"keyboard", "mouse"} /\ fresh = FALSE
    /\ kb_buf = [s \in 0 .. KB_BUF_SIZE - 1 |-> 0] /\ kb_head = 0 /\ kb_tail = 0
    /\ shift_held = FALSE
    /\ mouse_x = Width \div 2 /\ mouse_y = Height \div 2
    /\ mouse_buttons = {} /\ mouse_dirty = FALSE
    /\ events = << >> /\ got = << >> /\ dropped = FALSE /\ seen = State

-----------------------------------------------------------------------------
(* Keyboard events.                                                        *)

\* Mutant of kb_push: the test is made without the wrap.
kb_push_late(c) ==
    IF c = 0 \/ kb_head + 1 = kb_tail
    THEN UNCHANGED <<kb_buf, kb_head>> /\ dropped' = (dropped \/ c # 0)
    ELSE /\ kb_buf' = [kb_buf EXCEPT ![kb_head] = c]
         /\ kb_head' = (kb_head + 1) % KB_BUF_SIZE
         /\ UNCHANGED dropped

\* A key without a character is not pushed; a full buffer drops the new one.
kb_push(c) ==
    IF c = 0 \/ (kb_head + 1) % KB_BUF_SIZE = kb_tail
    THEN UNCHANGED <<kb_buf, kb_head>> /\ dropped' = (dropped \/ c # 0)
    ELSE /\ kb_buf' = [kb_buf EXCEPT ![kb_head] = c]
         /\ kb_head' = (kb_head + 1) % KB_BUF_SIZE
         /\ UNCHANGED dropped

\* The character an event stands for, 0 for none.
Char(shift, e) ==
    IF e.value = 0 \/ e.code \notin DOMAIN plain THEN 0
    ELSE IF shift THEN shifted[e.code] ELSE plain[e.code]

handle_kbd_event(e) ==
    /\ \/ e.type # "key" /\ UNCHANGED <<kb_buf, kb_head, shift_held, dropped>>
       \/ /\ e.type = "key" /\ e.code \in Shifts
          /\ shift_held' = (e.value # 0)
          /\ UNCHANGED <<kb_buf, kb_head, dropped>>
       \/ /\ e.type = "key" /\ e.code \notin Shifts
          /\ kb_push(Char(shift_held, e))
          /\ UNCHANGED shift_held
    /\ UNCHANGED <<kb_tail, got>>

-----------------------------------------------------------------------------
(* Mouse events.                                                           *)

Clamp(v, size) == IF v < 0 THEN 0
                  ELSE IF size > 0 /\ v > size - 1 THEN size - 1 ELSE v

Move(e) ==
    /\ mouse_x' = Clamp(IF e.code = "x" THEN mouse_x + e.value ELSE mouse_x, Width)
    /\ mouse_y' = Clamp(IF e.code = "y" THEN mouse_y + e.value ELSE mouse_y, Height)
    /\ mouse_dirty' = TRUE
    /\ UNCHANGED mouse_buttons

\* Mutant of Press: a button does not make the state new.
PressSilent(e) ==
    /\ mouse_buttons' = IF e.value # 0 THEN mouse_buttons \cup {e.code}
                        ELSE mouse_buttons \ {e.code}
    /\ UNCHANGED <<mouse_x, mouse_y, mouse_dirty>>

Press(e) ==
    /\ mouse_buttons' = IF e.value # 0 THEN mouse_buttons \cup {e.code}
                        ELSE mouse_buttons \ {e.code}
    /\ mouse_dirty' = TRUE
    /\ UNCHANGED <<mouse_x, mouse_y>>

\* Motions of other axes, other buttons and EV_SYN change nothing.
handle_mouse_event(e) ==
    /\ CASE e.type = "rel" /\ e.code \in {"x", "y"} -> Move(e)
         [] e.type = "key" /\ e.code \in {"left", "right", "middle"} -> Press(e)
         [] OTHER -> UNCHANGED <<mouse_x, mouse_y, mouse_buttons, mouse_dirty>>
    /\ UNCHANGED seen

-----------------------------------------------------------------------------
(* The loop of the two calls: poll_event, then the handler, until there is *)
(* nothing; then the call returns.                                         *)

PollEvent ==
    /\ ~fresh
    /\ \/ (SeedDesc \/ PollTest \/ PollElem) /\ UNCHANGED input
       \/ Copy /\ fresh' = TRUE /\ UNCHANGED <<which, kb, mouse, events>>

Recycle == (PublishRing \/ PublishIdx) /\ UNCHANGED input

Handle ==
    /\ pc = "poll" /\ fresh
    /\ fresh' = FALSE
    /\ \/ which = "keyboard" /\ handle_kbd_event(out) /\ UNCHANGED mouse
       \/ which = "mouse" /\ handle_mouse_event(out) /\ UNCHANGED kb
    /\ UNCHANGED <<driver, device, bufs, which, events>>

NothingThere == pc = "poll" /\ ~fresh /\ used_idx = used_seen

virtio_keyboard_getchar ==
    /\ NothingThere /\ which = "keyboard"
    /\ \/ kb_tail = kb_head /\ UNCHANGED <<got, kb_tail>>     \* returns 0
       \/ /\ kb_tail # kb_head
          /\ got' = Append(got, kb_buf[kb_tail])
          /\ kb_tail' = (kb_tail + 1) % KB_BUF_SIZE
    /\ UNCHANGED <<vars, which, fresh, mouse, events, kb_buf, kb_head, shift_held, dropped>>

virtio_mouse_get_state ==
    /\ NothingThere /\ which = "mouse"
    /\ seen' = IF mouse_dirty THEN State ELSE seen            \* else returns false
    /\ mouse_dirty' = FALSE
    /\ UNCHANGED <<vars, which, fresh, kb, events, mouse_x, mouse_y, mouse_buttons>>

\* The device fills a buffer with its next event.
Happens(e) ==
    /\ Len(events) < MaxEvents
    /\ DeviceFill(e)
    /\ events' = Append(events, e)
    /\ UNCHANGED <<which, fresh, kb, mouse>>

Announce == (DeviceElem \/ DeviceIdx) /\ UNCHANGED input

IdleLoop == PollEvent \/ Recycle \/ Handle \/ virtio_keyboard_getchar \/ virtio_mouse_get_state

InputNext ==
    \/ IdleLoop \/ Announce
    \/ \E e \in (IF which = "keyboard" THEN KeyEvents ELSE MouseEvents) : Happens(e)

\* The idle loop polls for ever; the device completes what it has started.
InputSpec == InputInit /\ [][InputNext]_<<vars, input>>
               /\ WF_<<vars, input>>(IdleLoop) /\ WF_<<vars, input>>(Announce)

-----------------------------------------------------------------------------
\* Events of the device the handlers have not seen, oldest first.
Unhandled ==
    (IF fresh THEN <<out>> ELSE << >>) \o Queue
      \o (IF dev.at = "idle" THEN << >> ELSE <<bufs[desc[dev.id]]>>)

\* What one more event makes of the shift state and the text typed so far.
Type(r, e) ==
    IF e.type # "key" THEN r
    ELSE IF e.code \in Shifts THEN [r EXCEPT !.shift = e.value # 0]
    ELSE IF Char(r.shift, e) = 0 THEN r
    ELSE [r EXCEPT !.text = Append(@, Char(r.shift, e))]

\* The shift state and the text after each prefix of a sequence of events.
Reading(shift, s) ==
    LET r[n \in 0 .. Len(s)] ==
          IF n = 0 THEN [shift |-> shift, text |-> << >>] ELSE Type(r[n - 1], s[n])
    IN  r

\* The characters a sequence of events types, starting with that shift state.
Typed(shift, s) == Reading(shift, s)[Len(s)].text

Waiting == [k \in 1 .. (kb_head - kb_tail + KB_BUF_SIZE) % KB_BUF_SIZE |->
              kb_buf[(kb_tail + k - 1) % KB_BUF_SIZE]]

\* As long as the buffer has not overflowed, what was returned, what waits in
\* the buffer and what the events on their way will add make up exactly the
\* text typed: shift applies to the keys pressed while it was held, however
\* late they are polled and whatever buffer they came in.
TextExact ==
    (which = "keyboard" /\ ~dropped) =>
      got \o Waiting \o Typed(shift_held, Unhandled) = Typed(FALSE, events)

\* When get_state would answer false the caller has the latest state
\* (include/arch/arch.h:30-31): no event is handled without being reported.
FalseMeansNothingNew == (NothingThere /\ ~mouse_dirty) => seen = State
=============================================================================
