---------------------------- MODULE MCVirtioInput ----------------------------
(***************************************************************************)
(* One printable key, pressed with and without shift, and one without a    *)
(* character; a buffer that holds two characters.  A 3 x 2 screen, motions *)
(* that cross it, one button.                                              *)
(***************************************************************************)
EXTENDS VirtioInput

Ev(t, c, v) == [type |-> t, code |-> c, value |-> v]

MC_KeyEvents   == {Ev("key", "a", 1), Ev("key", "a", 0), Ev("key", "f1", 1),
                   Ev("key", "shift", 1), Ev("key", "shift", 0)}
MC_MouseEvents == {Ev("rel", "x", -2), Ev("rel", "y", 2), Ev("rel", "wheel", 1),
                   Ev("key", "left", 1), Ev("key", "left", 0), Ev("syn", "x", 0)}
MC_Events      == MC_KeyEvents \cup MC_MouseEvents
MC_plain       == [c \in {"a", "f1"} |-> IF c = "a" THEN 97 ELSE 0]
MC_shifted     == [c \in {"a", "f1"} |-> IF c = "a" THEN 65 ELSE 0]
=============================================================================
