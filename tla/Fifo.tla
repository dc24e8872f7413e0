-------------------------------- MODULE Fifo --------------------------------
(***************************************************************************)
(* What a keyboard buffer promises: characters come out in the order they  *)
(* went in, none twice, and a character is turned away only when Capacity  *)
(* of them are waiting.                                                    *)
(***************************************************************************)
EXTENDS Naturals, Sequences

CONSTANTS Chars, Capacity

VARIABLES
    q,      \* characters accepted and not yet returned
    out,    \* the last character returned
    lost    \* the last character offered was turned away

fifo == <<q, out, lost>>

FifoInit ==
    /\ q = << >>
    /\ out \notin Chars
    /\ lost = FALSE

Put(c) ==
    /\ IF Len(q) < Capacity
       THEN q' = Append(q, c) /\ lost' = FALSE
       ELSE q' = q /\ lost' = TRUE
    /\ UNCHANGED out

Get ==
    /\ q # << >>
    /\ out' = Head(q)
    /\ q' = Tail(q)
    /\ UNCHANGED lost

FifoNext == Get \/ \E c \in Chars : Put(c)

FifoSafety == FifoInit /\ [][FifoNext]_fifo

\* A waiting character is returned in the end.
Drains == WF_fifo(Get)

FifoSpec == FifoSafety /\ Drains
=============================================================================
