------------------------------ MODULE MCMouse ------------------------------
(***************************************************************************)
(* A 3 by 3 screen.  0x09 opens a packet with the left button down, 0x38   *)
(* one with both signs negative, 0xFE is -2 there and has the              *)
(* synchronisation bit too, 0x01 has not.                                  *)
(***************************************************************************)
EXTENDS Mouse

MC_Bytes == {1, 9, 56, 254}
=============================================================================
