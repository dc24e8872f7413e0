------------------------------- MODULE MCPmm -------------------------------
(***************************************************************************)
(* Small instances of PmmAlloc.  A frame is 4 bytes, a bitmap byte has 2   *)
(* bits, so that the bitmap of 16 frames fills exactly two frames.         *)
(***************************************************************************)
EXTENDS PmmAlloc

Entry(a, l, av) == [addr |-> a, len |-> l, available |-> av]

\* The first map has low RAM, an entry that is not RAM, two extents that
\* overlap, the last clamped, and one extent too many for the array; the
\* second ends inside a frame; the third leaves no whole frame at all.
MC_MemoryMaps ==
    { << Entry(0, 12, TRUE), Entry(16, 20, TRUE), Entry(40, 16, FALSE),
         Entry(28, 50, TRUE), Entry(4, 20, TRUE) >>,
      << Entry(0, 35, TRUE), Entry(64, 16, FALSE) >>,
      << Entry(2, 7, TRUE), Entry(96, 8, TRUE) >> }

\* The bitmap of 16 frames ends on a frame boundary, or two bytes into the
\* frame (the frame after the ones it fills, or the last of them).
MC_KernelImages == { <<16, 24>>, <<20, 24>>, <<16, 26>>, <<20, 22>> }

\* Nothing is claimed after an owner has written over the bitmap.
Intact == ~clobbered
============================================================================
