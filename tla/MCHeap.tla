------------------------------- MODULE MCHeap -------------------------------
(***************************************************************************)
(* Frames of 8 bytes, headers of 2, arenas of at least 2 frames: 12 usable *)
(* bytes.  Sizes 1 and 4 split, 9 leaves too little to split, 13 needs an  *)
(* arena of three frames.                                                  *)
(***************************************************************************)
EXTENDS Heap

CONSTANT MaxLive    \* bound on allocations held at one time

MC_Sizes == {0, 1, 4, 9, 13}

FewLive == Cardinality(DOMAIN live) <= MaxLive
=============================================================================
