-------------------------------- MODULE Heap --------------------------------
(***************************************************************************)
(* The kernel heap (mm/heap.c) on top of pmm_alloc_frames.  A block is     *)
(* keyed by the address of its header; `arenas' is the arena list, newest  *)
(* first.  Blocks of an arena are chained in address order, so "first in   *)
(* the chain that fits" is "lowest address that fits" (Tiling shows that   *)
(* the chain is in that order).                                            *)
(***************************************************************************)
EXTENDS Integers, Sequences, FiniteSets, Functions

CONSTANTS
    PMM_FRAME_SIZE,         \* 4096
    HEAP_MIN_ARENA_FRAMES,  \* 16
    HEAP_ALIGN,             \* 8
    BLOCK_HDR,              \* sizeof(heap_block_t), 24
    ARENA_HDR,              \* sizeof(heap_arena_t), 24
    TotalFrames,            \* frames 1 .. TotalFrames - 1 may be handed out
    Sizes                   \* sizes callers ask for

ASSUME HeapAssumption ==
    /\ {PMM_FRAME_SIZE, HEAP_MIN_ARENA_FRAMES, HEAP_ALIGN, BLOCK_HDR, ARENA_HDR,
        TotalFrames} \subseteq Nat \ {0}
    /\ BLOCK_HDR % HEAP_ALIGN = 0
    /\ ARENA_HDR % HEAP_ALIGN = 0
    /\ PMM_FRAME_SIZE % HEAP_ALIGN = 0
    /\ ARENA_HDR + BLOCK_HDR <= HEAP_MIN_ARENA_FRAMES * PMM_FRAME_SIZE
    /\ Sizes \subseteq Nat

NULL == 0

VARIABLES
    up,       \* heap_init has run
    arenas,   \* sequence of [base, frame_count]
    blocks,   \* header address -> [size, free, next]
    other,    \* frames other users of the PMM hold
    live      \* history: pointer handed out -> size asked for

vars == <<up, arenas, blocks, other, live>>

\* Function f with the value v stored at x.
Store(f, x, v) == [y \in DOMAIN f \cup {x} |-> IF y = x THEN v ELSE f[y]]

align_up(n, a) == ((n + a - 1) \div a) * a

first_block(arena) == arena.base + ARENA_HDR
ArenaEnd(arena)    == arena.base + arena.frame_count * PMM_FRAME_SIZE
BlockEnd(b)        == b + BLOCK_HDR + blocks[b].size
InArena(arena)     == {b \in DOMAIN blocks : arena.base <= b /\ b < ArenaEnd(arena)}

ArenaFrames(arena) ==
    LET f == arena.base \div PMM_FRAME_SIZE IN f .. f + arena.frame_count - 1

FreeFrames ==
    (1 .. TotalFrames - 1)
      \ (other \cup UNION {ArenaFrames(arenas[i]) : i \in DOMAIN arenas})

-----------------------------------------------------------------------------
Init ==
    /\ up = FALSE
    /\ arenas = << >>
    /\ blocks = << >>
    /\ other = {}
    /\ live = << >>

\* pmm_alloc_frames(n): the lowest run of n free frames (theorem ScanCorrect).
LowestRun(f, n) ==
    /\ f .. f + n - 1 \subseteq FreeFrames
    /\ \A g \in FreeFrames : g .. g + n - 1 \subseteq FreeFrames => f <= g

FramesFor(min_bytes) ==
    LET needed == ARENA_HDR + BLOCK_HDR + min_bytes
        frames == (needed + PMM_FRAME_SIZE - 1) \div PMM_FRAME_SIZE
    IN  IF frames < HEAP_MIN_ARENA_FRAMES THEN HEAP_MIN_ARENA_FRAMES ELSE frames

\* The blocks of a heap that has just received an arena at frame f.
WithArena(f, n) ==
    LET base == f * PMM_FRAME_SIZE
    IN  Store(blocks, base + ARENA_HDR,
              [size |-> n * PMM_FRAME_SIZE - ARENA_HDR - BLOCK_HDR,
               free |-> TRUE, next |-> NULL])

\* Mutant of alloc_from_block: the split block is not charged its header.
SplitForgetsHeader(bs, b, size) ==
    LET remainder == bs[b].size - size
        split     == b + BLOCK_HDR + size
    IN  IF remainder > BLOCK_HDR + HEAP_ALIGN
        THEN Store(Store(bs, split, [size |-> remainder, free |-> TRUE,
                                     next |-> bs[b].next]),
                   b, [size |-> size, free |-> FALSE, next |-> split])
        ELSE [bs EXCEPT ![b].free = FALSE]

\* Take block b for `size' bytes; split off the rest when it is worth it.
alloc_from_block(bs, b, size) ==
    LET remainder == bs[b].size - size
        split     == b + BLOCK_HDR + size
    IN  IF remainder > BLOCK_HDR + HEAP_ALIGN
        THEN Store(Store(bs, split, [size |-> remainder - BLOCK_HDR, free |-> TRUE,
                                     next |-> bs[b].next]),
                   b, [size |-> size, free |-> FALSE, next |-> split])
        ELSE [bs EXCEPT ![b].free = FALSE]

\* The first fitting block: newest arena first, then lowest address.
Fits(b, aligned) == blocks[b].free /\ blocks[b].size >= aligned

FirstFit(b, aligned) ==
    \E i \in DOMAIN arenas :
      /\ b \in InArena(arenas[i]) /\ Fits(b, aligned)
      /\ \A c \in InArena(arenas[i]) : Fits(c, aligned) => b <= c
      /\ \A j \in 1 .. i - 1 : \A c \in InArena(arenas[j]) : ~Fits(c, aligned)

NoFit(aligned) == \A b \in DOMAIN blocks : ~Fits(b, aligned)

NoRun(n) == \A f \in FreeFrames : ~LowestRun(f, n)

\* A first arena, if the PMM has the frames; the result is not looked at.
heap_init ==
    /\ ~up /\ up' = TRUE
    /\ \/ \E f \in FreeFrames :
            /\ LowestRun(f, FramesFor(0))
            /\ arenas' = <<[base |-> f * PMM_FRAME_SIZE, frame_count |-> FramesFor(0)]>>
            /\ blocks' = WithArena(f, FramesFor(0))
       \/ NoRun(FramesFor(0)) /\ UNCHANGED <<arenas, blocks>>
    /\ UNCHANGED <<other, live>>

\* The number of bytes kmalloc looks for.
Aligned(size) == align_up(size, HEAP_ALIGN)

\* kmalloc served from a block that exists.
kmalloc_fit(size) ==
    /\ up /\ size # 0
    /\ \E b \in DOMAIN blocks :
         /\ FirstFit(b, Aligned(size))
         /\ blocks' = alloc_from_block(blocks, b, Aligned(size))
         /\ live' = Store(live, b + BLOCK_HDR, size)
    /\ UNCHANGED <<up, arenas, other>>

\* kmalloc that has to grow the heap; with no run of frames it returns NULL
\* and changes nothing.
kmalloc_grow(size) ==
    /\ up /\ size # 0
    /\ NoFit(Aligned(size))
    /\ LET n == FramesFor(Aligned(size))
       IN  \E f \in FreeFrames :
             /\ LowestRun(f, n)
             /\ LET arena == [base |-> f * PMM_FRAME_SIZE, frame_count |-> n]
                    b     == first_block(arena)
                IN  /\ arenas' = <<arena>> \o arenas
                    /\ blocks' = alloc_from_block(WithArena(f, n), b, Aligned(size))
                    /\ live' = Store(live, b + BLOCK_HDR, size)
    /\ UNCHANGED <<up, other>>

\* Mutant of kfree: the next block is merged whether or not it is free.
FreeMergesAlways(ptr) ==
    /\ ptr \in DOMAIN live
    /\ LET b == ptr - BLOCK_HDR
           n == blocks[b].next
       IN  blocks' = IF n # NULL
                     THEN [Restrict(blocks, DOMAIN blocks \ {n}) EXCEPT
                             ![b] = [size |-> @.size + BLOCK_HDR + blocks[n].size,
                                     free |-> TRUE, next |-> blocks[n].next]]
                     ELSE [blocks EXCEPT ![b].free = TRUE]
    /\ live' = Restrict(live, DOMAIN live \ {ptr})
    /\ UNCHANGED <<up, arenas, other>>

\* Mark the block free and merge it with the next one, forwards only.
kfree(ptr) ==
    /\ ptr \in DOMAIN live
    /\ LET b == ptr - BLOCK_HDR
           n == blocks[b].next
       IN  blocks' = IF n # NULL /\ blocks[n].free
                     THEN [Restrict(blocks, DOMAIN blocks \ {n}) EXCEPT
                             ![b] = [size |-> @.size + BLOCK_HDR + blocks[n].size,
                                     free |-> TRUE, next |-> blocks[n].next]]
                     ELSE [blocks EXCEPT ![b].free = TRUE]
    /\ live' = Restrict(live, DOMAIN live \ {ptr})
    /\ UNCHANGED <<up, arenas, other>>

\* Page tables, DMA rings and program pages come and go next to the heap.
OtherAlloc ==
    /\ \E f \in FreeFrames : LowestRun(f, 1) /\ other' = other \cup {f}
    /\ UNCHANGED <<up, arenas, blocks, live>>

OtherFree ==
    /\ \E f \in other : other' = other \ {f}
    /\ UNCHANGED <<up, arenas, blocks, live>>

Next ==
    \/ heap_init
    \/ \E size \in Sizes : kmalloc_fit(size)
    \/ \E size \in Sizes : kmalloc_grow(size)
    \/ \E ptr \in DOMAIN live : kfree(ptr)
    \/ OtherAlloc
    \/ OtherFree

Spec == Init /\ [][Next]_vars

-----------------------------------------------------------------------------
\* The chain of an arena tiles it: each block ends where the next one's header
\* begins and the last one ends where the arena ends, after any sequence of
\* splits and one-sided merges.  No byte is lost and none belongs to two blocks;
\* headers and sizes are HEAP_ALIGN aligned, and so is every pointer.
Tiling ==
    /\ \A b \in DOMAIN blocks : b % HEAP_ALIGN = 0 /\ blocks[b].size % HEAP_ALIGN = 0
    /\ \A i \in DOMAIN arenas :
         /\ first_block(arenas[i]) \in DOMAIN blocks
         /\ \A b \in InArena(arenas[i]) :
              IF blocks[b].next = NULL
              THEN BlockEnd(b) = ArenaEnd(arenas[i])
              ELSE blocks[b].next = BlockEnd(b) /\ BlockEnd(b) \in InArena(arenas[i])
         /\ \A b \in InArena(arenas[i]) \ {first_block(arenas[i])} :
              \E c \in InArena(arenas[i]) : blocks[c].next = b
    /\ \A b \in DOMAIN blocks : \E i \in DOMAIN arenas : b \in InArena(arenas[i])

\* Memory handed out and not yet freed is whole and private: it lies in one
\* block that is not free, no header and no other allocation overlaps it, and
\* no other user of the PMM holds a frame of it.
LiveIsPrivate ==
    \A p \in DOMAIN live :
      LET lo == p
          hi == p + live[p]
      IN  /\ p - BLOCK_HDR \in DOMAIN blocks
          /\ ~blocks[p - BLOCK_HDR].free
          /\ hi <= BlockEnd(p - BLOCK_HDR)
          /\ \A b \in DOMAIN blocks : b + BLOCK_HDR <= lo \/ hi <= b
          /\ \A i \in DOMAIN arenas : arenas[i].base + ARENA_HDR <= lo \/ hi <= arenas[i].base
          /\ \A q \in DOMAIN live \ {p} : q + live[q] <= lo \/ hi <= q
          /\ \A f \in other : (f + 1) * PMM_FRAME_SIZE <= lo \/ hi <= f * PMM_FRAME_SIZE
=============================================================================
