----------------------------- MODULE HeapProofs -----------------------------
(***************************************************************************)
(* The kernel heap for every frame size, header size and request.  The     *)
(* shape of the heap is a relation between the set of arenas and the       *)
(* blocks; one lemma per change the code makes to the chain (a new arena,  *)
(* a split, a merge, a flag) shows that the shape survives it.             *)
(***************************************************************************)
EXTENDS Heap, TLAPS

-----------------------------------------------------------------------------
(* The shape of the heap.                                                  *)

ArenaType == [base : Nat, frame_count : Nat]
BlockType == [size : Nat, free : BOOLEAN, next : Nat]

End(bs, b)    == b + BLOCK_HDR + bs[b].size
Inside(a, b)  == a.base <= b /\ b < ArenaEnd(a)
ArenaSet      == {arenas[i] : i \in DOMAIN arenas}

\* Arenas are whole frames, and no two overlap.
ArenasApart(S) ==
    /\ S \subseteq ArenaType
    /\ \A a \in S : /\ \E g \in Nat : a.base = g * PMM_FRAME_SIZE
                    /\ a.frame_count >= HEAP_MIN_ARENA_FRAMES
    /\ \A a, c \in S : a = c \/ ArenaEnd(a) <= c.base \/ ArenaEnd(c) <= a.base

\* Blocks are aligned, do not overlap and lie in an arena behind its header.
BlocksApart(S, bs) ==
    /\ DOMAIN bs \subseteq Nat /\ bs \in [DOMAIN bs -> BlockType]
    /\ \A b \in DOMAIN bs : b % HEAP_ALIGN = 0 /\ bs[b].size % HEAP_ALIGN = 0
    /\ \A b, c \in DOMAIN bs : b < c => End(bs, b) <= c
    /\ \A b \in DOMAIN bs : \E a \in S : first_block(a) <= b /\ End(bs, b) <= ArenaEnd(a)

\* The chain of an arena runs from its first block to its end.
Chained(S, bs) ==
    \A a \in S :
      /\ first_block(a) \in DOMAIN bs
      /\ \A b \in DOMAIN bs : Inside(a, b) =>
           IF bs[b].next = NULL
           THEN End(bs, b) = ArenaEnd(a)
           ELSE /\ bs[b].next = End(bs, b)
                /\ End(bs, b) \in DOMAIN bs /\ Inside(a, End(bs, b))
      /\ \A b \in DOMAIN bs : Inside(a, b) /\ b # first_block(a) =>
           \E c \in DOMAIN bs : Inside(a, c) /\ bs[c].next = b

Shape(S, bs) == ArenasApart(S) /\ BlocksApart(S, bs) /\ Chained(S, bs)

\* What is handed out is a block that is not free and is large enough.
Held(bs, lv) ==
    /\ DOMAIN lv \subseteq Nat /\ lv \in [DOMAIN lv -> Nat]
    /\ \A p \in DOMAIN lv : /\ p - BLOCK_HDR \in DOMAIN bs
                            /\ ~bs[p - BLOCK_HDR].free
                            /\ lv[p] <= bs[p - BLOCK_HDR].size

\* The frames of the PMM's other users are not the heap's.
OthersApart(S, fs) ==
    /\ fs \subseteq Nat
    /\ \A f \in fs, a \in S :
         (f + 1) * PMM_FRAME_SIZE <= a.base \/ ArenaEnd(a) <= f * PMM_FRAME_SIZE

HeapInv ==
    /\ up \in BOOLEAN
    /\ ~up => arenas = << >> /\ DOMAIN blocks = {}
    /\ arenas \in Seq(ArenaType)
    /\ Shape(ArenaSet, blocks)
    /\ Held(blocks, live)
    /\ OthersApart(ArenaSet, other)

-----------------------------------------------------------------------------
(* Arithmetic of alignment.                                                *)

LEMMA Multiples ==
    ASSUME NEW d \in Nat \ {0}, NEW x \in Nat
    PROVE  /\ x % d = 0 => \E q \in Nat : x = q * d
           /\ (x * d) % d = 0 /\ (x * d) \div d = x
<1>1. x \div d \in Nat /\ x - (x \div d) * d = x % d
  BY SMTT(30)
<1>2. (x \div d) * d \in Nat
  BY <1>1
<1>3. x % d = 0 => x = (x \div d) * d
  BY <1>1, <1>2
<1>4. (x * d) \div d = x /\ (x * d) % d = 0
  BY SMTT(30)
<1> QED BY <1>1, <1>3, <1>4

LEMMA AlignSums ==
    ASSUME NEW d \in Nat \ {0}, NEW x \in Nat, NEW y \in Nat, x % d = 0, y % d = 0
    PROVE  (x + y) % d = 0 /\ (y <= x => (x - y) % d = 0)
<1>1. PICK q \in Nat : x = q * d
  BY Multiples
<1>2. PICK r \in Nat : y = r * d
  BY Multiples
<1>3. x + y = (q + r) * d /\ q + r \in Nat
  BY <1>1, <1>2
<1>4. ASSUME y <= x PROVE (x - y) % d = 0
  <2>1. r <= q
    <3>1. r > q => r * d > q * d
      BY SMTT(30)
    <3> QED BY <1>1, <1>2, <1>4, <3>1
  <2>2. q - r \in Nat /\ x - y = (q - r) * d
    BY <1>1, <1>2, <2>1
  <2> QED BY <2>2, Multiples
<1>5. (x + y) % d = 0
  <2>1. \A w \in Nat : (w * d) % d = 0
    BY Multiples
  <2> QED BY <1>3, <2>1
<1> QED BY <1>4, <1>5

-----------------------------------------------------------------------------
(* Facts about one shape.                                                  *)

LEMMA Geometry ==
    ASSUME NEW S, ArenasApart(S), NEW a \in S
    PROVE  /\ a.base \in Nat /\ a.frame_count \in Nat \ {0} /\ ArenaEnd(a) \in Nat
           /\ first_block(a) \in Nat /\ a.base < first_block(a)
           /\ first_block(a) + BLOCK_HDR <= ArenaEnd(a)
           /\ Inside(a, first_block(a))
<1>1. a.base \in Nat /\ a.frame_count \in Nat
  BY DEF ArenasApart, ArenaType
<1>2. a.frame_count >= HEAP_MIN_ARENA_FRAMES
  BY DEF ArenasApart
<1>3. \A x, y, z \in Nat : x >= y => y * z <= x * z
  BY SMTT(30)
<1>4. {PMM_FRAME_SIZE, HEAP_MIN_ARENA_FRAMES, ARENA_HDR, BLOCK_HDR} \subseteq Nat \ {0}
      /\ ARENA_HDR + BLOCK_HDR <= HEAP_MIN_ARENA_FRAMES * PMM_FRAME_SIZE
  BY HeapAssumption
<1>5. HEAP_MIN_ARENA_FRAMES * PMM_FRAME_SIZE <= a.frame_count * PMM_FRAME_SIZE
  BY <1>1, <1>2, <1>3, <1>4
<1>6. a.frame_count * PMM_FRAME_SIZE \in Nat /\ HEAP_MIN_ARENA_FRAMES * PMM_FRAME_SIZE \in Nat
  BY <1>1, <1>4
<1> QED BY <1>1, <1>2, <1>4, <1>5, <1>6 DEF ArenaEnd, first_block, Inside

LEMMA Sizing ==
    ASSUME NEW S, NEW bs, BlocksApart(S, bs), NEW b \in DOMAIN bs
    PROVE  /\ b \in Nat /\ bs[b] \in BlockType /\ bs[b].size \in Nat
           /\ bs[b].next \in Nat /\ bs[b].free \in BOOLEAN
           /\ End(bs, b) \in Nat /\ b + BLOCK_HDR <= End(bs, b) /\ b < End(bs, b)
<1>1. b \in Nat /\ bs[b] \in BlockType
  BY DEF BlocksApart
<1> QED BY <1>1, HeapAssumption DEF BlockType, End

\* The arena a block lies in is its only one.
LEMMA Home ==
    ASSUME NEW S, NEW bs, ArenasApart(S), BlocksApart(S, bs), NEW b \in DOMAIN bs,
           NEW a \in S, Inside(a, b)
    PROVE  first_block(a) <= b /\ End(bs, b) <= ArenaEnd(a)
<1>1. PICK c \in S : first_block(c) <= b /\ End(bs, b) <= ArenaEnd(c)
  BY DEF BlocksApart
<1>2. a = c \/ ArenaEnd(a) <= c.base \/ ArenaEnd(c) <= a.base
  BY DEF ArenasApart
<1>3. /\ a.base \in Nat /\ ArenaEnd(a) \in Nat
      /\ c.base \in Nat /\ ArenaEnd(c) \in Nat /\ first_block(c) \in Nat /\ c.base < first_block(c)
  BY Geometry
<1>4. b \in Nat /\ End(bs, b) \in Nat /\ b < End(bs, b)
  BY Sizing
<1>5. a = c
  BY <1>1, <1>2, <1>3, <1>4 DEF Inside
<1> QED BY <1>1, <1>5

LEMMA HomeExists ==
    ASSUME NEW S, NEW bs, ArenasApart(S), BlocksApart(S, bs), NEW b \in DOMAIN bs
    PROVE  \E a \in S : /\ Inside(a, b) /\ first_block(a) <= b
                        /\ End(bs, b) <= ArenaEnd(a)
                        /\ \A c \in S : Inside(c, b) => c = a
<1>1. PICK a \in S : first_block(a) <= b /\ End(bs, b) <= ArenaEnd(a)
  BY DEF BlocksApart
<1>2. b \in Nat /\ End(bs, b) \in Nat /\ b < End(bs, b)
  BY Sizing
<1>3. \A c \in S : /\ c.base \in Nat /\ ArenaEnd(c) \in Nat
                   /\ first_block(c) \in Nat /\ c.base < first_block(c)
  BY Geometry
<1>4. Inside(a, b)
  BY <1>1, <1>2, <1>3 DEF Inside
<1>5. ASSUME NEW c \in S, Inside(c, b) PROVE c = a
  BY <1>2, <1>3, <1>4, <1>5 DEF Inside, ArenasApart
<1> QED BY <1>1, <1>4, <1>5

\* Only sizes and links matter.
LEMMA SameShape ==
    ASSUME NEW S, NEW bs, Shape(S, bs), NEW cs, DOMAIN cs = DOMAIN bs,
           cs \in [DOMAIN bs -> BlockType],
           \A b \in DOMAIN bs : cs[b].size = bs[b].size /\ cs[b].next = bs[b].next
    PROVE  Shape(S, cs)
<1>1. \A b \in DOMAIN bs : End(cs, b) = End(bs, b)
  BY DEF End
<1>2. BlocksApart(S, cs)
  BY <1>1 DEF Shape, BlocksApart
<1>3. Chained(S, cs)
  BY <1>1 DEF Shape, Chained
<1> QED BY <1>2, <1>3 DEF Shape

\* No block lies in a new arena.
LEMMA ArenaClear ==
    ASSUME NEW S, NEW bs, Shape(S, bs), NEW a, ArenasApart(S \cup {a}), a \notin S,
           NEW b \in DOMAIN bs
    PROVE  /\ End(bs, b) <= a.base \/ ArenaEnd(a) <= b
           /\ ~Inside(a, b)
<1>1. \A c \in S \cup {a} : /\ c.base \in Nat /\ ArenaEnd(c) \in Nat
                            /\ first_block(c) \in Nat /\ c.base < first_block(c)
  BY Geometry
<1>2. \A c \in S : ArenaEnd(a) <= c.base \/ ArenaEnd(c) <= a.base
  BY DEF ArenasApart
<1>3. PICK c \in S : first_block(c) <= b /\ End(bs, b) <= ArenaEnd(c)
  BY DEF Shape, BlocksApart
<1>4. b \in Nat /\ End(bs, b) \in Nat /\ b < End(bs, b)
  BY Sizing DEF Shape
<1> QED BY <1>1, <1>2, <1>3, <1>4 DEF Inside

\* grow_heap: the new arena is one free block.
LEMMA ArenaShape ==
    ASSUME NEW S, NEW bs, Shape(S, bs), NEW a \in ArenaType, ArenasApart(S \cup {a}),
           a \notin S, NEW blk \in BlockType, blk.next = NULL,
           blk.size = a.frame_count * PMM_FRAME_SIZE - ARENA_HDR - BLOCK_HDR,
           first_block(a) % HEAP_ALIGN = 0, blk.size % HEAP_ALIGN = 0
    PROVE  Shape(S \cup {a}, Store(bs, first_block(a), blk))
<1> DEFINE fb == first_block(a)
           cs == Store(bs, fb, blk)
           R  == S \cup {a}
<1>1. \A c \in R : /\ c.base \in Nat /\ ArenaEnd(c) \in Nat
                   /\ first_block(c) \in Nat /\ c.base < first_block(c)
                   /\ Inside(c, first_block(c))
  BY Geometry
<1>2. \A c \in S : ArenaEnd(a) <= c.base \/ ArenaEnd(c) <= a.base
  BY DEF ArenasApart
<1>3. \A b \in DOMAIN bs : (End(bs, b) <= a.base \/ ArenaEnd(a) <= b) /\ ~Inside(a, b)
  BY ArenaClear
<1>4. fb \notin DOMAIN bs
  BY <1>1, <1>3
<1>5. DOMAIN cs = DOMAIN bs \cup {fb} /\ cs[fb] = blk /\ \A b \in DOMAIN bs : cs[b] = bs[b]
  BY <1>4 DEF Store
<1> HIDE DEF cs
<1>6. End(cs, fb) = ArenaEnd(a) /\ \A b \in DOMAIN bs : End(cs, b) = End(bs, b)
  <2>1. a.base \in Nat /\ a.frame_count * PMM_FRAME_SIZE \in Nat
    BY HeapAssumption DEF ArenaType
  <2> QED BY <1>5, <2>1, HeapAssumption DEF End, ArenaEnd, first_block
<1>7. BlocksApart(R, cs)
  <2>1. DOMAIN cs \subseteq Nat /\ cs \in [DOMAIN cs -> BlockType]
    <3>1. cs = [b \in DOMAIN cs |-> cs[b]]
      BY DEF cs, Store
    <3>2. \A b \in DOMAIN cs : b \in Nat /\ cs[b] \in BlockType
      BY <1>1, <1>5, Sizing DEF Shape
    <3> QED BY <3>1, <3>2
  <2>2. \A b \in DOMAIN cs : b % HEAP_ALIGN = 0 /\ cs[b].size % HEAP_ALIGN = 0
    BY <1>5 DEF Shape, BlocksApart
  <2>3. ASSUME NEW b \in DOMAIN cs, NEW c \in DOMAIN cs, b < c
        PROVE  End(cs, b) <= c
    <3>1. CASE b \in DOMAIN bs /\ c \in DOMAIN bs
      BY <1>6, <2>3, <3>1 DEF Shape, BlocksApart
    <3>2. CASE b = fb /\ c \in DOMAIN bs
      <4>1. c \in Nat /\ End(bs, c) \in Nat /\ c < End(bs, c)
        BY <3>2, Sizing DEF Shape
      <4>2. End(bs, c) <= a.base \/ ArenaEnd(a) <= c
        BY <1>3, <3>2
      <4> QED BY <1>1, <1>6, <2>3, <3>2, <4>1, <4>2
    <3>3. CASE c = fb /\ b \in DOMAIN bs
      <4>1. b \in Nat /\ End(bs, b) \in Nat /\ b < End(bs, b)
        BY <3>3, Sizing DEF Shape
      <4>2. End(bs, b) <= a.base \/ ArenaEnd(a) <= b
        BY <1>3, <3>3
      <4> QED BY <1>1, <1>6, <2>3, <3>3, <4>1, <4>2 DEF Inside
    <3>4. CASE b = fb /\ c = fb
      BY <1>1, <2>3, <3>4
    <3> QED BY <1>5, <3>1, <3>2, <3>3, <3>4
  <2>4. \A b \in DOMAIN cs : \E c \in R : first_block(c) <= b /\ End(cs, b) <= ArenaEnd(c)
    BY <1>1, <1>5, <1>6 DEF Shape, BlocksApart
  <2> QED BY <2>1, <2>2, <2>3, <2>4 DEF BlocksApart
<1>8. ~\E c \in S : Inside(c, fb)
  BY <1>1, <1>2 DEF Inside
<1>9. Chained(R, cs)
  <2>1. ASSUME NEW c \in S
        PROVE  /\ first_block(c) \in DOMAIN cs
               /\ \A b \in DOMAIN cs : Inside(c, b) =>
                    IF cs[b].next = NULL
                    THEN End(cs, b) = ArenaEnd(c)
                    ELSE /\ cs[b].next = End(cs, b)
                         /\ End(cs, b) \in DOMAIN cs /\ Inside(c, End(cs, b))
               /\ \A b \in DOMAIN cs : Inside(c, b) /\ b # first_block(c) =>
                    \E d \in DOMAIN cs : Inside(c, d) /\ cs[d].next = b
    BY <1>5, <1>6, <1>8 DEF Shape, Chained
  <2>2. /\ first_block(a) \in DOMAIN cs
        /\ \A b \in DOMAIN cs : Inside(a, b) => b = fb
    BY <1>3, <1>5
  <2>3. cs[fb].next = NULL /\ End(cs, fb) = ArenaEnd(a)
    BY <1>5, <1>6
  <2> QED BY <2>1, <2>2, <2>3 DEF Chained
<1> QED BY <1>7, <1>9 DEF Shape, cs

\* alloc_from_block: what it writes.
LEMMA SplitFacts ==
    ASSUME NEW S, NEW bs, Shape(S, bs), NEW b \in DOMAIN bs, NEW size \in Nat,
           bs[b].size - size > BLOCK_HDR + HEAP_ALIGN, size % HEAP_ALIGN = 0,
           NEW sp, sp = b + BLOCK_HDR + size, NEW cs, cs = alloc_from_block(bs, b, size)
    PROVE  /\ sp \in Nat /\ b < sp /\ sp < End(bs, b) /\ sp \notin DOMAIN bs
           /\ sp % HEAP_ALIGN = 0 /\ sp # NULL
           /\ DOMAIN cs = DOMAIN bs \cup {sp} /\ cs \in [DOMAIN cs -> BlockType]
           /\ cs[b] = [size |-> size, free |-> FALSE, next |-> sp]
           /\ cs[sp].next = bs[b].next /\ cs[sp].size % HEAP_ALIGN = 0
           /\ \A c \in DOMAIN bs : c # b => cs[c] = bs[c]
           /\ End(cs, b) = sp /\ End(cs, sp) = End(bs, b)
           /\ \A c \in DOMAIN bs : c # b => End(cs, c) = End(bs, c)
<1> DEFINE z == bs[b].size
           r == z - size - BLOCK_HDR
<1>1. /\ b \in Nat /\ z \in Nat /\ bs[b].next \in Nat
      /\ b % HEAP_ALIGN = 0 /\ z % HEAP_ALIGN = 0
  BY Sizing DEF Shape, BlocksApart
<1>2. BLOCK_HDR \in Nat \ {0} /\ HEAP_ALIGN \in Nat \ {0} /\ BLOCK_HDR % HEAP_ALIGN = 0
  BY HeapAssumption
<1>3. sp \in Nat /\ b < sp /\ sp < End(bs, b) /\ sp # NULL
  BY <1>1, <1>2 DEF End, NULL
<1>4. sp \notin DOMAIN bs
  BY <1>1, <1>3, Sizing DEF Shape, BlocksApart
<1>5. sp % HEAP_ALIGN = 0
  <2>1. (b + BLOCK_HDR) % HEAP_ALIGN = 0 /\ b + BLOCK_HDR \in Nat
    BY <1>1, <1>2, AlignSums
  <2> QED BY <1>2, <2>1, AlignSums
<1>6. r \in Nat /\ r % HEAP_ALIGN = 0
  <2>1. z - size \in Nat /\ size <= z /\ BLOCK_HDR <= z - size
    BY <1>1, <1>2
  <2>2. (z - size) % HEAP_ALIGN = 0
    BY <1>1, <1>2, <2>1, AlignSums
  <2> QED BY <1>1, <1>2, <2>1, <2>2, AlignSums
<1>7. cs = Store(Store(bs, sp, [size |-> r, free |-> TRUE, next |-> bs[b].next]),
                 b, [size |-> size, free |-> FALSE, next |-> sp])
  BY DEF alloc_from_block
<1> HIDE DEF r
<1>8. /\ DOMAIN cs = DOMAIN bs \cup {sp}
      /\ cs[b] = [size |-> size, free |-> FALSE, next |-> sp]
      /\ cs[sp] = [size |-> r, free |-> TRUE, next |-> bs[b].next]
      /\ \A c \in DOMAIN bs : c # b => cs[c] = bs[c]
      /\ cs = [c \in DOMAIN cs |-> cs[c]]
  BY <1>3, <1>4, <1>7 DEF Store
<1>9. \A c \in DOMAIN cs : cs[c] \in BlockType
  <2>1. \A c \in DOMAIN bs : bs[c] \in BlockType
    BY Sizing DEF Shape
  <2>2. cs[b] \in BlockType /\ cs[sp] \in BlockType
    BY <1>1, <1>3, <1>6, <1>8 DEF BlockType
  <2> QED BY <1>8, <2>1, <2>2
<1>10. End(cs, b) = sp /\ End(cs, sp) = End(bs, b)
  BY <1>1, <1>2, <1>3, <1>6, <1>8 DEF End, r
<1>11. \A c \in DOMAIN bs : c # b => End(cs, c) = End(bs, c)
  BY <1>8 DEF End
<1> QED BY <1>3, <1>4, <1>5, <1>6, <1>8, <1>9, <1>10, <1>11

LEMMA SplitShape ==
    ASSUME NEW S, NEW bs, Shape(S, bs), NEW b \in DOMAIN bs, NEW size \in Nat,
           bs[b].size - size > BLOCK_HDR + HEAP_ALIGN, size % HEAP_ALIGN = 0
    PROVE  Shape(S, alloc_from_block(bs, b, size))
<1>1. PICK sp, cs : sp = b + BLOCK_HDR + size /\ cs = alloc_from_block(bs, b, size)
  OBVIOUS
<1>2. /\ sp \in Nat /\ b < sp /\ sp < End(bs, b) /\ sp \notin DOMAIN bs
      /\ sp % HEAP_ALIGN = 0 /\ sp # NULL
      /\ DOMAIN cs = DOMAIN bs \cup {sp} /\ cs \in [DOMAIN cs -> BlockType]
      /\ cs[b] = [size |-> size, free |-> FALSE, next |-> sp]
      /\ cs[sp].next = bs[b].next /\ cs[sp].size % HEAP_ALIGN = 0
      /\ \A c \in DOMAIN bs : c # b => cs[c] = bs[c]
      /\ End(cs, b) = sp /\ End(cs, sp) = End(bs, b)
      /\ \A c \in DOMAIN bs : c # b => End(cs, c) = End(bs, c)
  BY <1>1, SplitFacts
<1>3. \A c \in DOMAIN bs : c \in Nat /\ End(bs, c) \in Nat /\ c < End(bs, c)
  BY Sizing DEF Shape
<1>4. PICK a \in S : /\ Inside(a, b) /\ first_block(a) <= b /\ End(bs, b) <= ArenaEnd(a)
                     /\ \A c \in S : Inside(c, b) => c = a
  BY HomeExists DEF Shape
<1>5. \A c \in S : /\ c.base \in Nat /\ ArenaEnd(c) \in Nat
                   /\ first_block(c) \in Nat /\ c.base < first_block(c)
  BY Geometry DEF Shape
<1>6. Inside(a, sp) /\ \A c \in S : Inside(c, sp) => c = a
  BY <1>2, <1>3, <1>4, <1>5 DEF Inside, Shape, ArenasApart
<1>7. BlocksApart(S, cs)
  <2>1. DOMAIN cs \subseteq Nat
    BY <1>2, <1>3
  <2>2. \A c \in DOMAIN cs : c % HEAP_ALIGN = 0 /\ cs[c].size % HEAP_ALIGN = 0
    BY <1>2 DEF Shape, BlocksApart
  <2>3. ASSUME NEW c \in DOMAIN cs, NEW d \in DOMAIN cs, c < d
        PROVE  End(cs, c) <= d
    <3>1. \A x, y \in DOMAIN bs : x < y => End(bs, x) <= y
      BY DEF Shape, BlocksApart
    <3>2. CASE c # sp /\ d # sp
      BY <1>2, <1>3, <2>3, <3>1, <3>2
    <3>3. CASE c = sp /\ d # sp
      <4>1. d \in DOMAIN bs /\ b < d
        BY <1>2, <1>3, <2>3, <3>3
      <4> QED BY <1>2, <3>1, <3>3, <4>1
    <3>4. CASE d = sp /\ c # sp
      <4>1. c \in DOMAIN bs
        BY <1>2, <3>4
      <4>2. CASE c = b
        BY <1>2, <3>4, <4>2
      <4>3. CASE c < b
        BY <1>2, <1>3, <3>1, <3>4, <4>1, <4>3
      <4>4. CASE b < c
        BY <1>2, <1>3, <2>3, <3>1, <3>4, <4>1, <4>4
      <4> QED BY <1>3, <4>1, <4>2, <4>3, <4>4
    <3>5. CASE c = sp /\ d = sp
      BY <1>2, <2>3, <3>5
    <3> QED BY <3>2, <3>3, <3>4, <3>5
  <2>4. ASSUME NEW c \in DOMAIN cs
        PROVE  \E d \in S : first_block(d) <= c /\ End(cs, c) <= ArenaEnd(d)
    <3>1. CASE c \in {b, sp}
      <4>1. first_block(a) <= c /\ End(cs, c) <= ArenaEnd(a)
        BY <1>2, <1>3, <1>4, <1>5, <3>1
      <4> QED BY <4>1
    <3>2. CASE c \notin {b, sp}
      BY <1>2, <3>2 DEF Shape, BlocksApart
    <3> QED BY <3>1, <3>2
  <2> QED BY <1>2, <2>1, <2>2, <2>3, <2>4 DEF BlocksApart
<1>8. ASSUME NEW d \in S
      PROVE  /\ first_block(d) \in DOMAIN cs
             /\ \A c \in DOMAIN cs : Inside(d, c) =>
                  IF cs[c].next = NULL
                  THEN End(cs, c) = ArenaEnd(d)
                  ELSE /\ cs[c].next = End(cs, c)
                       /\ End(cs, c) \in DOMAIN cs /\ Inside(d, End(cs, c))
             /\ \A c \in DOMAIN cs : Inside(d, c) /\ c # first_block(d) =>
                  \E e \in DOMAIN cs : Inside(d, e) /\ cs[e].next = c
  <2>1. /\ first_block(d) \in DOMAIN bs
        /\ \A c \in DOMAIN bs : Inside(d, c) =>
             IF bs[c].next = NULL
             THEN End(bs, c) = ArenaEnd(d)
             ELSE /\ bs[c].next = End(bs, c)
                  /\ End(bs, c) \in DOMAIN bs /\ Inside(d, End(bs, c))
        /\ \A c \in DOMAIN bs : Inside(d, c) /\ c # first_block(d) =>
             \E e \in DOMAIN bs : Inside(d, e) /\ bs[e].next = c
    BY DEF Shape, Chained
  <2>2. Inside(d, sp) <=> Inside(d, b)
    BY <1>4, <1>6
  <2>3. ASSUME NEW c \in DOMAIN cs, Inside(d, c)
        PROVE  IF cs[c].next = NULL
               THEN End(cs, c) = ArenaEnd(d)
               ELSE /\ cs[c].next = End(cs, c)
                    /\ End(cs, c) \in DOMAIN cs /\ Inside(d, End(cs, c))
    <3>1. CASE c = b
      <4>1. cs[b].next = sp
        BY <1>2
      <4> QED BY <1>2, <2>2, <2>3, <3>1, <4>1
    <3>2. CASE c = sp
      BY <1>2, <2>1, <2>2, <2>3, <3>2
    <3>3. CASE c \notin {b, sp}
      BY <1>2, <2>1, <2>3, <3>3
    <3> QED BY <3>1, <3>2, <3>3
  <2>4. ASSUME NEW c \in DOMAIN cs, Inside(d, c), c # first_block(d)
        PROVE  \E e \in DOMAIN cs : Inside(d, e) /\ cs[e].next = c
    <3>1. CASE c = sp
      <4>1. cs[b].next = sp
        BY <1>2
      <4> QED BY <1>2, <2>2, <2>4, <3>1, <4>1
    <3>2. CASE c # sp
      <4>1. PICK e \in DOMAIN bs : Inside(d, e) /\ bs[e].next = c
        BY <1>2, <2>1, <2>4, <3>2
      <4>2. CASE e = b
        BY <1>2, <2>2, <4>1, <4>2
      <4>3. CASE e # b
        BY <1>2, <4>1, <4>3
      <4> QED BY <4>2, <4>3
    <3> QED BY <3>1, <3>2
  <2> QED BY <1>2, <2>1, <2>3, <2>4
<1>9. Chained(S, cs)
  BY <1>8 DEF Chained
<1> QED BY <1>1, <1>7, <1>9 DEF Shape

LEMMA AllocShape ==
    ASSUME NEW S, NEW bs, Shape(S, bs), NEW b \in DOMAIN bs, NEW size \in Nat,
           size <= bs[b].size, size % HEAP_ALIGN = 0
    PROVE  Shape(S, alloc_from_block(bs, b, size))
<1>1. CASE bs[b].size - size > BLOCK_HDR + HEAP_ALIGN
  BY <1>1, SplitShape
<1>2. CASE ~(bs[b].size - size > BLOCK_HDR + HEAP_ALIGN)
  <2>1. alloc_from_block(bs, b, size) = [bs EXCEPT ![b].free = FALSE]
    BY <1>2 DEF alloc_from_block
  <2>2. bs \in [DOMAIN bs -> BlockType]
    BY DEF Shape, BlocksApart
  <2> DEFINE cs == [bs EXCEPT ![b].free = FALSE]
  <2>3. /\ DOMAIN cs = DOMAIN bs /\ cs \in [DOMAIN bs -> BlockType]
        /\ \A c \in DOMAIN bs : cs[c].size = bs[c].size /\ cs[c].next = bs[c].next
    BY <2>2 DEF BlockType
  <2> HIDE DEF cs
  <2>4. Shape(S, cs)
    BY <2>3, SameShape
  <2> QED BY <2>1, <2>4 DEF cs
<1> QED BY <1>1, <1>2

\* kfree: the next block is where this one ends, and the merged block ends
\* where the next one did.
LEMMA MergeShape ==
    ASSUME NEW S, NEW bs, Shape(S, bs), NEW b \in DOMAIN bs, NEW n, n = bs[b].next, n # NULL,
           NEW cs, DOMAIN cs = DOMAIN bs \ {n}, cs \in [DOMAIN cs -> BlockType],
           cs[b].size = bs[b].size + BLOCK_HDR + bs[n].size, cs[b].next = bs[n].next,
           \A c \in DOMAIN bs \ {n} : c # b => cs[c] = bs[c]
    PROVE  n \in DOMAIN bs /\ n # b /\ Shape(S, cs)
<1>1. \A c \in DOMAIN bs : c \in Nat /\ End(bs, c) \in Nat /\ c < End(bs, c)
  BY Sizing DEF Shape
<1>2. PICK a \in S : /\ Inside(a, b) /\ first_block(a) <= b /\ End(bs, b) <= ArenaEnd(a)
                     /\ \A c \in S : Inside(c, b) => c = a
  BY HomeExists DEF Shape
<1>3. n = End(bs, b) /\ n \in DOMAIN bs /\ Inside(a, n)
  BY <1>2 DEF Shape, Chained
<1>4. n # b /\ b < n /\ b \in DOMAIN cs
  BY <1>1, <1>3
<1>5. End(bs, n) <= ArenaEnd(a) /\ \A c \in S : Inside(c, n) => c = a
  <2>1. PICK d \in S : /\ Inside(d, n) /\ first_block(d) <= n
                       /\ End(bs, n) <= ArenaEnd(d)
                       /\ \A c \in S : Inside(c, n) => c = d
    BY <1>3, HomeExists DEF Shape
  <2> QED BY <1>3, <2>1
<1>6. End(cs, b) = End(bs, n) /\ \A c \in DOMAIN cs : c # b => End(cs, c) = End(bs, c)
  <2>1. bs[b].size \in Nat /\ bs[n].size \in Nat
    BY <1>3, Sizing DEF Shape
  <2>2. n = b + BLOCK_HDR + bs[b].size
    BY <1>3 DEF End
  <2> QED BY <1>1, <1>3, <2>1, <2>2, HeapAssumption DEF End
<1>7. \A c, d \in DOMAIN bs : c < d => End(bs, c) <= d
  BY DEF Shape, BlocksApart
<1>8. \A c \in DOMAIN bs : End(bs, c) = n => c = b
  BY <1>1, <1>3, <1>7
<1>9. BlocksApart(S, cs)
  <2>1. DOMAIN cs \subseteq Nat
    BY <1>1
  <2>2. \A c \in DOMAIN cs : c % HEAP_ALIGN = 0 /\ cs[c].size % HEAP_ALIGN = 0
    <3>1. \A c \in DOMAIN bs : c % HEAP_ALIGN = 0 /\ bs[c].size % HEAP_ALIGN = 0
      BY DEF Shape, BlocksApart
    <3>2. (bs[b].size + BLOCK_HDR + bs[n].size) % HEAP_ALIGN = 0
      <4>1. bs[b].size \in Nat /\ bs[n].size \in Nat
        BY <1>3, Sizing DEF Shape
      <4>2. bs[b].size + BLOCK_HDR \in Nat /\ (bs[b].size + BLOCK_HDR) % HEAP_ALIGN = 0
        BY <3>1, <4>1, HeapAssumption, AlignSums
      <4> QED BY <1>3, <3>1, <4>1, <4>2, HeapAssumption, AlignSums
    <3> QED BY <3>1, <3>2
  <2>3. ASSUME NEW c \in DOMAIN cs, NEW d \in DOMAIN cs, c < d
        PROVE  End(cs, c) <= d
    <3>1. CASE c # b
      BY <1>6, <1>7, <2>3, <3>1
    <3>2. CASE c = b
      <4>1. d \in DOMAIN bs /\ n < d
        BY <1>1, <1>3, <1>7, <2>3, <3>2
      <4> QED BY <1>3, <1>6, <1>7, <3>2, <4>1
    <3> QED BY <3>1, <3>2
  <2>4. ASSUME NEW c \in DOMAIN cs
        PROVE  \E d \in S : first_block(d) <= c /\ End(cs, c) <= ArenaEnd(d)
    <3>1. CASE c = b
      BY <1>2, <1>5, <1>6, <3>1
    <3>2. CASE c # b
      BY <1>6, <3>2 DEF Shape, BlocksApart
    <3> QED BY <3>1, <3>2
  <2> QED BY <2>1, <2>2, <2>3, <2>4 DEF BlocksApart
<1>10. ASSUME NEW d \in S
       PROVE  /\ first_block(d) \in DOMAIN cs
              /\ \A c \in DOMAIN cs : Inside(d, c) =>
                   IF cs[c].next = NULL
                   THEN End(cs, c) = ArenaEnd(d)
                   ELSE /\ cs[c].next = End(cs, c)
                        /\ End(cs, c) \in DOMAIN cs /\ Inside(d, End(cs, c))
              /\ \A c \in DOMAIN cs : Inside(d, c) /\ c # first_block(d) =>
                   \E e \in DOMAIN cs : Inside(d, e) /\ cs[e].next = c
  <2>1. /\ first_block(d) \in DOMAIN bs
        /\ \A c \in DOMAIN bs : Inside(d, c) =>
             IF bs[c].next = NULL
             THEN End(bs, c) = ArenaEnd(d)
             ELSE /\ bs[c].next = End(bs, c)
                  /\ End(bs, c) \in DOMAIN bs /\ Inside(d, End(bs, c))
        /\ \A c \in DOMAIN bs : Inside(d, c) /\ c # first_block(d) =>
             \E e \in DOMAIN bs : Inside(d, e) /\ bs[e].next = c
    BY DEF Shape, Chained
  <2>2. first_block(d) # n
    <3>1. Inside(d, first_block(d)) /\ first_block(d) \in Nat
      BY Geometry DEF Shape
    <3> QED BY <1>1, <1>2, <1>3, <1>4, <1>5, <3>1
  <2>3. ASSUME NEW c \in DOMAIN cs, Inside(d, c)
        PROVE  IF cs[c].next = NULL
               THEN End(cs, c) = ArenaEnd(d)
               ELSE /\ cs[c].next = End(cs, c)
                    /\ End(cs, c) \in DOMAIN cs /\ Inside(d, End(cs, c))
    <3>1. CASE c = b
      <4>1. d = a /\ Inside(d, n)
        BY <1>2, <1>3, <2>3, <3>1
      <4>2. End(bs, n) # n
        BY <1>1, <1>3
      <4> QED BY <1>3, <1>6, <2>1, <3>1, <4>1, <4>2
    <3>2. CASE c # b
      <4>1. End(bs, c) # n
        BY <1>8, <3>2
      <4> QED BY <1>6, <2>1, <2>3, <3>2, <4>1
    <3> QED BY <3>1, <3>2
  <2>4. ASSUME NEW c \in DOMAIN cs, Inside(d, c), c # first_block(d)
        PROVE  \E e \in DOMAIN cs : Inside(d, e) /\ cs[e].next = c
    <3>1. PICK e \in DOMAIN bs : Inside(d, e) /\ bs[e].next = c
      BY <2>1, <2>4
    <3>2. CASE e = n
      BY <1>2, <1>4, <1>5, <3>1, <3>2
    <3>3. CASE e # n
      <4>1. e # b
        BY <3>1
      <4> QED BY <3>1, <3>3, <4>1
    <3> QED BY <3>2, <3>3
  <2> QED BY <2>1, <2>2, <2>3, <2>4
<1>11. Chained(S, cs)
  BY <1>10 DEF Chained
<1> QED BY <1>3, <1>4, <1>9, <1>11 DEF Shape

-----------------------------------------------------------------------------
(* The steps.                                                              *)

LEMMA AlignedIs ==
    ASSUME NEW size \in Nat
    PROVE  Aligned(size) \in Nat /\ size <= Aligned(size) /\ Aligned(size) % HEAP_ALIGN = 0
<1>1. ASSUME NEW d \in Nat \ {0}
      PROVE  /\ (size + d - 1) \div d \in Nat
             /\ size <= ((size + d - 1) \div d) * d
  BY SMTT(30)
<1>2. HEAP_ALIGN \in Nat \ {0}
  BY HeapAssumption
<1> DEFINE q == (size + HEAP_ALIGN - 1) \div HEAP_ALIGN
<1>3. q \in Nat /\ size <= q * HEAP_ALIGN /\ Aligned(size) = q * HEAP_ALIGN
  BY <1>1, <1>2 DEF Aligned, align_up
<1> HIDE DEF q
<1>4. q * HEAP_ALIGN \in Nat /\ (q * HEAP_ALIGN) % HEAP_ALIGN = 0
  BY <1>2, <1>3, Multiples
<1> QED BY <1>3, <1>4

LEMMA FramesForIs ==
    ASSUME NEW m \in Nat
    PROVE  /\ FramesFor(m) \in Nat \ {0} /\ FramesFor(m) >= HEAP_MIN_ARENA_FRAMES
           /\ ARENA_HDR + BLOCK_HDR + m <= FramesFor(m) * PMM_FRAME_SIZE
<1> DEFINE k == ARENA_HDR + BLOCK_HDR + m
           q == (k + PMM_FRAME_SIZE - 1) \div PMM_FRAME_SIZE
<1>1. ASSUME NEW x \in Nat, NEW d \in Nat \ {0}
      PROVE  /\ (x + d - 1) \div d \in Nat
             /\ x <= ((x + d - 1) \div d) * d
  BY SMTT(30)
<1>2. PMM_FRAME_SIZE \in Nat \ {0} /\ HEAP_MIN_ARENA_FRAMES \in Nat \ {0} /\ k \in Nat
  BY HeapAssumption
<1>3. q \in Nat /\ k <= q * PMM_FRAME_SIZE
  BY <1>1, <1>2
<1>4. FramesFor(m) = IF q < HEAP_MIN_ARENA_FRAMES THEN HEAP_MIN_ARENA_FRAMES ELSE q
  BY DEF FramesFor
<1> HIDE DEF k, q
<1>5. q <= FramesFor(m) /\ FramesFor(m) \in Nat \ {0} /\ FramesFor(m) >= HEAP_MIN_ARENA_FRAMES
  BY <1>2, <1>3, <1>4
<1> HIDE DEF FramesFor
<1>6. \A x, y, z \in Nat : x <= y => x * z <= y * z
  BY SMTT(30)
<1>7. q * PMM_FRAME_SIZE <= FramesFor(m) * PMM_FRAME_SIZE
  BY <1>2, <1>3, <1>5, <1>6
<1>8. q * PMM_FRAME_SIZE \in Nat /\ FramesFor(m) * PMM_FRAME_SIZE \in Nat
  BY <1>2, <1>3, <1>5
<1> QED BY <1>2, <1>3, <1>5, <1>7, <1>8 DEF k

\* A run of frames that pmm_alloc_frames found free becomes a new arena.
LEMMA RunApart ==
    ASSUME ArenasApart(ArenaSet), OthersApart(ArenaSet, other),
           NEW f \in FreeFrames, NEW n \in Nat \ {0}, n >= HEAP_MIN_ARENA_FRAMES,
           f .. f + n - 1 \subseteq FreeFrames,
           NEW a, a = [base |-> f * PMM_FRAME_SIZE, frame_count |-> n]
    PROVE  /\ a \in ArenaType /\ a \notin ArenaSet
           /\ ArenasApart(ArenaSet \cup {a}) /\ OthersApart(ArenaSet \cup {a}, other)
           /\ first_block(a) % HEAP_ALIGN = 0
           /\ (n * PMM_FRAME_SIZE - ARENA_HDR - BLOCK_HDR) % HEAP_ALIGN = 0
           /\ n * PMM_FRAME_SIZE - ARENA_HDR - BLOCK_HDR \in Nat
<1> DEFINE P == PMM_FRAME_SIZE
<1>1. P \in Nat \ {0} /\ f \in Nat /\ TotalFrames \in Nat
  BY HeapAssumption DEF FreeFrames
<1>2. \A x, y, z \in Nat : x <= y => x * z <= y * z
  BY SMTT(30)
<1>3. /\ a.base = f * P /\ a.frame_count = n /\ a \in ArenaType
      /\ f * P \in Nat /\ n * P \in Nat /\ (f + n) * P = f * P + n * P
      /\ ArenaEnd(a) = (f + n) * P /\ ArenaEnd(a) \in Nat
  BY <1>1 DEF ArenaType, ArenaEnd
<1>4. ASSUME NEW c \in ArenaSet
      PROVE  a # c /\ (ArenaEnd(a) <= c.base \/ ArenaEnd(c) <= a.base)
  <2>1. PICK g \in Nat : c.base = g * P
    BY DEF ArenasApart
  <2> DEFINE m == c.frame_count
  <2>2. m \in Nat \ {0}
    BY Geometry
  <2>3. ArenaFrames(c) = g .. g + m - 1
    <3>1. (g * P) \div P = g
      BY <1>1, Multiples
    <3> QED BY <2>1, <3>1 DEF ArenaFrames
  <2>4. \A x \in f .. f + n - 1 : x \notin g .. g + m - 1
    <3>1. PICK i \in DOMAIN arenas : c = arenas[i]
      BY DEF ArenaSet
    <3>2. \A x \in FreeFrames : x \notin ArenaFrames(c)
      BY <3>1 DEF FreeFrames
    <3> QED BY <2>3, <3>2
  <2> HIDE DEF m
  <2>5. f + n <= g \/ g + m <= f
    <3>1. CASE f <= g
      <4>1. g \in g .. g + m - 1
        BY <2>2
      <4>2. g \notin f .. f + n - 1
        BY <2>4, <4>1
      <4> QED BY <1>1, <3>1, <4>2
    <3>2. CASE g < f
      <4>1. f \in f .. f + n - 1
        BY <1>1
      <4>2. f \notin g .. g + m - 1
        BY <2>4, <4>1
      <4> QED BY <1>1, <2>2, <3>2, <4>2
    <3> QED BY <1>1, <3>1, <3>2
  <2>6. ArenaEnd(c) = (g + m) * P /\ g + m \in Nat /\ f + n \in Nat
    BY <1>1, <2>1, <2>2 DEF ArenaEnd, m
  <2>7. ArenaEnd(a) <= c.base \/ ArenaEnd(c) <= a.base
    BY <1>1, <1>2, <1>3, <2>1, <2>5, <2>6
  <2>8. a # c
    <3>1. a.base < ArenaEnd(a)
      <4>1. n * P >= 1
        BY <1>1, SMTT(30)
      <4> QED BY <1>3, <4>1
    <3> QED BY <1>3, <2>7, <3>1
  <2> QED BY <2>7, <2>8
<1>5. ArenasApart(ArenaSet \cup {a})
  BY <1>1, <1>3, <1>4 DEF ArenasApart
<1>6. ASSUME NEW x \in other
      PROVE  x \in Nat /\ ((x + 1) * P <= a.base \/ ArenaEnd(a) <= x * P)
  <2>1. x \in Nat /\ x \notin f .. f + n - 1
    BY DEF OthersApart, FreeFrames
  <2>2. x + 1 <= f \/ f + n <= x
    BY <1>1, <2>1
  <2>3. x + 1 \in Nat /\ f + n \in Nat
    BY <1>1, <2>1
  <2> QED BY <1>1, <1>2, <1>3, <2>1, <2>2, <2>3
<1>7. OthersApart(ArenaSet \cup {a}, other)
  BY <1>6 DEF OthersApart
<1>8. /\ HEAP_ALIGN \in Nat \ {0} /\ ARENA_HDR \in Nat \ {0} /\ BLOCK_HDR \in Nat \ {0}
      /\ P % HEAP_ALIGN = 0 /\ ARENA_HDR % HEAP_ALIGN = 0 /\ BLOCK_HDR % HEAP_ALIGN = 0
  BY HeapAssumption
<1>9. \A k \in Nat : (k * P) % HEAP_ALIGN = 0
  <2> TAKE k \in Nat
  <2>1. PICK q \in Nat : P = q * HEAP_ALIGN
    BY <1>1, <1>8, Multiples
  <2>2. k * P = (k * q) * HEAP_ALIGN /\ k * q \in Nat
    BY <1>8, <2>1
  <2> HIDE DEF P
  <2>3. \A w \in Nat : (w * HEAP_ALIGN) % HEAP_ALIGN = 0
    BY <1>8, Multiples
  <2> QED BY <2>2, <2>3
<1>10. first_block(a) % HEAP_ALIGN = 0
  BY <1>1, <1>3, <1>8, <1>9, AlignSums DEF first_block
<1>11. ARENA_HDR + BLOCK_HDR <= n * P
  <2>1. first_block(a) + BLOCK_HDR <= ArenaEnd(a)
    BY <1>5, Geometry
  <2> QED BY <1>3, <1>8, <2>1 DEF first_block
<1>12. (n * P - ARENA_HDR - BLOCK_HDR) % HEAP_ALIGN = 0 /\ n * P - ARENA_HDR - BLOCK_HDR \in Nat
  <2> DEFINE u == n * P
             v == u - ARENA_HDR
  <2>1. u \in Nat /\ u % HEAP_ALIGN = 0 /\ ARENA_HDR + BLOCK_HDR <= u
    BY <1>3, <1>9, <1>11
  <2> HIDE DEF u
  <2>2. ARENA_HDR <= u /\ v \in Nat /\ BLOCK_HDR <= v /\ v - BLOCK_HDR \in Nat
    BY <1>8, <2>1
  <2>3. v % HEAP_ALIGN = 0
    BY <1>8, <2>1, <2>2, AlignSums
  <2> HIDE DEF v
  <2>4. (v - BLOCK_HDR) % HEAP_ALIGN = 0
    BY <1>8, <2>2, <2>3, AlignSums
  <2> QED BY <2>2, <2>4 DEF u, v
<1> QED BY <1>3, <1>4, <1>5, <1>7, <1>10, <1>12

LEMMA SplitTakes ==
    ASSUME NEW S, NEW bs, Shape(S, bs), NEW b \in DOMAIN bs, NEW size \in Nat,
           bs[b].size - size > BLOCK_HDR + HEAP_ALIGN, size % HEAP_ALIGN = 0,
           NEW cs, cs = alloc_from_block(bs, b, size)
    PROVE  /\ b \in DOMAIN cs /\ ~cs[b].free /\ size = cs[b].size
           /\ \A c \in DOMAIN bs : c # b => c \in DOMAIN cs /\ cs[c] = bs[c]
<1>1. PICK sp : sp = b + BLOCK_HDR + size /\ cs = alloc_from_block(bs, b, size)
  OBVIOUS
<1>2. /\ sp \in Nat /\ b < sp /\ sp < End(bs, b) /\ sp \notin DOMAIN bs
      /\ sp % HEAP_ALIGN = 0 /\ sp # NULL
      /\ DOMAIN cs = DOMAIN bs \cup {sp} /\ cs \in [DOMAIN cs -> BlockType]
      /\ cs[b] = [size |-> size, free |-> FALSE, next |-> sp]
      /\ cs[sp].next = bs[b].next /\ cs[sp].size % HEAP_ALIGN = 0
      /\ \A c \in DOMAIN bs : c # b => cs[c] = bs[c]
      /\ End(cs, b) = sp /\ End(cs, sp) = End(bs, b)
      /\ \A c \in DOMAIN bs : c # b => End(cs, c) = End(bs, c)
  BY <1>1, SplitFacts
<1> QED BY <1>2

\* alloc_from_block takes block b and leaves the others.
LEMMA AllocTakes ==
    ASSUME NEW S, NEW bs, Shape(S, bs), NEW b \in DOMAIN bs, NEW size \in Nat,
           size <= bs[b].size, size % HEAP_ALIGN = 0,
           NEW cs, cs = alloc_from_block(bs, b, size)
    PROVE  /\ b \in DOMAIN cs /\ ~cs[b].free /\ size <= cs[b].size /\ cs[b].size \in Nat
           /\ \A c \in DOMAIN bs : c # b => c \in DOMAIN cs /\ cs[c] = bs[c]
<1>1. bs[b].size \in Nat /\ bs[b] \in BlockType
  BY Sizing DEF Shape
<1>2. CASE bs[b].size - size > BLOCK_HDR + HEAP_ALIGN
  BY <1>2, SplitTakes
<1>3. CASE ~(bs[b].size - size > BLOCK_HDR + HEAP_ALIGN)
  BY <1>1, <1>3 DEF alloc_from_block, BlockType
<1> QED BY <1>2, <1>3

\* A block that was free is handed out; what was handed out before stays.
LEMMA AllocHeld ==
    ASSUME NEW S, NEW bs, Shape(S, bs), NEW lv, Held(bs, lv), NEW b \in DOMAIN bs, bs[b].free,
           NEW size \in Nat, size <= bs[b].size, size % HEAP_ALIGN = 0,
           NEW want \in Nat, want <= size
    PROVE  Held(alloc_from_block(bs, b, size), Store(lv, b + BLOCK_HDR, want))
<1>1. PICK cs : cs = alloc_from_block(bs, b, size)
  OBVIOUS
<1>2. \A c \in DOMAIN bs : c \in Nat /\ bs[c] \in BlockType
  BY Sizing DEF Shape
<1>3. /\ b \in DOMAIN cs /\ ~cs[b].free /\ size <= cs[b].size /\ cs[b].size \in Nat
      /\ \A c \in DOMAIN bs : c # b => c \in DOMAIN cs /\ cs[c] = bs[c]
  BY <1>1, AllocTakes
<1> DEFINE q == b + BLOCK_HDR
           nl == Store(lv, q, want)
<1>4. BLOCK_HDR \in Nat /\ q \in Nat /\ q - BLOCK_HDR = b
  BY <1>2, HeapAssumption
<1>5. DOMAIN nl = DOMAIN lv \cup {q} /\ nl[q] = want /\ \A p \in DOMAIN lv : p # q => nl[p] = lv[p]
  BY DEF Store
<1>6. nl \in [DOMAIN nl -> Nat] /\ DOMAIN nl \subseteq Nat
  <2>1. nl = [p \in DOMAIN nl |-> nl[p]]
    BY DEF Store
  <2>2. \A p \in DOMAIN nl : p \in Nat /\ nl[p] \in Nat
    BY <1>4, <1>5 DEF Held
  <2> HIDE DEF nl
  <2> QED BY <2>1, <2>2
<1> HIDE DEF nl, q
<1>7. ASSUME NEW p \in DOMAIN nl
      PROVE  /\ p - BLOCK_HDR \in DOMAIN cs /\ ~cs[p - BLOCK_HDR].free
             /\ nl[p] <= cs[p - BLOCK_HDR].size
  <2>1. CASE p = q
    BY <1>3, <1>4, <1>5, <2>1
  <2>2. CASE p # q
    <3>1. /\ p \in DOMAIN lv /\ p - BLOCK_HDR \in DOMAIN bs /\ ~bs[p - BLOCK_HDR].free
          /\ lv[p] <= bs[p - BLOCK_HDR].size
      BY <1>5, <2>2 DEF Held
    <3>2. p - BLOCK_HDR # b
      BY <3>1
    <3> QED BY <1>3, <1>5, <2>2, <3>1, <3>2
  <2> QED BY <2>1, <2>2
<1>8. Held(cs, nl)
  BY <1>6, <1>7 DEF Held
<1> QED BY <1>1, <1>8 DEF nl, q

\* A new arena leaves what is handed out alone.
LEMMA ArenaHeld ==
    ASSUME NEW bs, NEW lv, Held(bs, lv), NEW x, x \notin DOMAIN bs, NEW blk
    PROVE  Held(Store(bs, x, blk), lv)
BY DEF Held, Store

LEMMA HeapInit == Init => HeapInv
<1> SUFFICES ASSUME Init PROVE HeapInv
  OBVIOUS
<1>1. ArenaSet = {} /\ DOMAIN blocks = {} /\ DOMAIN live = {} /\ other = {}
  BY DEF Init, ArenaSet
<1>2. Shape(ArenaSet, blocks)
  BY <1>1 DEF Init, Shape, ArenasApart, BlocksApart, Chained
<1>3. Held(blocks, live)
  BY <1>1 DEF Init, Held
<1>4. OthersApart(ArenaSet, other)
  BY <1>1 DEF OthersApart
<1>5. up = FALSE /\ arenas = << >> /\ arenas \in Seq(ArenaType)
  BY DEF Init
<1> QED BY <1>1, <1>2, <1>3, <1>4, <1>5 DEF HeapInv

\* grow_heap, as far as heap_init and kmalloc share it.
LEMMA GrowShape ==
    ASSUME HeapInv, NEW m \in Nat, NEW n, n = FramesFor(m), NEW f \in FreeFrames, LowestRun(f, n),
           NEW a, a = [base |-> f * PMM_FRAME_SIZE, frame_count |-> n]
    PROVE  /\ a \in ArenaType
           /\ Shape(ArenaSet \cup {a}, WithArena(f, n)) /\ Held(WithArena(f, n), live)
           /\ OthersApart(ArenaSet \cup {a}, other)
           /\ first_block(a) \in DOMAIN WithArena(f, n)
           /\ WithArena(f, n)[first_block(a)].free
           /\ m <= WithArena(f, n)[first_block(a)].size
<1>1. n \in Nat \ {0} /\ n >= HEAP_MIN_ARENA_FRAMES
      /\ ARENA_HDR + BLOCK_HDR + m <= n * PMM_FRAME_SIZE
  BY FramesForIs
<1>2. f .. f + n - 1 \subseteq FreeFrames
  BY DEF LowestRun
<1> DEFINE blk == [size |-> n * PMM_FRAME_SIZE - ARENA_HDR - BLOCK_HDR,
                   free |-> TRUE, next |-> NULL]
<1>3. /\ a \in ArenaType /\ a \notin ArenaSet
      /\ ArenasApart(ArenaSet \cup {a}) /\ OthersApart(ArenaSet \cup {a}, other)
      /\ first_block(a) % HEAP_ALIGN = 0
      /\ blk.size % HEAP_ALIGN = 0 /\ blk.size \in Nat
  BY <1>1, <1>2, RunApart DEF HeapInv, Shape
<1>4. WithArena(f, n) = Store(blocks, first_block(a), blk)
  BY DEF WithArena, first_block
<1>5. blk \in BlockType /\ blk.next = NULL /\ blk.free
      /\ blk.size = a.frame_count * PMM_FRAME_SIZE - ARENA_HDR - BLOCK_HDR
  BY <1>3 DEF BlockType, NULL
<1>6. m <= blk.size
  BY <1>1, HeapAssumption
<1> HIDE DEF blk
<1>7. Shape(ArenaSet \cup {a}, Store(blocks, first_block(a), blk))
  BY <1>3, <1>5, ArenaShape DEF HeapInv
<1>8. first_block(a) \notin DOMAIN blocks
  <2>1. Inside(a, first_block(a))
    BY <1>3, Geometry
  <2> QED BY <1>3, <2>1, ArenaClear DEF HeapInv
<1>9. Held(Store(blocks, first_block(a), blk), live)
  BY <1>8, ArenaHeld DEF HeapInv
<1>10. /\ first_block(a) \in DOMAIN Store(blocks, first_block(a), blk)
       /\ Store(blocks, first_block(a), blk)[first_block(a)] = blk
  BY DEF Store
<1> QED BY <1>3, <1>4, <1>5, <1>6, <1>7, <1>9, <1>10

LEMMA InitKeeps ==
    ASSUME HeapInv, heap_init
    PROVE  HeapInv'
<1>1. arenas = << >> /\ ArenaSet = {} /\ up' = TRUE /\ UNCHANGED <<other, live>>
  BY DEF HeapInv, heap_init, ArenaSet
<1>2. CASE UNCHANGED <<arenas, blocks>>
  BY <1>1, <1>2 DEF HeapInv, ArenaSet
<1>3. CASE \E f \in FreeFrames :
             /\ LowestRun(f, FramesFor(0))
             /\ arenas' = <<[base |-> f * PMM_FRAME_SIZE, frame_count |-> FramesFor(0)]>>
             /\ blocks' = WithArena(f, FramesFor(0))
  <2>1. PICK f \in FreeFrames :
             /\ LowestRun(f, FramesFor(0))
             /\ arenas' = <<[base |-> f * PMM_FRAME_SIZE, frame_count |-> FramesFor(0)]>>
             /\ blocks' = WithArena(f, FramesFor(0))
    BY <1>3
  <2>2. PICK a, n : n = FramesFor(0) /\ a = [base |-> f * PMM_FRAME_SIZE, frame_count |-> n]
    OBVIOUS
  <2>3. /\ a \in ArenaType /\ Shape(ArenaSet \cup {a}, WithArena(f, n))
        /\ Held(WithArena(f, n), live) /\ OthersApart(ArenaSet \cup {a}, other)
    BY <2>1, <2>2, GrowShape
  <2>4. arenas' = <<a>> /\ blocks' = WithArena(f, n)
    BY <2>1, <2>2
  <2>5. ArenaSet' = ArenaSet \cup {a} /\ arenas' \in Seq(ArenaType)
    BY <1>1, <2>3, <2>4 DEF ArenaSet
  <2>6. Shape(ArenaSet, blocks)' /\ Held(blocks, live)' /\ OthersApart(ArenaSet, other)'
    <3>1. Shape(ArenaSet', blocks') /\ Held(blocks', live') /\ OthersApart(ArenaSet', other')
      BY <1>1, <2>3, <2>4, <2>5
    <3> QED BY <3>1
  <2> QED BY <1>1, <2>5, <2>6 DEF HeapInv
<1> QED BY <1>2, <1>3 DEF heap_init

LEMMA FitKeeps ==
    ASSUME HeapInv, NEW size \in Sizes, kmalloc_fit(size)
    PROVE  HeapInv'
<1>1. PICK b \in DOMAIN blocks :
         /\ FirstFit(b, Aligned(size))
         /\ blocks' = alloc_from_block(blocks, b, Aligned(size))
         /\ live' = Store(live, b + BLOCK_HDR, size)
  BY DEF kmalloc_fit
<1>2. up /\ UNCHANGED <<up, arenas, other>> /\ ArenaSet' = ArenaSet
  BY DEF kmalloc_fit, ArenaSet
<1>3. blocks[b].free /\ blocks[b].size >= Aligned(size)
  BY <1>1 DEF FirstFit, Fits
<1>4. size \in Nat /\ Aligned(size) \in Nat /\ size <= Aligned(size) /\ Aligned(size) % HEAP_ALIGN = 0
  BY AlignedIs, HeapAssumption
<1>5. blocks[b].size \in Nat
  BY Sizing DEF HeapInv, Shape
<1>6. Aligned(size) <= blocks[b].size
  BY <1>3, <1>4, <1>5
<1>7. Shape(ArenaSet', blocks')
  BY <1>1, <1>2, <1>4, <1>6, AllocShape DEF HeapInv
<1>8. Held(blocks', live')
  BY <1>1, <1>3, <1>4, <1>6, AllocHeld DEF HeapInv
<1> QED BY <1>2, <1>7, <1>8 DEF HeapInv

LEMMA GrowKeeps ==
    ASSUME HeapInv, NEW size \in Sizes, kmalloc_grow(size)
    PROVE  HeapInv'
<1>1. PICK f, n, a, b :
        /\ f \in FreeFrames /\ n = FramesFor(Aligned(size)) /\ LowestRun(f, n)
        /\ a = [base |-> f * PMM_FRAME_SIZE, frame_count |-> n] /\ b = first_block(a)
        /\ arenas' = <<a>> \o arenas
        /\ blocks' = alloc_from_block(WithArena(f, n), b, Aligned(size))
        /\ live' = Store(live, b + BLOCK_HDR, size)
  BY DEF kmalloc_grow
<1>2. up /\ UNCHANGED <<up, other>>
  BY DEF kmalloc_grow
<1>3. size \in Nat /\ Aligned(size) \in Nat /\ size <= Aligned(size) /\ Aligned(size) % HEAP_ALIGN = 0
  BY AlignedIs, HeapAssumption
<1>4. PICK bs : bs = WithArena(f, n)
  OBVIOUS
<1>5. /\ a \in ArenaType /\ Shape(ArenaSet \cup {a}, bs)
      /\ Held(bs, live) /\ OthersApart(ArenaSet \cup {a}, other)
      /\ b \in DOMAIN bs /\ bs[b].free /\ Aligned(size) <= bs[b].size
  BY <1>1, <1>3, <1>4, GrowShape
<1>6. Shape(ArenaSet \cup {a}, blocks')
  BY <1>1, <1>3, <1>4, <1>5, AllocShape
<1>7. Held(blocks', live')
  BY <1>1, <1>3, <1>4, <1>5, AllocHeld
<1>8. arenas' \in Seq(ArenaType) /\ ArenaSet' = ArenaSet \cup {a}
  <2>1. arenas \in Seq(ArenaType) /\ <<a>> \in Seq(ArenaType)
    BY <1>5 DEF HeapInv
  <2>2. arenas' \in Seq(ArenaType) /\ DOMAIN arenas' = 1 .. Len(arenas) + 1
        /\ arenas'[1] = a /\ \A i \in 1 .. Len(arenas) : arenas'[i + 1] = arenas[i]
    BY <1>1, <2>1
  <2>3. DOMAIN arenas = 1 .. Len(arenas) /\ Len(arenas) \in Nat
    BY <2>1
  <2>4. ASSUME NEW x \in ArenaSet' PROVE x \in ArenaSet \cup {a}
    <3>1. PICK i \in DOMAIN arenas' : x = arenas'[i]
      BY DEF ArenaSet
    <3>2. CASE i = 1
      BY <2>2, <3>1, <3>2
    <3>3. CASE i # 1
      <4>1. i - 1 \in 1 .. Len(arenas) /\ (i - 1) + 1 = i
        BY <2>2, <2>3, <3>1, <3>3
      <4>2. x = arenas[i - 1]
        BY <2>2, <3>1, <4>1
      <4> QED BY <2>3, <4>1, <4>2 DEF ArenaSet
    <3> QED BY <3>2, <3>3
  <2>5. ASSUME NEW x \in ArenaSet \cup {a} PROVE x \in ArenaSet'
    <3>1. CASE x = a
      <4>1. 1 \in DOMAIN arenas'
        BY <2>2, <2>3
      <4> QED BY <2>2, <3>1, <4>1 DEF ArenaSet
    <3>2. CASE x \in ArenaSet
      <4>1. PICK i \in DOMAIN arenas : x = arenas[i]
        BY <3>2 DEF ArenaSet
      <4>2. i + 1 \in DOMAIN arenas' /\ arenas'[i + 1] = x
        BY <2>2, <2>3, <4>1
      <4> QED BY <4>2 DEF ArenaSet
    <3> QED BY <3>1, <3>2
  <2> QED BY <2>2, <2>4, <2>5
<1> QED BY <1>2, <1>5, <1>6, <1>7, <1>8 DEF HeapInv

\* The next block of the chain begins where this one ends.
LEMMA NextIs ==
    ASSUME NEW S, NEW bs, Shape(S, bs), NEW b \in DOMAIN bs, bs[b].next # NULL
    PROVE  bs[b].next \in DOMAIN bs /\ bs[b].next # b
<1>1. PICK a \in S : Inside(a, b)
  BY HomeExists DEF Shape
<1>2. bs[b].next = End(bs, b) /\ End(bs, b) \in DOMAIN bs
  BY <1>1 DEF Shape, Chained
<1>3. b \in Nat /\ End(bs, b) \in Nat /\ b < End(bs, b)
  BY Sizing DEF Shape
<1> QED BY <1>2, <1>3

\* Giving back one pointer leaves the others held, if their blocks are kept.
LEMMA FreeHeld ==
    ASSUME NEW bs, NEW lv, Held(bs, lv), NEW p \in DOMAIN lv, NEW cs,
           \A c \in DOMAIN bs : c # p - BLOCK_HDR /\ ~bs[c].free => c \in DOMAIN cs /\ cs[c] = bs[c]
    PROVE  Held(cs, Restrict(lv, DOMAIN lv \ {p}))
<1>1. BLOCK_HDR \in Nat
  BY HeapAssumption
<1>2. Restrict(lv, DOMAIN lv \ {p}) = [q \in DOMAIN lv \ {p} |-> lv[q]]
  BY DEF Restrict
<1>3. \A q \in DOMAIN lv : q # p => q - BLOCK_HDR # p - BLOCK_HDR
  BY <1>1 DEF Held
<1> QED BY <1>2, <1>3 DEF Held

LEMMA FreeKeeps ==
    ASSUME HeapInv, NEW ptr \in DOMAIN live, kfree(ptr)
    PROVE  HeapInv'
<1>1. PICK b, n : b = ptr - BLOCK_HDR /\ n = blocks[b].next
  OBVIOUS
<1>2. /\ blocks' = IF n # NULL /\ blocks[n].free
                   THEN [Restrict(blocks, DOMAIN blocks \ {n}) EXCEPT
                           ![b] = [size |-> @.size + BLOCK_HDR + blocks[n].size,
                                   free |-> TRUE, next |-> blocks[n].next]]
                   ELSE [blocks EXCEPT ![b].free = TRUE]
      /\ live' = Restrict(live, DOMAIN live \ {ptr})
      /\ UNCHANGED <<up, arenas, other>>
  BY <1>1 DEF kfree
<1>3. ArenaSet' = ArenaSet
  BY <1>2 DEF ArenaSet
<1>4. b \in DOMAIN blocks /\ Shape(ArenaSet, blocks) /\ Held(blocks, live)
  BY <1>1 DEF HeapInv, Held
<1>5. up
  BY <1>4 DEF HeapInv
<1>6. \A c \in DOMAIN blocks : blocks[c] \in BlockType
  BY <1>4, Sizing DEF Shape
<1>7. CASE n # NULL /\ blocks[n].free
  <2>1. n \in DOMAIN blocks /\ n # b
    BY <1>1, <1>4, <1>7, NextIs
  <2>2. PICK cs : cs = blocks'
    OBVIOUS
  <2>3. /\ DOMAIN cs = DOMAIN blocks \ {n}
        /\ cs[b] = [size |-> blocks[b].size + BLOCK_HDR + blocks[n].size,
                    free |-> TRUE, next |-> blocks[n].next]
        /\ \A c \in DOMAIN blocks \ {n} : c # b => cs[c] = blocks[c]
        /\ cs = [c \in DOMAIN cs |-> cs[c]]
    BY <1>2, <1>4, <1>7, <2>1, <2>2 DEF Restrict
  <2>4. cs[b] \in BlockType
    <3>1. blocks[b].size \in Nat /\ blocks[n].size \in Nat /\ blocks[n].next \in Nat
      BY <1>4, <1>6, <2>1 DEF BlockType
    <3> QED BY <2>3, <3>1, HeapAssumption DEF BlockType
  <2>5. cs \in [DOMAIN cs -> BlockType]
    <3>1. \A c \in DOMAIN cs : cs[c] \in BlockType
      BY <1>6, <2>3, <2>4
    <3> QED BY <2>3, <3>1
  <2>6. Shape(ArenaSet, cs)
    <3>1. cs[b].size = blocks[b].size + BLOCK_HDR + blocks[n].size /\ cs[b].next = blocks[n].next
      BY <2>3
    <3> QED BY <1>1, <1>4, <1>7, <2>3, <2>5, <3>1, MergeShape
  <2>7. Held(cs, live')
    <3>1. \A c \in DOMAIN blocks : c # ptr - BLOCK_HDR /\ ~blocks[c].free =>
            c \in DOMAIN cs /\ cs[c] = blocks[c]
      BY <1>1, <1>7, <2>3
    <3> QED BY <1>2, <1>4, <3>1, FreeHeld
  <2>8. Shape(ArenaSet', blocks') /\ Held(blocks', live')
    BY <1>3, <2>2, <2>6, <2>7
  <2> QED BY <1>2, <1>3, <1>5, <2>8 DEF HeapInv
<1>8. CASE ~(n # NULL /\ blocks[n].free)
  <2>1. PICK cs : cs = [blocks EXCEPT ![b].free = TRUE]
    OBVIOUS
  <2>2. blocks \in [DOMAIN blocks -> BlockType]
    BY <1>4 DEF Shape, BlocksApart
  <2>3. /\ DOMAIN cs = DOMAIN blocks /\ cs \in [DOMAIN blocks -> BlockType]
        /\ \A c \in DOMAIN blocks : cs[c].size = blocks[c].size /\ cs[c].next = blocks[c].next
        /\ \A c \in DOMAIN blocks : c # b => cs[c] = blocks[c]
    BY <1>4, <2>1, <2>2 DEF BlockType
  <2>4. Shape(ArenaSet, cs)
    BY <1>4, <2>3, SameShape
  <2>5. Held(cs, live')
    BY <1>1, <1>2, <1>4, <2>3, FreeHeld
  <2>6. Shape(ArenaSet', blocks') /\ Held(blocks', live')
    BY <1>2, <1>3, <1>8, <2>1, <2>4, <2>5
  <2> QED BY <1>2, <1>3, <1>5, <2>6 DEF HeapInv
<1> QED BY <1>7, <1>8

LEMMA OthersKeep ==
    ASSUME HeapInv, OtherAlloc \/ OtherFree
    PROVE  HeapInv'
<1>1. UNCHANGED <<up, arenas, blocks, live>> /\ ArenaSet' = ArenaSet
  BY DEF OtherAlloc, OtherFree, ArenaSet
<1>2. OthersApart(ArenaSet, other')
  <2>1. CASE OtherFree
    BY <2>1 DEF OtherFree, HeapInv, OthersApart
  <2>2. CASE OtherAlloc
    <3> DEFINE P == PMM_FRAME_SIZE
    <3>1. PICK f \in FreeFrames : other' = other \cup {f}
      BY <2>2 DEF OtherAlloc
    <3>2. f \in Nat /\ P \in Nat \ {0}
      BY HeapAssumption DEF FreeFrames
    <3>3. ASSUME NEW c \in ArenaSet
          PROVE  (f + 1) * P <= c.base \/ ArenaEnd(c) <= f * P
      <4>1. PICK g \in Nat : c.base = g * P
        BY DEF HeapInv, Shape, ArenasApart
      <4> DEFINE m == c.frame_count
      <4>2. m \in Nat
        BY Geometry DEF HeapInv, Shape
      <4>3. ArenaFrames(c) = g .. g + m - 1
        <5>1. (g * P) \div P = g
          BY <3>2, Multiples
        <5> QED BY <4>1, <5>1 DEF ArenaFrames
      <4>4. f \notin ArenaFrames(c)
        BY DEF FreeFrames, ArenaSet
      <4> HIDE DEF m
      <4>5. f + 1 <= g \/ g + m <= f
        BY <3>2, <4>2, <4>3, <4>4
      <4>6. \A x, y, z \in Nat : x <= y => x * z <= y * z
        BY SMTT(30)
      <4>7. ArenaEnd(c) = (g + m) * P /\ g + m \in Nat /\ f + 1 \in Nat
        BY <3>2, <4>1, <4>2 DEF ArenaEnd, m
      <4> QED BY <3>2, <4>1, <4>5, <4>6, <4>7
    <3> QED BY <3>1, <3>2, <3>3 DEF HeapInv, OthersApart
  <2> QED BY <2>1, <2>2
<1>3. OthersApart(ArenaSet', other') /\ Shape(ArenaSet', blocks') /\ Held(blocks', live')
  BY <1>1, <1>2 DEF HeapInv
<1> QED BY <1>1, <1>3 DEF HeapInv

LEMMA HeapPreserved == HeapInv /\ [Next]_vars => HeapInv'
<1> SUFFICES ASSUME HeapInv, [Next]_vars PROVE HeapInv'
  OBVIOUS
<1>1. CASE UNCHANGED vars
  <2>1. ArenaSet' = ArenaSet /\ UNCHANGED <<up, arenas, blocks, other, live>>
    BY <1>1 DEF vars, ArenaSet
  <2> QED BY <2>1 DEF HeapInv
<1> QED BY <1>1, InitKeeps, FitKeeps, GrowKeeps, FreeKeeps, OthersKeep DEF Next

-----------------------------------------------------------------------------
(* What the shape says.                                                    *)

LEMMA ShapeTiles == HeapInv => Tiling
<1> SUFFICES ASSUME HeapInv PROVE Tiling
  OBVIOUS
<1>1. \A i \in DOMAIN arenas : arenas[i] \in ArenaSet
  BY DEF ArenaSet
<1>2. \A b : BlockEnd(b) = End(blocks, b)
  BY DEF BlockEnd, End
<1>3. \A i \in DOMAIN arenas : \A b : b \in InArena(arenas[i]) <=>
        b \in DOMAIN blocks /\ Inside(arenas[i], b)
  BY DEF InArena, Inside
<1>4. \A b \in DOMAIN blocks : b % HEAP_ALIGN = 0 /\ blocks[b].size % HEAP_ALIGN = 0
  BY DEF HeapInv, Shape, BlocksApart
<1>5. ASSUME NEW i \in DOMAIN arenas
      PROVE  /\ first_block(arenas[i]) \in DOMAIN blocks
             /\ \A b \in InArena(arenas[i]) :
                  IF blocks[b].next = NULL
                  THEN BlockEnd(b) = ArenaEnd(arenas[i])
                  ELSE blocks[b].next = BlockEnd(b) /\ BlockEnd(b) \in InArena(arenas[i])
             /\ \A b \in InArena(arenas[i]) \ {first_block(arenas[i])} :
                  \E c \in InArena(arenas[i]) : blocks[c].next = b
  BY <1>1, <1>2, <1>3 DEF HeapInv, Shape, Chained
<1>6. ASSUME NEW b \in DOMAIN blocks
      PROVE  \E i \in DOMAIN arenas : b \in InArena(arenas[i])
  <2>1. PICK a \in ArenaSet : Inside(a, b)
    BY HomeExists DEF HeapInv, Shape
  <2>2. PICK i \in DOMAIN arenas : a = arenas[i]
    BY DEF ArenaSet
  <2> QED BY <1>3, <2>1, <2>2
<1> QED BY <1>4, <1>5, <1>6 DEF Tiling

LEMMA ShapeIsPrivate == HeapInv => LiveIsPrivate
<1> SUFFICES ASSUME HeapInv, NEW p \in DOMAIN live
             PROVE  LET lo == p
                        hi == p + live[p]
                    IN  /\ p - BLOCK_HDR \in DOMAIN blocks
                        /\ ~blocks[p - BLOCK_HDR].free
                        /\ hi <= BlockEnd(p - BLOCK_HDR)
                        /\ \A b \in DOMAIN blocks : b + BLOCK_HDR <= lo \/ hi <= b
                        /\ \A i \in DOMAIN arenas :
                             arenas[i].base + ARENA_HDR <= lo \/ hi <= arenas[i].base
                        /\ \A q \in DOMAIN live \ {p} : q + live[q] <= lo \/ hi <= q
                        /\ \A f \in other :
                             (f + 1) * PMM_FRAME_SIZE <= lo \/ hi <= f * PMM_FRAME_SIZE
  BY DEF LiveIsPrivate
<1>1. BLOCK_HDR \in Nat \ {0} /\ ARENA_HDR \in Nat /\ PMM_FRAME_SIZE \in Nat
  BY HeapAssumption
<1>2. PICK c \in DOMAIN blocks : c = p - BLOCK_HDR
  BY DEF HeapInv, Held
<1>3. \A q \in DOMAIN live : /\ q \in Nat /\ live[q] \in Nat /\ q - BLOCK_HDR \in DOMAIN blocks
                             /\ ~blocks[q - BLOCK_HDR].free
                             /\ live[q] <= blocks[q - BLOCK_HDR].size
  BY DEF HeapInv, Held
<1>4. \A b \in DOMAIN blocks : /\ b \in Nat /\ blocks[b].size \in Nat
                               /\ End(blocks, b) \in Nat /\ b + BLOCK_HDR <= End(blocks, b)
  BY Sizing DEF HeapInv, Shape
<1> DEFINE hi == p + live[p]
<1>5. p \in Nat /\ c + BLOCK_HDR = p /\ hi \in Nat /\ hi <= End(blocks, c)
  BY <1>1, <1>2, <1>3, <1>4 DEF End
<1>6. BlockEnd(c) = End(blocks, c)
  BY DEF BlockEnd, End
<1> HIDE DEF hi
<1>7. \A b, d \in DOMAIN blocks : b < d => End(blocks, b) <= d
  BY DEF HeapInv, Shape, BlocksApart
<1>8. ASSUME NEW b \in DOMAIN blocks PROVE b + BLOCK_HDR <= p \/ hi <= b
  BY <1>1, <1>4, <1>5, <1>7
<1>9. PICK a \in ArenaSet : first_block(a) <= c /\ End(blocks, c) <= ArenaEnd(a)
  BY DEF HeapInv, Shape, BlocksApart
<1>10. \A d \in ArenaSet : /\ d.base \in Nat /\ ArenaEnd(d) \in Nat /\ first_block(d) \in Nat
                           /\ first_block(d) = d.base + ARENA_HDR
                           /\ d.base < first_block(d)
                           /\ first_block(d) + BLOCK_HDR <= ArenaEnd(d)
  BY Geometry DEF HeapInv, Shape, first_block
<1>11. ASSUME NEW i \in DOMAIN arenas
       PROVE  arenas[i].base + ARENA_HDR <= p \/ hi <= arenas[i].base
  <2>1. PICK d \in ArenaSet : d = arenas[i]
    BY DEF ArenaSet
  <2>2. a = d \/ ArenaEnd(a) <= d.base \/ ArenaEnd(d) <= a.base
    BY DEF HeapInv, Shape, ArenasApart
  <2>3. d.base + ARENA_HDR <= p \/ hi <= d.base
    BY <1>1, <1>4, <1>5, <1>9, <1>10, <2>2
  <2> QED BY <2>1, <2>3
<1>12. ASSUME NEW q \in DOMAIN live \ {p}
       PROVE  q + live[q] <= p \/ hi <= q
  <2>1. PICK d \in DOMAIN blocks : d = q - BLOCK_HDR
    BY <1>3
  <2>2. /\ q \in Nat /\ live[q] \in Nat /\ d + BLOCK_HDR = q
        /\ q + live[q] <= End(blocks, d) /\ d # c
    BY <1>1, <1>2, <1>3, <1>4, <1>5, <2>1 DEF End
  <2>3. CASE d < c
    <3>1. End(blocks, d) <= c
      BY <1>7, <2>3
    <3> QED BY <1>1, <1>4, <1>5, <2>2, <3>1
  <2>4. CASE c < d
    <3>1. End(blocks, c) <= d
      BY <1>7, <2>4
    <3> QED BY <1>1, <1>4, <1>5, <2>2, <3>1
  <2> QED BY <1>4, <2>2, <2>3, <2>4
<1>13. ASSUME NEW f \in other
       PROVE  (f + 1) * PMM_FRAME_SIZE <= p \/ hi <= f * PMM_FRAME_SIZE
  <2>1. f \in Nat /\ ((f + 1) * PMM_FRAME_SIZE <= a.base \/ ArenaEnd(a) <= f * PMM_FRAME_SIZE)
    BY DEF HeapInv, OthersApart
  <2>2. (f + 1) * PMM_FRAME_SIZE \in Nat /\ f * PMM_FRAME_SIZE \in Nat
    BY <1>1, <2>1
  <2> QED BY <1>1, <1>4, <1>5, <1>9, <1>10, <2>1, <2>2
<1> QED BY <1>2, <1>3, <1>5, <1>6, <1>8, <1>11, <1>12, <1>13 DEF hi

\* The blocks of every arena tile it after any sequence of kmalloc and kfree.
THEOREM TilingSafe == Spec => []Tiling
BY HeapInit, HeapPreserved, ShapeTiles, PTL DEF Spec

\* No two allocations, no header and no other user of the PMM share a byte.
THEOREM LiveSafe == Spec => []LiveIsPrivate
BY HeapInit, HeapPreserved, ShapeIsPrivate, PTL DEF Spec
=============================================================================
