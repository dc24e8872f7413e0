--------------------------- MODULE MemoryProofs ---------------------------
(***************************************************************************)
(* Proofs about the frame allocator: for every frame size, memory map and  *)
(* kernel image, until an owner writes over the bitmap the counter of free *)
(* frames is exact, no frame has two owners and every frame handed out is  *)
(* usable RAM; of the reservation only the frame the bitmap ends in can be *)
(* handed out, and only when the bitmap ends inside a frame can its owner  *)
(* reach bits.  For every bitmap, the search of pmm_alloc_frames finds     *)
(* what Pmm says it takes, and PmmAlloc, which runs it, implements Pmm.    *)
(*                                                                         *)
(* And about the page tables on those frames: for every number of levels,  *)
(* entries, frames, spaces and pages, as long as a frame is left, every    *)
(* table is private, user pages are open, no translation is stale, and the *)
(* tables implement AddrSpace.                                             *)
(***************************************************************************)
EXTENDS PmmAlloc, Vmm, FiniteSetTheorems, SequenceTheorems, WellFoundedInduction, TLAPS

-----------------------------------------------------------------------------
(* Arithmetic of frames.                                                   *)

\* Integer division rounds down (ALIGN_DOWN and addr / PMM_FRAME_SIZE).
LEMMA DivProperties ==
    ASSUME NEW a \in Nat, NEW d \in Nat \ {0}
    PROVE  /\ a \div d \in Nat
           /\ (a \div d) * d <= a
           /\ a < (a \div d) * d + d
  BY SMTT(30)

\* Products of naturals are naturals (addresses of frames).
LEMMA MulNat ==
    ASSUME NEW a \in Nat, NEW d \in Nat
    PROVE  /\ a * d \in Nat
           /\ (a + 1) * d = a * d + d
  BY SMTT(30)

\* The address of a frame grows with its number.
LEMMA MulMonotone ==
    ASSUME NEW a \in Nat, NEW b \in Nat, NEW d \in Nat, a <= b
    PROVE  a * d <= b * d
  BY SMTT(30)

\* An aligned address is the address of its frame.
LEMMA ModZero ==
    ASSUME NEW a \in Nat, NEW d \in Nat \ {0}, a % d = 0
    PROVE  (a \div d) * d = a
  BY SMTT(30)

\* A frame that starts below x and ends above it is the frame of x.
LEMMA DivLess ==
    ASSUME NEW a \in Nat, NEW d \in Nat \ {0}, NEW q \in Nat
    PROVE  /\ a < (q + 1) * d => a \div d <= q
           /\ q * d <= a => q <= a \div d
  <1>1. a \div d >= q + 1 => (q + 1) * d <= (a \div d) * d
    BY MulMonotone, DivProperties
  <1>2. q >= a \div d + 1 => (a \div d + 1) * d <= q * d
    BY MulMonotone, DivProperties
  <1>3. /\ (a \div d + 1) * d = (a \div d) * d + d
        /\ (a \div d) * d \in Nat /\ (q + 1) * d \in Nat /\ q * d \in Nat
    BY MulNat, DivProperties
  <1> QED BY <1>1, <1>2, <1>3, DivProperties

\* Every bit of the bitmap lies in its bitmap_bytes bytes.
LEMMA BitInBitmap ==
    ASSUME NEW g \in Nat, NEW t \in Nat, NEW b \in Nat \ {0}, g < t
    PROVE  /\ g \div b \in Nat
           /\ (t + b - 1) \div b \in Nat
           /\ g \div b < (t + b - 1) \div b
  <1> DEFINE q == g \div b
             p == (t + b - 1) \div b
  <1>0. t + b - 1 \in Nat
    OBVIOUS
  <1>1. q \in Nat /\ q * b <= g
    BY DivProperties
  <1>2. p \in Nat /\ t + b - 1 < p * b + b
    BY <1>0, DivProperties
  <1>3. p <= q => p * b <= q * b
    BY <1>1, <1>2, MulMonotone
  <1>4. q * b \in Nat /\ p * b \in Nat
    BY <1>1, <1>2, MulNat
  <1> HIDE DEF q, p
  <1>5. q < p
    BY <1>1, <1>2, <1>3, <1>4
  <1> QED BY <1>1, <1>2, <1>5 DEF q, p

\* ALIGN_UP does not go below its argument.
LEMMA AlignUp ==
    ASSUME NEW x \in Nat, NEW a \in Nat \ {0}
    PROVE  ALIGN_UP(x, a) \in Nat /\ x <= ALIGN_UP(x, a)
  <1>1. x + a - 1 \in Nat
    OBVIOUS
  <1>2. /\ (x + a - 1) \div a \in Nat
        /\ x + a - 1 < ((x + a - 1) \div a) * a + a
    BY <1>1, DivProperties
  <1>3. ((x + a - 1) \div a) * a \in Nat
    BY <1>2, MulNat
  <1> QED BY <1>2, <1>3 DEF ALIGN_UP

\* The numbers the counter of free frames is compared with: the clear bits
\* of U, the set bits of U in F and the clear bits of U in F.
ClearBits(S, U) == Cardinality(S \ U)
SetBitsOf(F, U) == Cardinality(F \cap U)
ClearBitsOf(F, U) == Cardinality(F \ U)

\* Clearing the bits of F adds the ones that were set to the free frames.
LEMMA CountOfRelease ==
    ASSUME NEW S, IsFiniteSet(S), NEW F \in SUBSET S, NEW U
    PROVE  /\ ClearBits(S, U \ F) = ClearBits(S, U) + SetBitsOf(F, U)
           /\ ClearBits(S, U) \in Nat /\ SetBitsOf(F, U) \in Nat
  <1> DEFINE C == S \ U
             B == F \cap U
  <1>1. IsFiniteSet(C) /\ IsFiniteSet(B)
    BY FS_Subset
  <1>2. Cardinality(C) \in Nat /\ Cardinality(B) \in Nat
    BY <1>1, FS_CardinalityType
  <1>3. S \ (U \ F) = C \cup B /\ C \cap B = {}
    OBVIOUS
  <1>4. Cardinality(C \cup B) = Cardinality(C) + Cardinality(B) - Cardinality(C \cap B)
    BY <1>1, FS_Union
  <1>5. Cardinality({}) = 0
    BY FS_EmptySet
  <1> HIDE DEF C, B
  <1>6. Cardinality(S \ (U \ F)) = Cardinality(C) + Cardinality(B) - 0
    BY <1>3, <1>4, <1>5, Zenon
  <1>7. Cardinality(S \ (U \ F)) = Cardinality(C) + Cardinality(B)
    BY <1>2, <1>6
  <1> QED BY <1>2, <1>7 DEF C, B, ClearBits, SetBitsOf

\* Setting the bits of F takes the ones that were clear from the free frames.
LEMMA CountOfGrant ==
    ASSUME NEW S, IsFiniteSet(S), NEW F \in SUBSET S, NEW U
    PROVE  /\ ClearBits(S, U \cup F) = ClearBits(S, U) - ClearBitsOf(F, U)
           /\ ClearBits(S, U) \in Nat /\ ClearBitsOf(F, U) \in Nat
           /\ ClearBits(S, U) >= ClearBitsOf(F, U)
  <1> DEFINE B == F \ U
             C == S \ (U \cup F)
  <1>1. IsFiniteSet(B) /\ IsFiniteSet(C)
    BY FS_Subset
  <1>2. Cardinality(B) \in Nat /\ Cardinality(C) \in Nat
    BY <1>1, FS_CardinalityType
  <1>3. S \ U = C \cup B /\ C \cap B = {}
    OBVIOUS
  <1>4. Cardinality(C \cup B) = Cardinality(C) + Cardinality(B) - Cardinality(C \cap B)
    BY <1>1, FS_Union
  <1>5. Cardinality({}) = 0
    BY FS_EmptySet
  <1> HIDE DEF B, C
  <1>6. Cardinality(S \ U) = Cardinality(C) + Cardinality(B) - 0
    BY <1>3, <1>4, <1>5, Zenon
  <1>7. /\ Cardinality(C) = Cardinality(S \ U) - Cardinality(B)
        /\ Cardinality(S \ U) \in Nat /\ Cardinality(S \ U) >= Cardinality(B)
    BY <1>2, <1>6
  <1> QED BY <1>2, <1>7 DEF B, C, ClearBits, ClearBitsOf

-----------------------------------------------------------------------------
(* The inductive invariant.                                                *)

\* A region handed to pmm_init is aligned and inside reported RAM.
RegionUsable(r, m, a) ==
    /\ r.base % PMM_FRAME_SIZE = 0
    /\ r.base >= PMM_FRAME_SIZE
    /\ \E x \in m : x[1] <= r.base /\ Top(r) <= x[2]
    /\ a = "x86_64" => LOW_MEM_RESERVED <= r.base /\ Top(r) <= IDENTITY_MAP_LIMIT

EntriesAligned ==
    \A i \in 1..Len(mmap) : mmap[i].addr >= LOW_MEM_RESERVED
                               => mmap[i].addr % PMM_FRAME_SIZE = 0

RegionsUsable == \A i \in 1..Len(regions) : RegionUsable(regions[i], ram, arch)

\* Nothing is free before the regions are marked, nothing owned before boot ends.
BootOrder ==
    /\ boot \in {"scan", "size"} => total_frames = 0
    /\ boot # "ready" => held = {}

\* Whatever a set of clear bits allows to be handed out is usable.
FreeIsUsable == \A f \in Frames \ used : UsableFrame(f)

\* The frames of the reservation are used and nobody's, but for the frame the
\* bitmap ends in.
OverlapsUsed ==
    boot = "ready" =>
      \A f \in Frames : Overlaps(f) /\ f # Frame(bitmap_end) => f \in used \ held

\* The promises of Pmm as they stand while the bitmap is intact.
CountExact == free_frames = Cardinality(Frames \ used)
OneOwner == shared = {}
HeldUsable == \A f \in held : UsableFrame(f)

IInv ==
    /\ TypeOK
    /\ reserved[1] <= reserved[2]
    /\ CountExact
    /\ OneOwner
    /\ HeldUsable
    /\ EntriesAligned
    /\ RegionsUsable
    /\ BootOrder
    /\ FreeIsUsable
    /\ held \subseteq used
    /\ OverlapsUsed

\* IInv holds until an owner writes over the bitmap, which takes a bitmap that
\* ends inside a frame; afterwards only the types are left.
PmmInv ==
    /\ TypeOK
    /\ clobbered => boot = "ready" /\ bitmap_end % PMM_FRAME_SIZE # 0
    /\ clobbered \/ IInv

\* What Head and Tail leave of a list (the entries and regions still to visit).
LEMMA HeadTail ==
    ASSUME NEW S, NEW s \in Seq(S), s # << >>
    PROVE  /\ Head(s) \in S /\ Head(s) = s[1]
           /\ Tail(s) \in Seq(S)
           /\ Len(s) \in Nat /\ Len(s) >= 1
           /\ Len(Tail(s)) = Len(s) - 1
           /\ \A i \in 1..Len(Tail(s)) : Tail(s)[i] = s[i + 1]
  <1>1. Len(s) \in Nat /\ Len(s) # 0
    BY EmptySeq
  <1>2. Head(s) \in S /\ Tail(s) \in Seq(S) /\ Len(Tail(s)) = Len(s) - 1
        /\ \A i \in 1..Len(Tail(s)) : Tail(s)[i] = s[i + 1]
    BY HeadTailProperties
  <1>3. Head(s) = s[1]
    OBVIOUS
  <1> QED BY <1>1, <1>2, <1>3

LEMMA FramesFinite == TypeOK => IsFiniteSet(Frames)
  BY FS_Interval DEF TypeOK, Frames

\* The bitmap starts after the kernel image and ends after it starts.
LEMMA BitmapType ==
    ASSUME TypeOK
    PROVE  /\ bitmap \in Nat /\ bitmap_bytes \in Nat /\ bitmap_end \in Nat
           /\ reserved[2] <= bitmap
           /\ bitmap_end = bitmap + bitmap_bytes
  <1>1. reserved[2] \in Nat /\ total_frames \in Nat /\ total_frames + BITS - 1 \in Nat
    BY GeometryAssumption DEF TypeOK
  <1>2. bitmap \in Nat /\ reserved[2] <= bitmap
    BY <1>1, AlignUp, GeometryAssumption DEF bitmap
  <1>3. bitmap_bytes \in Nat
    BY <1>1, DivProperties, GeometryAssumption DEF bitmap_bytes
  <1> QED BY <1>2, <1>3 DEF bitmap_end

\* An owner whose frame holds a bit of the bitmap owns the frame the bitmap
\* ends in, and the bitmap ends inside it.
LEMMA OwnersReachTailOnly ==
    ASSUME IInv, boot = "ready", NEW f \in held, BitsIn(f) # {}
    PROVE  f = Frame(bitmap_end) /\ bitmap_end % PMM_FRAME_SIZE # 0
  <1>1. PICK g \in Frames : Frame(bitmap + (g \div BITS)) = f
    BY DEF BitsIn
  <1> DEFINE q == g \div BITS
  <1>2. /\ TypeOK /\ g \in Nat /\ g < total_frames /\ total_frames \in Nat
        /\ f \in Frames /\ f \in Nat /\ reserved[1] \in Nat /\ reserved[2] \in Nat
        /\ reserved[1] <= reserved[2]
    BY DEF IInv, TypeOK, Frames
  <1>3. q \in Nat /\ q < bitmap_bytes
    BY <1>2, BitInBitmap, GeometryAssumption DEF bitmap_bytes
  <1>4. /\ bitmap \in Nat /\ bitmap_bytes \in Nat
        /\ bitmap + q \in Nat /\ bitmap + q < bitmap_end /\ reserved[1] <= bitmap + q
    BY <1>2, <1>3, BitmapType
  <1>5. /\ ((bitmap + q) \div PMM_FRAME_SIZE) * PMM_FRAME_SIZE <= bitmap + q
        /\ bitmap + q < ((bitmap + q) \div PMM_FRAME_SIZE) * PMM_FRAME_SIZE + PMM_FRAME_SIZE
    BY <1>4, DivProperties, GeometryAssumption
  <1>6. (bitmap + q) \div PMM_FRAME_SIZE = f
    BY <1>1 DEF Frame
  <1>7. /\ f * PMM_FRAME_SIZE \in Nat
        /\ (f + 1) * PMM_FRAME_SIZE = f * PMM_FRAME_SIZE + PMM_FRAME_SIZE
    BY <1>2, MulNat, GeometryAssumption
  <1> HIDE DEF q
  <1>8. f * PMM_FRAME_SIZE <= bitmap + q /\ bitmap + q < (f + 1) * PMM_FRAME_SIZE
    BY <1>5, <1>6, <1>7
  <1>9. Overlaps(f)
    BY <1>2, <1>4, <1>7, <1>8, BitmapType, GeometryAssumption DEF Overlaps
  <1>10. f = Frame(bitmap_end)
    BY <1>2, <1>9 DEF IInv, OverlapsUsed
  <1>11. ASSUME bitmap_end % PMM_FRAME_SIZE = 0 PROVE FALSE
    <2>1. bitmap_end \in Nat
      BY <1>2, BitmapType
    <2>2. (bitmap_end \div PMM_FRAME_SIZE) * PMM_FRAME_SIZE = bitmap_end
      BY <1>11, <2>1, ModZero, GeometryAssumption
    <2>3. f * PMM_FRAME_SIZE = bitmap_end
      BY <1>10, <2>2 DEF Frame
    <2> QED BY <1>4, <1>7, <1>8, <2>1, <2>3
  <1> QED BY <1>10, <1>11

\* A frame of a usable region is usable.
LEMMA MarkedIsUsable ==
    ASSUME TypeOK, NEW r \in [base : Nat, length : Nat], RegionUsable(r, ram, arch),
           NEW f \in mark_range(r.base, Top(r))
    PROVE  UsableFrame(f)
  <1> DEFINE d == PMM_FRAME_SIZE
             b == r.base \div d
             t == Top(r) \div d
  <1>1. f \in Nat /\ d \in Nat \ {0} /\ r.base \in Nat /\ Top(r) \in Nat
    BY GeometryAssumption DEF mark_range, TypeOK, Frames, Top
  <1>2. b \in Nat /\ t \in Nat /\ t * d <= Top(r) /\ t * d \in Nat
    BY <1>1, DivProperties, MulNat
  <1>3. b * d = r.base
    BY <1>1, ModZero DEF RegionUsable
  <1>4. (t * d) \div d <= t
    <2>1. t * d < (t + 1) * d
      BY <1>1, <1>2, MulNat
    <2> QED BY <2>1, <1>1, <1>2, DivLess
  <1>5. b <= f /\ f < t
    <2>1. b <= f /\ f < (t * d) \div d
      BY DEF mark_range, Frame, ALIGN_DOWN
    <2>2. (t * d) \div d \in Nat
      BY <1>1, <1>2, DivProperties
    <2> QED BY <2>1, <2>2, <1>1, <1>2, <1>4
  <1>6. b * d <= f * d /\ (f + 1) * d <= t * d /\ f * d \in Nat /\ (f + 1) * d \in Nat
    BY <1>1, <1>2, <1>5, MulMonotone, MulNat
  <1>7. r.base <= f * d /\ (f + 1) * d <= Top(r)
    BY <1>1, <1>2, <1>3, <1>6
  <1>8. f # 0
    <2>1. 0 * d = 0
      BY <1>1
    <2> QED BY <1>1, <1>7, <2>1 DEF RegionUsable
  <1>9. PICK x \in ram : x[1] <= r.base /\ Top(r) <= x[2]
    BY DEF RegionUsable
  <1>10. x[1] \in Nat /\ x[2] \in Nat
    BY DEF TypeOK
  <1>11. x[1] <= f * d /\ (f + 1) * d <= x[2]
    BY <1>1, <1>6, <1>7, <1>9, <1>10
  <1>12. arch = "x86_64" => LOW_MEM_RESERVED <= f * d /\ (f + 1) * d <= IDENTITY_MAP_LIMIT
    BY <1>1, <1>6, <1>7, MapAssumption DEF RegionUsable
  <1> QED BY <1>8, <1>11, <1>12 DEF UsableFrame

-----------------------------------------------------------------------------
(* One lemma per group of actions.                                         *)

\* Memory map scanning keeps only aligned, clamped regions.
LEMMA ScanPreserves ==
    ASSUME IInv, ScanEntry \/ ScanDone \/ arch_mm_init
    PROVE  IInv'
  <1> USE DEF TypeOK, Frames
  <1>1. CASE ScanEntry
    <2> DEFINE e  == Head(mmap)
               lo == IF e.addr < LOW_MEM_RESERVED THEN LOW_MEM_RESERVED ELSE e.addr
               hi == IF e.addr + e.len > IDENTITY_MAP_LIMIT
                     THEN IDENTITY_MAP_LIMIT ELSE e.addr + e.len
               r  == [base |-> lo, length |-> hi - lo]
               Areas == [addr : Nat, len : Nat, available : BOOLEAN]
    <2>1. /\ mmap \in Seq(Areas) /\ mmap # << >>
          /\ regions \in Seq([base : Nat, length : Nat])
      BY <1>1 DEF IInv, ScanEntry
    <2>2. /\ e \in Areas /\ Tail(mmap) \in Seq(Areas)
          /\ Len(Tail(mmap)) = Len(mmap) - 1 /\ Len(mmap) \in Nat
          /\ \A i \in 1..Len(Tail(mmap)) : Tail(mmap)[i] = mmap[i + 1]
          /\ e = mmap[1] /\ Len(mmap) >= 1
      BY <2>1, HeadTail
    <2>3. e.addr >= LOW_MEM_RESERVED => e.addr % PMM_FRAME_SIZE = 0
      BY <2>2 DEF IInv, EntriesAligned
    <2>4. EntriesAligned'
      <3>1. mmap' = Tail(mmap)
        BY <1>1 DEF ScanEntry
      <3>2. ASSUME NEW i \in 1..Len(mmap')
            PROVE  mmap'[i] = mmap[i + 1] /\ i + 1 \in 1..Len(mmap)
        BY <2>2, <3>1
      <3> QED BY <3>2 DEF IInv, EntriesAligned
    <2>5. e.addr \in Nat /\ e.len \in Nat /\ lo \in Nat /\ hi \in Nat
      BY <2>2, MapAssumption
    <2>6. lo % PMM_FRAME_SIZE = 0 /\ lo >= PMM_FRAME_SIZE /\ LOW_MEM_RESERVED <= lo
          /\ e.addr <= lo
      BY <2>3, <2>5, MapAssumption, GeometryAssumption
    <2>7. CASE e.available /\ lo < hi
      <3>1. /\ regions' = Append(regions, r)
            /\ ram' = ram \cup {<<e.addr, e.addr + e.len>>}
        BY <1>1, <2>7 DEF ScanEntry
      <3>2. r \in [base : Nat, length : Nat] /\ Top(r) = hi
        BY <2>5, <2>7 DEF Top
      <3>3. RegionUsable(r, ram', arch')
        <4>1. hi <= e.addr + e.len /\ hi <= IDENTITY_MAP_LIMIT
          BY <2>5, MapAssumption
        <4>2. <<e.addr, e.addr + e.len>> \in ram'
          BY <3>1
        <4>3. \E x \in ram' : x[1] <= lo /\ hi <= x[2]
          BY <4>1, <4>2, <2>6
        <4> HIDE DEF lo, hi
        <4> QED BY <3>2, <4>1, <4>3, <2>6 DEF RegionUsable, Top
      <3>4. RegionsUsable'
        <4>1. ASSUME NEW i \in 1..Len(regions') PROVE RegionUsable(regions'[i], ram', arch')
          <5>1. CASE i = Len(regions) + 1
            BY <3>1, <3>3, <2>1, <5>1
          <5>2. CASE i \in 1..Len(regions)
            <6>1. regions'[i] = regions[i] /\ RegionUsable(regions[i], ram, arch)
              BY <2>1, <3>1, <5>2 DEF IInv, RegionsUsable
            <6>2. arch' = arch /\ ram \subseteq ram'
              BY <1>1, <3>1 DEF ScanEntry
            <6> QED BY <6>1, <6>2 DEF RegionUsable
          <5> QED BY <5>1, <5>2, <2>1, <3>1
        <4> QED BY <4>1 DEF RegionsUsable
      <3>5. regions' \in Seq([base : Nat, length : Nat]) /\ ram' \subseteq Nat \X Nat
        <4>1. Append(regions, r) \in Seq([base : Nat, length : Nat])
          BY <2>1, <3>2, AppendProperties
        <4>2. <<e.addr, e.addr + e.len>> \in Nat \X Nat
          BY <2>5
        <4> HIDE DEF r, e
        <4> QED BY <3>1, <4>1, <4>2 DEF IInv
      <3>6. TypeOK'
        BY <1>1, <2>2, <3>5 DEF IInv, ScanEntry
      <3> QED BY <1>1, <2>4, <3>1, <3>4, <3>6
              DEF IInv, ScanEntry, CountExact, OneOwner, HeldUsable, BootOrder,
                  FreeIsUsable, OverlapsUsed, UsableFrame
    <2>8. CASE ~(e.available /\ lo < hi)
      <3>1. UNCHANGED <<regions, ram>>
        BY <1>1, <2>8 DEF ScanEntry
      <3>2. TypeOK'
        BY <1>1, <2>2, <3>1 DEF IInv, ScanEntry
      <3> QED BY <1>1, <2>4, <3>1, <3>2
              DEF IInv, ScanEntry, CountExact, OneOwner, HeldUsable, BootOrder,
                  FreeIsUsable, OverlapsUsed, UsableFrame, RegionsUsable, RegionUsable
    <2> QED BY <2>7, <2>8
  <1>2. CASE ScanDone
    BY <1>2 DEF IInv, ScanDone, CountExact, OneOwner, HeldUsable, BootOrder,
        FreeIsUsable, OverlapsUsed, UsableFrame, RegionsUsable, RegionUsable, EntriesAligned
  <1>3. CASE arch_mm_init
    <2> DEFINE r == [base |-> RAM_BASE, length |-> RAM_SIZE]
    <2>1. regions' = <<r>> /\ r \in [base : Nat, length : Nat]
          /\ ram' = {<<RAM_BASE, RAM_BASE + RAM_SIZE>>}
      BY <1>3, MapAssumption DEF arch_mm_init
    <2>2. RegionsUsable'
      <3>1. arch' = "aarch64"
        BY <1>3 DEF arch_mm_init
      <3>2. RegionUsable(r, ram', arch')
        BY <2>1, <3>1, MapAssumption DEF RegionUsable, Top
      <3> QED BY <2>1, <3>2 DEF RegionsUsable
    <2>3. TypeOK'
      BY <1>3, <2>1, MapAssumption DEF IInv, arch_mm_init
    <2>4. held = {} /\ total_frames = 0
      BY <1>3 DEF IInv, arch_mm_init, BootOrder
    <2> QED BY <1>3, <2>2, <2>3, <2>4
            DEF IInv, arch_mm_init, CountExact, OneOwner, HeldUsable, BootOrder,
                FreeIsUsable, OverlapsUsed, EntriesAligned
  <1> QED BY <1>1, <1>2, <1>3

\* pmm_init leaves clear exactly bits of usable frames and reserves itself.
LEMMA PmmInitPreserves ==
    ASSUME IInv, PmmSize \/ MarkRegion \/ MarkReserved
    PROVE  IInv'
  <1>1. CASE PmmSize
    <2>1. PICK h \in {0} \cup {Top(regions[i]) : i \in 1..Len(regions)} :
                 total_frames' = Frame(h)
      BY <1>1 DEF PmmSize
    <2>2. h \in Nat
      <3>1. ASSUME NEW i \in 1..Len(regions) PROVE Top(regions[i]) \in Nat
        <4>1. regions[i] \in [base : Nat, length : Nat]
          BY ElementOfSeq DEF IInv, TypeOK
        <4> QED BY <4>1 DEF Top
      <3> QED BY <3>1
    <2>3. total_frames' \in Nat
      BY <2>1, <2>2, DivProperties, GeometryAssumption DEF Frame
    <2>4. Frames' \ used' = {} /\ free_frames' = 0 /\ held = {}
      BY <1>1 DEF PmmSize, Frames, IInv, BootOrder
    <2>5. TypeOK'
      BY <1>1, <2>3, <2>4 DEF IInv, TypeOK, PmmSize, Frames, OneOwner
    <2>6. CountExact'
      BY <2>4, FS_EmptySet DEF CountExact
    <2> QED BY <1>1, <2>4, <2>5, <2>6
            DEF IInv, PmmSize, OneOwner, HeldUsable, EntriesAligned, RegionsUsable,
                RegionUsable, BootOrder, FreeIsUsable, OverlapsUsed
  <1>2. CASE MarkRegion
    <2> DEFINE h == Head(regions)
               r == mark_range(h.base, Top(h))
    <2>1. /\ regions \in Seq([base : Nat, length : Nat]) /\ regions # << >>
          /\ used' = used \ r /\ free_frames' = free_frames + Cardinality(r \cap used)
          /\ regions' = Tail(regions)
          /\ UNCHANGED <<arch, boot, mmap, reserved, total_frames, held, shared, ram, clobbered>>
      BY <1>2 DEF IInv, TypeOK, MarkRegion
    <2>2. /\ h \in [base : Nat, length : Nat] /\ h = regions[1]
          /\ Tail(regions) \in Seq([base : Nat, length : Nat])
          /\ Len(Tail(regions)) = Len(regions) - 1 /\ Len(regions) \in Nat
          /\ Len(regions) >= 1
          /\ \A i \in 1..Len(Tail(regions)) : Tail(regions)[i] = regions[i + 1]
      BY <2>1, HeadTail
    <2>3. r \subseteq Frames /\ Frames' = Frames
      BY <2>1 DEF mark_range, Frames
    <2>4. RegionUsable(h, ram, arch)
      BY <2>2 DEF IInv, RegionsUsable
    <2>5. \A f \in r : UsableFrame(f)
      BY <2>2, <2>4, MarkedIsUsable DEF IInv
    <2>6. /\ ClearBits(Frames, used \ r) = ClearBits(Frames, used) + SetBitsOf(r, used)
          /\ SetBitsOf(r, used) \in Nat /\ ClearBits(Frames, used) \in Nat
      <3>1. IsFiniteSet(Frames)
        BY FramesFinite DEF IInv
      <3>2. r \subseteq Frames
        BY <2>3
      <3> HIDE DEF r
      <3> QED BY <3>1, <3>2, CountOfRelease
    <2> HIDE DEF r, h
    <2>7. CountExact' /\ free_frames' \in Nat
      <3>1. free_frames = ClearBits(Frames, used)
        BY DEF IInv, CountExact, ClearBits
      <3>2. free_frames' = free_frames + SetBitsOf(r, used)
        BY <2>1 DEF SetBitsOf
      <3>3. free_frames' = ClearBits(Frames, used \ r) /\ free_frames' \in Nat
        BY <3>1, <3>2, <2>6
      <3>4. Frames' = Frames /\ used' = used \ r
        BY <2>1, <2>3
      <3> QED BY <3>3, <3>4, Zenon DEF CountExact, ClearBits
    <2>8. held = {} /\ boot = "mark"
      BY <1>2 DEF MarkRegion, IInv, BootOrder
    <2>9. TypeOK'
      BY <2>1, <2>2, <2>3, <2>7 DEF IInv, TypeOK
    <2>10. FreeIsUsable'
      BY <2>1, <2>3, <2>5 DEF IInv, FreeIsUsable, UsableFrame
    <2>11. RegionsUsable'
      <3>1. ASSUME NEW i \in 1..Len(regions')
            PROVE  regions'[i] = regions[i + 1] /\ i + 1 \in 1..Len(regions)
        BY <2>1, <2>2
      <3> QED BY <2>1, <3>1 DEF IInv, RegionsUsable, RegionUsable
    <2> QED BY <2>1, <2>7, <2>8, <2>9, <2>10, <2>11
            DEF IInv, OneOwner, HeldUsable, EntriesAligned, BootOrder, OverlapsUsed
  <1>3. CASE MarkReserved
    <2> DEFINE r == mark_range(reserved[1], bitmap_end)
               d == PMM_FRAME_SIZE
    <2>1. /\ used' = used \cup r /\ free_frames' = free_frames - Cardinality(r \ used)
          /\ boot' = "ready" /\ boot = "mark"
          /\ UNCHANGED <<arch, mmap, regions, reserved, total_frames, held, shared, ram, clobbered>>
      BY <1>3 DEF MarkReserved
    <2>2. r \subseteq Frames /\ Frames' = Frames /\ held = {} /\ TypeOK
      BY <2>1 DEF mark_range, Frames, IInv, BootOrder
    <2>3. /\ ClearBits(Frames, used \cup r) = ClearBits(Frames, used) - ClearBitsOf(r, used)
          /\ ClearBitsOf(r, used) \in Nat /\ ClearBits(Frames, used) \in Nat
          /\ ClearBits(Frames, used) >= ClearBitsOf(r, used)
      <3>1. IsFiniteSet(Frames)
        BY <2>2, FramesFinite
      <3>2. r \subseteq Frames
        BY <2>2
      <3> HIDE DEF r
      <3> QED BY <3>1, <3>2, CountOfGrant
    <2>4. OverlapsUsed'
      <3>1. bitmap_end' = bitmap_end
        BY <2>1 DEF bitmap_end, bitmap, bitmap_bytes
      <3>2. bitmap_end \in Nat /\ d \in Nat \ {0}
        BY <2>2, BitmapType, GeometryAssumption
      <3>3. SUFFICES ASSUME NEW f \in Frames, Overlaps(f), f # Frame(bitmap_end)
                     PROVE  f \in r
        BY <2>1, <2>2, <3>1 DEF OverlapsUsed, Overlaps
      <3>4. f \in Nat /\ reserved[1] \in Nat
        BY <2>2 DEF Frames, TypeOK
      <3>5. reserved[1] \div d <= f
        BY <3>2, <3>3, <3>4, DivLess DEF Overlaps
      <3> DEFINE t == bitmap_end \div d
      <3>6. t \in Nat /\ t * d \in Nat
        BY <3>2, DivProperties, MulNat
      <3>7. f < t
        <4>1. f * d \in Nat /\ f * d < bitmap_end
          BY <3>2, <3>3, <3>4, MulNat DEF Overlaps
        <4>2. f * d <= bitmap_end
          BY <3>2, <4>1
        <4>3. f <= t /\ f # t
          BY <3>2, <3>3, <3>4, <4>2, DivLess DEF Frame
        <4> HIDE DEF t
        <4> QED BY <3>4, <3>6, <4>3
      <3>8. t <= (t * d) \div d /\ (t * d) \div d \in Nat
        <4>1. t * d <= t * d
          BY <3>6
        <4> HIDE DEF t
        <4> QED BY <3>2, <3>6, <4>1, DivLess, DivProperties
      <3>9. Frame(ALIGN_DOWN(bitmap_end, d)) = (t * d) \div d
        BY DEF Frame, ALIGN_DOWN
      <3>10. f < Frame(ALIGN_DOWN(bitmap_end, d))
        <4> HIDE DEF t, d
        <4> QED BY <3>4, <3>6, <3>7, <3>8, <3>9
      <3> QED BY <3>3, <3>5, <3>10 DEF mark_range, Frame
    <2> HIDE DEF r
    <2>5. CountExact' /\ free_frames' \in Nat
      <3>1. free_frames = ClearBits(Frames, used)
        BY DEF IInv, CountExact, ClearBits
      <3>2. free_frames' = free_frames - ClearBitsOf(r, used)
        BY <2>1 DEF ClearBitsOf
      <3>3. free_frames' = ClearBits(Frames, used \cup r) /\ free_frames' \in Nat
        BY <3>1, <3>2, <2>3
      <3>4. Frames' = Frames /\ used' = used \cup r
        BY <2>1, <2>2
      <3> QED BY <3>3, <3>4, Zenon DEF CountExact, ClearBits
    <2>6. TypeOK'
      BY <2>1, <2>2, <2>5 DEF IInv, TypeOK
    <2>7. FreeIsUsable'
      BY <2>1, <2>2 DEF IInv, FreeIsUsable, UsableFrame
    <2> QED BY <2>1, <2>2, <2>4, <2>5, <2>6, <2>7
            DEF IInv, OneOwner, HeldUsable, EntriesAligned, RegionsUsable,
                RegionUsable, BootOrder
  <1> QED BY <1>1, <1>2, <1>3

\* Handing out free frames: each was usable and had no owner.
LEMMA GrantPreserves ==
    ASSUME IInv, boot = "ready", NEW G, G \subseteq Frames \ used, Grant(G)
    PROVE  IInv'
  <1>1. /\ used' = used \cup G /\ free_frames' = free_frames - Cardinality(G)
        /\ held' = held \cup G /\ shared' = shared \cup (held \cap G)
        /\ UNCHANGED <<arch, boot, mmap, regions, reserved, total_frames, ram, clobbered>>
    BY DEF Grant
  <1>2. Frames' = Frames /\ bitmap_end' = bitmap_end /\ G \ used = G /\ held \cap G = {}
    BY <1>1 DEF Frames, bitmap_end, bitmap, bitmap_bytes, IInv
  <1>3. /\ ClearBits(Frames, used \cup G) = ClearBits(Frames, used) - ClearBitsOf(G, used)
        /\ ClearBitsOf(G, used) \in Nat /\ ClearBits(Frames, used) \in Nat
        /\ ClearBits(Frames, used) >= ClearBitsOf(G, used)
    <2>1. IsFiniteSet(Frames)
      BY FramesFinite DEF IInv
    <2> QED BY <2>1, CountOfGrant
  <1>4. CountExact' /\ free_frames' \in Nat
    <2>1. free_frames = ClearBits(Frames, used)
      BY DEF IInv, CountExact, ClearBits
    <2>2. free_frames' = free_frames - ClearBitsOf(G, used)
      BY <1>1, <1>2, Zenon DEF ClearBitsOf
    <2>3. free_frames' = ClearBits(Frames, used \cup G) /\ free_frames' \in Nat
      BY <2>1, <2>2, <1>3
    <2>4. Frames' = Frames /\ used' = used \cup G
      BY <1>1, <1>2
    <2> QED BY <2>3, <2>4, Zenon DEF CountExact, ClearBits
  <1>5. TypeOK'
    BY <1>1, <1>2, <1>4 DEF IInv, TypeOK
  <1>6. HeldUsable' /\ FreeIsUsable'
    BY <1>1, <1>2 DEF IInv, HeldUsable, FreeIsUsable, UsableFrame
  <1>7. OverlapsUsed'
    BY <1>1, <1>2 DEF IInv, OverlapsUsed, Overlaps
  <1> QED BY <1>1, <1>2, <1>4, <1>5, <1>6, <1>7
          DEF IInv, OneOwner, EntriesAligned, RegionsUsable, BootOrder

\* Freeing owned frames, or frames that are free or out of range.
LEMMA ReleasePreserves ==
    ASSUME IInv, boot = "ready", NEW F, F \subseteq Frames,
           \A f \in F : f \in held \/ f \notin used, Release(F)
    PROVE  IInv'
  <1>1. /\ used' = used \ F /\ free_frames' = free_frames + Cardinality(F \cap used)
        /\ held' = held \ F
        /\ UNCHANGED <<arch, boot, mmap, regions, reserved, total_frames, shared, ram, clobbered>>
    BY DEF Release
  <1>2. Frames' = Frames /\ bitmap_end' = bitmap_end
    BY <1>1 DEF Frames, bitmap_end, bitmap, bitmap_bytes
  <1>3. /\ ClearBits(Frames, used \ F) = ClearBits(Frames, used) + SetBitsOf(F, used)
        /\ ClearBits(Frames, used) \in Nat /\ SetBitsOf(F, used) \in Nat
    <2>1. IsFiniteSet(Frames)
      BY FramesFinite DEF IInv
    <2> QED BY <2>1, CountOfRelease
  <1>4. CountExact' /\ free_frames' \in Nat
    <2>1. free_frames = ClearBits(Frames, used)
      BY DEF IInv, CountExact, ClearBits
    <2>2. free_frames' = free_frames + SetBitsOf(F, used)
      BY <1>1 DEF SetBitsOf
    <2>3. free_frames' = ClearBits(Frames, used \ F) /\ free_frames' \in Nat
      BY <2>1, <2>2, <1>3
    <2>4. Frames' = Frames /\ used' = used \ F
      BY <1>1, <1>2
    <2> QED BY <2>3, <2>4, Zenon DEF CountExact, ClearBits
  <1>5. TypeOK'
    BY <1>1, <1>2, <1>4 DEF IInv, TypeOK
  <1>6. HeldUsable' /\ FreeIsUsable'
    BY <1>1, <1>2 DEF IInv, HeldUsable, FreeIsUsable, UsableFrame
  <1>7. OverlapsUsed'
    BY <1>1, <1>2 DEF IInv, OverlapsUsed, Overlaps
  <1> QED BY <1>1, <1>2, <1>4, <1>5, <1>6, <1>7
          DEF IInv, OneOwner, EntriesAligned, RegionsUsable, BootOrder

\* While the bitmap is intact: the step keeps IInv, or it is the write that
\* ends it.
LEMMA NextPreserves ==
    ASSUME IInv, [Next]_vars
    PROVE  \/ IInv' /\ clobbered' = clobbered
           \/ \E f \in held : zeroed_table(f) /\ boot = "ready" /\ BitsIn(f) # {}
  <1> DEFINE Kept == IInv' /\ clobbered' = clobbered
  <1>1. CASE ScanEntry \/ ScanDone \/ arch_mm_init
    BY <1>1, ScanPreserves DEF ScanEntry, ScanDone, arch_mm_init
  <1>2. CASE PmmSize \/ MarkRegion \/ MarkReserved
    BY <1>2, PmmInitPreserves DEF PmmSize, MarkRegion, MarkReserved
  <1>3. CASE pmm_alloc_frame
    <2>1. PICK f \in Frames \ used : Grant({f})
      BY <1>3 DEF pmm_alloc_frame
    <2> QED BY <1>3, <2>1, GrantPreserves DEF pmm_alloc_frame, Grant
  <1>4. ASSUME NEW count \in Counts, pmm_alloc_frames(count)
        PROVE  Kept
    <2>1. PICK f \in Frames : /\ f .. f + count - 1 \subseteq Frames \ used
                              /\ Grant(f .. f + count - 1)
      BY <1>4 DEF pmm_alloc_frames
    <2> QED BY <1>4, <2>1, GrantPreserves DEF pmm_alloc_frames, Grant
  <1>5. ASSUME NEW f \in 0 .. total_frames, pmm_free_frame(f)
        PROVE  Kept
    <2>1. boot = "ready" /\ Release({f} \cap Frames) /\ (f \in held \/ f \notin used)
      BY <1>5 DEF pmm_free_frame
    <2>2. IInv'
      BY <2>1, ReleasePreserves
    <2>3. clobbered' = clobbered
      BY <2>1 DEF Release
    <2> QED BY <2>2, <2>3
  <1>6. ASSUME NEW f \in 0 .. total_frames, NEW count \in Counts, pmm_free_frames(f, count)
        PROVE  Kept
    <2> DEFINE F == (f .. f + count - 1) \cap Frames
    <2>1. boot = "ready" /\ Release(F) /\ \A g \in F : g \in held \/ g \notin used
      BY <1>6 DEF pmm_free_frames
    <2> HIDE DEF F
    <2>2. F \subseteq Frames
      BY DEF F
    <2>3. IInv'
      BY <2>1, <2>2, ReleasePreserves
    <2>4. clobbered' = clobbered
      BY <2>1 DEF Release
    <2> QED BY <2>3, <2>4
  <1>7. ASSUME UNCHANGED vars PROVE Kept
    BY <1>7
       DEF vars, IInv, TypeOK, Frames, CountExact, OneOwner, HeldUsable, UsableFrame,
           EntriesAligned, RegionsUsable, BootOrder, FreeIsUsable, OverlapsUsed, Overlaps,
           bitmap_end, bitmap, bitmap_bytes
  <1>8. ASSUME NEW f \in held, zeroed_table(f), BitsIn(f) = {}
        PROVE  Kept
    <2>1. used' = used /\ clobbered' \in BOOLEAN /\ (clobbered' <=> clobbered)
      BY <1>8 DEF zeroed_table, IInv, TypeOK
    <2>2. clobbered' = clobbered
      BY <2>1 DEF IInv, TypeOK
    <2>3. UNCHANGED vars
      BY <1>8, <2>1, <2>2 DEF zeroed_table, vars
    <2> QED BY <2>3, <1>7
  <1>9. ASSUME NEW f \in held, zeroed_table(f), BitsIn(f) # {}
        PROVE  \E x \in held : zeroed_table(x) /\ boot = "ready" /\ BitsIn(x) # {}
    BY <1>9 DEF zeroed_table
  <1> HIDE DEF Kept
  <1>10. Kept \/ \E f \in held : zeroed_table(f) /\ boot = "ready" /\ BitsIn(f) # {}
    <2>1. CASE ScanEntry \/ ScanDone \/ arch_mm_init
      BY <1>1, <2>1 DEF Kept
    <2>2. CASE PmmSize \/ MarkRegion \/ MarkReserved
      BY <1>2, <2>2 DEF Kept
    <2>3. CASE pmm_alloc_frame
      BY <1>3, <2>3 DEF Kept
    <2> QED BY <2>1, <2>2, <2>3, <1>4, <1>5, <1>6, <1>7, <1>8, <1>9 DEF Next
  <1> QED BY <1>10 DEF Kept

\* A step that starts with a bitmap written over keeps the types.
LEMMA ClobberedStep ==
    ASSUME TypeOK, boot = "ready", [Next]_vars
    PROVE  /\ TypeOK' /\ boot' = "ready" /\ bitmap_end' = bitmap_end
           /\ clobbered => clobbered'
  <1>1. /\ UNCHANGED <<arch, boot, mmap, regions, reserved, total_frames, ram>>
        /\ used' \subseteq Frames /\ held' \subseteq Frames /\ shared' \subseteq Frames
        /\ free_frames' \in Int
        /\ clobbered' \in BOOLEAN /\ (clobbered => clobbered')
    <2> DEFINE Fine ==
          /\ UNCHANGED <<arch, boot, mmap, regions, reserved, total_frames, ram>>
          /\ used' \subseteq Frames /\ held' \subseteq Frames /\ shared' \subseteq Frames
          /\ free_frames' \in Int
          /\ clobbered' \in BOOLEAN /\ (clobbered => clobbered')
    <2>1. ASSUME NEW G, G \subseteq Frames, Grant(G) PROVE Fine
      <3>1. Cardinality(G) \in Nat
        BY <2>1, FramesFinite, FS_Subset, FS_CardinalityType
      <3>2. clobbered' = clobbered
        BY <2>1 DEF Grant
      <3>3. clobbered' \in BOOLEAN /\ (clobbered => clobbered')
        BY <3>2, Zenon DEF TypeOK
      <3> QED BY <2>1, <3>1, <3>3 DEF Grant, TypeOK
    <2>2. ASSUME NEW F, F \subseteq Frames, Release(F) PROVE Fine
      <3>1. Cardinality(F \cap used) \in Nat
        BY <2>2, FramesFinite, FS_Subset, FS_CardinalityType
      <3>2. clobbered' = clobbered
        BY <2>2 DEF Release
      <3>3. clobbered' \in BOOLEAN /\ (clobbered => clobbered')
        BY <3>2, Zenon DEF TypeOK
      <3> QED BY <2>2, <3>1, <3>3 DEF Release, TypeOK
    <2>3. ASSUME NEW f \in held, zeroed_table(f) PROVE Fine
      BY <2>3 DEF zeroed_table, TypeOK
    <2>4. ASSUME UNCHANGED vars PROVE Fine
      BY <2>4 DEF vars, TypeOK
    <2>5. ASSUME pmm_alloc_frame PROVE Fine
      <3>1. PICK f \in Frames \ used : Grant({f})
        BY <2>5 DEF pmm_alloc_frame
      <3> QED BY <3>1, <2>1
    <2>6. ASSUME NEW count \in Counts, pmm_alloc_frames(count) PROVE Fine
      <3>1. PICK f \in Frames : /\ f .. f + count - 1 \subseteq Frames \ used
                                /\ Grant(f .. f + count - 1)
        BY <2>6 DEF pmm_alloc_frames
      <3> QED BY <3>1, <2>1
    <2>7. ASSUME NEW f \in 0 .. total_frames, pmm_free_frame(f) PROVE Fine
      BY <2>7, <2>2 DEF pmm_free_frame
    <2>8. ASSUME NEW f \in 0 .. total_frames, NEW count \in Counts, pmm_free_frames(f, count)
          PROVE  Fine
      BY <2>8, <2>2 DEF pmm_free_frames
    <2>9. ~(ScanEntry \/ ScanDone \/ arch_mm_init \/ PmmSize \/ MarkRegion \/ MarkReserved)
      BY DEF ScanEntry, ScanDone, arch_mm_init, PmmSize, MarkRegion, MarkReserved
    <2> HIDE DEF Fine
    <2>10. Fine
      BY <2>3, <2>4, <2>5, <2>6, <2>7, <2>8, <2>9 DEF Next
    <2> QED BY <2>10 DEF Fine
  <1>2. Frames' = Frames /\ bitmap_end' = bitmap_end
    BY <1>1 DEF Frames, bitmap_end, bitmap, bitmap_bytes
  <1> QED BY <1>1, <1>2 DEF TypeOK

LEMMA PmmInvPreserved ==
    ASSUME PmmInv, [Next]_vars
    PROVE  PmmInv'
  <1>1. CASE clobbered
    <2>1. TypeOK' /\ boot' = "ready" /\ bitmap_end' = bitmap_end /\ clobbered'
      BY <1>1, ClobberedStep DEF PmmInv
    <2> QED BY <1>1, <2>1 DEF PmmInv
  <1>2. CASE ~clobbered
    <2>1. IInv
      BY <1>2 DEF PmmInv
    <2>2. CASE IInv' /\ clobbered' = clobbered
      BY <1>2, <2>2 DEF PmmInv, IInv
    <2>3. CASE \E f \in held : zeroed_table(f) /\ boot = "ready" /\ BitsIn(f) # {}
      <3>1. PICK f \in held : zeroed_table(f) /\ boot = "ready" /\ BitsIn(f) # {}
        BY <2>3
      <3>2. bitmap_end % PMM_FRAME_SIZE # 0
        BY <2>1, <3>1, OwnersReachTailOnly
      <3>3. TypeOK' /\ boot' = "ready" /\ bitmap_end' = bitmap_end
        BY <2>1, <3>1, ClobberedStep DEF IInv
      <3>4. clobbered'
        BY <3>1 DEF zeroed_table
      <3> QED BY <3>2, <3>3, <3>4 DEF PmmInv
    <2> QED BY <2>1, <2>2, <2>3, NextPreserves
  <1> QED BY <1>1, <1>2

LEMMA InitIInv == Init => IInv
  <1> SUFFICES ASSUME Init PROVE IInv
    OBVIOUS
  <1>1. Frames = {}
    BY DEF Init, Frames
  <1>2. mmap \in Seq([addr : Nat, len : Nat, available : BOOLEAN]) /\ EntriesAligned
    BY MapAssumption DEF Init, EntriesAligned
  <1>3. reserved \in Nat \X Nat /\ reserved[1] <= reserved[2]
    BY KernelAssumption DEF Init
  <1>4. regions \in Seq([base : Nat, length : Nat]) /\ Len(regions) = 0
    BY EmptySeq DEF Init
  <1>5. Cardinality(Frames \ used) = 0
    BY <1>1, FS_EmptySet
  <1>6. clobbered \in BOOLEAN
    BY DEF Init
  <1> QED BY <1>1, <1>2, <1>3, <1>4, <1>5, <1>6
          DEF Init, IInv, TypeOK, CountExact, OneOwner, HeldUsable, RegionsUsable,
              BootOrder, FreeIsUsable, OverlapsUsed

LEMMA PmmInvImplies ==
    ASSUME PmmInv
    PROVE  TypeOK /\ FreeCountExact /\ NoSharedFrame /\ HeldIsRam /\ OnlyTailLost
  <1>1. CASE clobbered
    BY <1>1 DEF PmmInv, FreeCountExact, NoSharedFrame, HeldIsRam, OnlyTailLost
  <1>2. CASE IInv /\ ~clobbered
    <2>1. ASSUME NEW f \in held, Overlaps(f) PROVE f = Frame(bitmap_end)
      <3>1. boot = "ready" /\ f \in Frames
        BY <1>2 DEF IInv, BootOrder, TypeOK
      <3> QED BY <1>2, <2>1, <3>1 DEF IInv, OverlapsUsed
    <2>2. OnlyTailLost
      BY <1>2, <2>1 DEF OnlyTailLost
    <2> QED BY <1>2, <2>2, Zenon
            DEF IInv, CountExact, OneOwner, HeldUsable, FreeCountExact, NoSharedFrame, HeldIsRam
  <1> QED BY <1>1, <1>2 DEF PmmInv

\* For every kernel image, pmm.c keeps its promises through every sequence of
\* allocations, frees and writes by the owners of frames that leaves the bitmap
\* intact: the free count is exact, no frame has two owners, every frame handed
\* out is usable RAM.  The bitmap can be written over only where it ends inside
\* a frame, by the owner of that frame, the only one of the kernel image and
\* the bitmap that is ever handed out.
THEOREM PmmSafety ==
    Spec => [](TypeOK /\ FreeCountExact /\ NoSharedFrame /\ HeldIsRam /\ OnlyTailLost)
  <1>1. Init => PmmInv
    BY InitIInv DEF PmmInv, IInv, Init
  <1>2. PmmInv /\ [Next]_vars => PmmInv'
    BY PmmInvPreserved
  <1>3. PmmInv => TypeOK /\ FreeCountExact /\ NoSharedFrame /\ HeldIsRam /\ OnlyTailLost
    BY PmmInvImplies
  <1> QED BY <1>1, <1>2, <1>3, PTL DEF Spec

\* pmm_free_frame_count() is exactly the number of frames that are free, after
\* any number of calls that fail or free a frame that is free already, as long
\* as no owner has written over the bitmap.
THEOREM CountSafe == Spec => []FreeCountExact
  BY PmmSafety, PTL

\* No sequence of allocations, single or contiguous, and frees hands a frame to
\* a second owner, as long as no owner has written over the bitmap.
THEOREM OwnersSafe == Spec => []NoSharedFrame
  BY PmmSafety, PTL

\* Whatever the firmware's map looks like, pmm.c gives out frames of usable RAM
\* only, as long as no owner has written over the bitmap.
THEOREM RamSafe == Spec => []HeldIsRam
  BY PmmSafety, PTL

-----------------------------------------------------------------------------
(* The search loop of pmm_alloc_frames on the bitmap of Pmm: what Pmm      *)
(* takes as one choice, the lowest run of free frames.                     *)

ScanTypes ==
    /\ scan_pc \in {"scan", "mark", "done"}
    /\ scan_frames \in Nat
    /\ scan_before \subseteq 0 .. scan_frames - 1
    /\ scan_count \in Nat
    /\ scan_f \in Nat /\ scan_f <= scan_frames
    /\ run_start \in Nat
    /\ run_len \in Nat
    /\ scan_i \in Nat

\* The loop invariant: the last run_len frames are a free run that cannot be
\* extended downwards, and no run of count frames lies wholly below f.
SearchInv ==
    /\ scan_used = scan_before
    /\ scan_result = -1
    /\ run_len <= scan_f
    /\ scan_count # 0 => run_len < scan_count
    /\ run_len > 0 => run_start = scan_f - run_len
    /\ \A g \in scan_f - run_len .. scan_f - 1 : g \notin scan_before
    /\ run_len < scan_f => scan_f - run_len - 1 \in scan_before
    /\ scan_count # 0 => \A g \in Nat : g + scan_count <= scan_f => ~FreeRun(g, scan_count)

\* While the bits are set: the run is free, lowest, and marked up to i.
MarkInv ==
    /\ scan_count # 0
    /\ scan_result = -1
    /\ FreeRun(run_start, scan_count)
    /\ \A g \in Nat : FreeRun(g, scan_count) => run_start <= g
    /\ run_start <= scan_i /\ scan_i <= run_start + scan_count
    /\ scan_used = scan_before \cup (run_start .. scan_i - 1)

\* A run is returned only for a count that is not 0.
ResultInv == scan_result # -1 => scan_result \in Nat /\ scan_count # 0

LoopInv ==
    /\ ScanTypes
    /\ scan_pc = "scan" => SearchInv
    /\ scan_pc = "mark" => MarkInv
    /\ scan_pc = "done" => FirstRunFound /\ OnlyRunMarked /\ ResultInv

\* The loop is entered on the allocator's bitmap.
LEMMA CallLoopInv ==
    ASSUME TypeOK, NEW count \in Counts, NoCall, CallScan(count)
    PROVE  LoopInv'
  <1>1. /\ scan_pc' = "scan" /\ scan_frames' = total_frames /\ scan_used' = used
        /\ scan_count' = count /\ scan_before' = used /\ scan_f' = 0 /\ run_start' = 0
        /\ run_len' = 0 /\ scan_i' = 0 /\ scan_result' = -1
    BY DEF CallScan, NoCall
  <1>2. count \in Nat /\ total_frames \in Nat /\ used \subseteq 0 .. total_frames - 1
    BY GeometryAssumption DEF TypeOK, Frames
  <1>3. ScanTypes'
    BY <1>1, <1>2 DEF ScanTypes
  <1>4. SearchInv'
    BY <1>1, <1>2 DEF SearchInv
  <1> QED BY <1>1, <1>3, <1>4 DEF LoopInv

LEMMA GiveUpPreserves == LoopInv /\ GiveUp => LoopInv'
  BY DEF LoopInv, ScanTypes, SearchInv, GiveUp, FirstRunFound, OnlyRunMarked, ResultInv,
         FreeRun, Run

\* A set bit: every run that reaches f contains it.
LEMMA BitSetPreserves == LoopInv /\ BitSet => LoopInv'
  <1> SUFFICES ASSUME LoopInv, BitSet PROVE LoopInv'
    OBVIOUS
  <1>1. /\ ScanTypes /\ SearchInv /\ scan_pc = "scan" /\ scan_count # 0 /\ scan_f < scan_frames
        /\ scan_f \in scan_before /\ run_len' = 0 /\ scan_f' = scan_f + 1
        /\ UNCHANGED <<scan_pc, scan_frames, scan_used, scan_count, run_start, scan_i, scan_result,
                       scan_before>>
    BY DEF LoopInv, BitSet, SearchInv
  <1>2. ScanTypes'
    BY <1>1 DEF ScanTypes
  <1>3. ASSUME NEW g \in Nat, g + scan_count <= scan_f + 1 PROVE ~FreeRun(g, scan_count)
    <2>1. CASE g + scan_count <= scan_f
      BY <1>1, <2>1 DEF SearchInv
    <2>2. CASE g + scan_count = scan_f + 1
      BY <1>1, <2>2 DEF ScanTypes, FreeRun, Run
    <2> QED BY <1>1, <1>3, <2>1, <2>2 DEF ScanTypes
  <1>4. SearchInv'
    BY <1>1, <1>3 DEF SearchInv, ScanTypes, FreeRun
  <1> QED BY <1>1, <1>2, <1>4 DEF LoopInv

\* A clear bit: a run ending at f starts no lower than run_start, because the
\* bit below run_start is set.
LEMMA BitClearPreserves == LoopInv /\ BitClear => LoopInv'
  <1> SUFFICES ASSUME LoopInv, BitClear PROVE LoopInv'
    OBVIOUS
  <1>1. /\ ScanTypes /\ SearchInv /\ scan_pc = "scan" /\ scan_count # 0 /\ scan_f < scan_frames
        /\ scan_f \notin scan_before
        /\ run_start' = (IF run_len = 0 THEN scan_f ELSE run_start) /\ run_len' = run_len + 1
        /\ UNCHANGED <<scan_frames, scan_used, scan_count, scan_result, scan_before>>
    BY DEF LoopInv, BitClear, SearchInv
  <1>2. run_start' = scan_f - run_len /\ run_start' \in Nat
    BY <1>1 DEF ScanTypes, SearchInv
  <1>3. ASSUME NEW g \in Nat, g + scan_count <= scan_f + 1, FreeRun(g, scan_count)
        PROVE  scan_f - run_len <= g /\ g + scan_count = scan_f + 1
    <2>1. g + scan_count = scan_f + 1
      BY <1>1, <1>3 DEF ScanTypes, SearchInv
    <2>2. ~(g <= scan_f - run_len - 1)
      <3> SUFFICES ASSUME g <= scan_f - run_len - 1 PROVE FALSE
        OBVIOUS
      <3>1. run_len < scan_f /\ scan_f - run_len - 1 \in scan_before
        BY <1>1 DEF ScanTypes, SearchInv
      <3>2. scan_f - run_len - 1 \in g .. g + scan_count - 1
        BY <1>1, <2>1 DEF ScanTypes
      <3> QED BY <1>3, <3>1, <3>2 DEF FreeRun, Run
    <2> QED BY <1>1, <2>1, <2>2 DEF ScanTypes
  <1>4. \A g \in scan_f - run_len .. scan_f : g \notin scan_before
    BY <1>1 DEF ScanTypes, SearchInv
  <1>5. CASE run_len' = scan_count
    <2>1. scan_pc' = "mark" /\ scan_i' = run_start' /\ scan_f' = scan_f
      BY <1>5 DEF BitClear
    <2>2. scan_f - run_len + scan_count = scan_f + 1
      BY <1>1, <1>5 DEF ScanTypes
    <2>3. FreeRun(scan_f - run_len, scan_count)
      BY <1>1, <1>2, <1>4, <2>2 DEF FreeRun, Run, ScanTypes
    <2>4. ASSUME NEW g \in Nat, FreeRun(g, scan_count) PROVE scan_f - run_len <= g
      <3>1. CASE g + scan_count <= scan_f + 1
        BY <1>3, <2>4, <3>1
      <3>2. CASE g + scan_count > scan_f + 1
        BY <1>1, <2>2, <3>2 DEF ScanTypes
      <3> QED BY <1>1, <3>1, <3>2 DEF ScanTypes
    <2>5. MarkInv'
      BY <1>1, <1>2, <2>1, <2>3, <2>4 DEF MarkInv, FreeRun, ScanTypes, SearchInv
    <2>6. ScanTypes'
      BY <1>1, <1>2, <2>1 DEF ScanTypes
    <2> QED BY <2>1, <2>5, <2>6 DEF LoopInv
  <1>6. CASE run_len' # scan_count
    <2>1. scan_pc' = scan_pc /\ scan_i' = scan_i /\ scan_f' = scan_f + 1
      BY <1>6 DEF BitClear
    <2>2. ASSUME NEW g \in Nat, g + scan_count <= scan_f + 1 PROVE ~FreeRun(g, scan_count)
      <3> SUFFICES ASSUME FreeRun(g, scan_count) PROVE FALSE
        OBVIOUS
      <3>1. scan_f - run_len <= g /\ g + scan_count = scan_f + 1
        BY <1>3, <2>2
      <3> QED BY <1>1, <1>6, <3>1 DEF ScanTypes, SearchInv
    <2>3. SearchInv'
      BY <1>1, <1>2, <1>4, <1>6, <2>1, <2>2 DEF SearchInv, ScanTypes, FreeRun
    <2>4. ScanTypes'
      BY <1>1, <1>2, <2>1 DEF ScanTypes
    <2> QED BY <1>1, <2>1, <2>3, <2>4 DEF LoopInv
  <1> QED BY <1>5, <1>6

LEMMA BitSetLoopPreserves == LoopInv /\ BitSetLoop => LoopInv'
  <1> SUFFICES ASSUME LoopInv, BitSetLoop PROVE LoopInv'
    OBVIOUS
  <1>1. /\ ScanTypes /\ MarkInv /\ scan_pc = "mark"
        /\ UNCHANGED <<scan_frames, scan_count, scan_f, run_start, run_len, scan_before>>
    BY DEF LoopInv, BitSetLoop
  <1>2. CASE scan_i < run_start + scan_count
    <2>1. scan_used' = scan_used \cup {scan_i} /\ scan_i' = scan_i + 1 /\ UNCHANGED <<scan_pc, scan_result>>
      BY <1>2 DEF BitSetLoop
    <2>2. ScanTypes'
      BY <1>1, <2>1 DEF ScanTypes
    <2>3. scan_used' = scan_before \cup (run_start .. scan_i)
      BY <1>1, <1>2, <2>1 DEF MarkInv, ScanTypes
    <2>4. scan_i' - 1 = scan_i
      BY <1>1, <2>1 DEF ScanTypes
    <2>5. MarkInv'
      BY <1>1, <1>2, <2>1, <2>3, <2>4 DEF MarkInv, FreeRun, ScanTypes
    <2> QED BY <1>1, <2>1, <2>2, <2>5 DEF LoopInv
  <1>3. CASE ~(scan_i < run_start + scan_count)
    <2>1. scan_pc' = "done" /\ scan_result' = run_start /\ UNCHANGED <<scan_used, scan_i>>
      BY <1>3 DEF BitSetLoop
    <2>2. scan_i = run_start + scan_count
      BY <1>1, <1>3 DEF MarkInv, ScanTypes
    <2>3. ScanTypes'
      BY <1>1, <2>1 DEF ScanTypes
    <2>4. OnlyRunMarked'
      BY <1>1, <2>1, <2>2 DEF MarkInv, OnlyRunMarked, Run, ScanTypes
    <2>5. FirstRunFound'
      BY <1>1, <2>1 DEF MarkInv, FirstRunFound, FreeRun, ScanTypes
    <2>6. ResultInv'
      BY <1>1, <2>1 DEF MarkInv, ResultInv, ScanTypes
    <2> QED BY <2>1, <2>3, <2>4, <2>5, <2>6 DEF LoopInv
  <1> QED BY <1>2, <1>3

\* Between calls the loop's variables are at rest; during a call they work on
\* the allocator's bitmap.
AllocInv ==
    /\ PmmInv
    /\ scan_pc = "idle" => NoCall
    /\ scan_pc # "idle" => /\ LoopInv
                           /\ boot = "ready"
                           /\ scan_before = used
                           /\ scan_frames = total_frames
                           /\ scan_count \in Counts

\* The run that is returned is the one Pmm takes.
LEMMA ReturnTakesRun ==
    ASSUME AllocInv, ReturnScan, scan_result # -1
    PROVE  pmm_alloc_frames(scan_count)
  <1>1. /\ LoopInv /\ scan_pc = "done" /\ boot = "ready" /\ scan_before = used
        /\ scan_frames = total_frames
    BY DEF AllocInv, ReturnScan
  <1>2. /\ FreeRun(scan_result, scan_count) /\ scan_result \in Nat
        /\ \A g \in 0 .. scan_frames : FreeRun(g, scan_count) => scan_result <= g
        /\ scan_count \in Nat /\ scan_count # 0 /\ total_frames \in Nat
    BY <1>1 DEF LoopInv, ScanTypes, ResultInv, FirstRunFound
  <1>3. scan_result \in Frames
    BY <1>1, <1>2 DEF FreeRun, Frames
  <1>4. scan_result .. scan_result + scan_count - 1 \subseteq Frames \ used
    BY <1>1, <1>2 DEF FreeRun, Run, Frames
  <1>5. ASSUME NEW g \in Frames, g .. g + scan_count - 1 \subseteq Frames \ used
        PROVE  scan_result <= g
    <2>1. g \in Nat /\ g + scan_count - 1 \in g .. g + scan_count - 1
      BY <1>2, <1>5 DEF Frames
    <2>2. g + scan_count - 1 < total_frames
      BY <1>2, <1>5, <2>1 DEF Frames
    <2>3. FreeRun(g, scan_count) /\ g \in 0 .. scan_frames
      BY <1>1, <1>2, <1>5, <2>1, <2>2 DEF FreeRun, Run
    <2> QED BY <1>2, <2>3
  <1>6. Grant(scan_result .. scan_result + scan_count - 1)
    BY DEF ReturnScan, Run
  <1> QED BY <1>1, <1>2, <1>3, <1>4, <1>5, <1>6 DEF pmm_alloc_frames

\* Every step of PmmAlloc is a step of Pmm or leaves its variables alone.
LEMMA AllocStep ==
    ASSUME AllocInv, [AllocNext]_alloc_vars
    PROVE  [Next]_vars
  <1>1. CASE OtherCall
    BY <1>1 DEF OtherCall, Next
  <1>2. CASE UNCHANGED vars
    BY <1>2
  <1>3. CASE ReturnScan
    <2>1. CASE scan_result = -1
      BY <1>3, <2>1 DEF ReturnScan
    <2>2. CASE scan_result # -1
      <3>1. scan_count \in Counts
        BY <1>3 DEF AllocInv, ReturnScan
      <3> QED BY <1>3, <2>2, <3>1, ReturnTakesRun DEF Next
    <2> QED BY <2>1, <2>2
  <1> QED BY <1>1, <1>2, <1>3 DEF AllocNext, CallScan, alloc_vars

LEMMA AllocInvPreserved ==
    ASSUME AllocInv, [AllocNext]_alloc_vars
    PROVE  AllocInv'
  <1>1. PmmInv'
    BY AllocStep, PmmInvPreserved DEF AllocInv
  <1>2. CASE scan_pc = "idle" /\ UNCHANGED scan_vars
    BY <1>1, <1>2 DEF AllocInv, NoCall, scan_vars
  <1>3. ASSUME NEW count \in Counts, CallScan(count)
        PROVE  AllocInv'
    <2>1. TypeOK /\ NoCall
      BY <1>3 DEF AllocInv, PmmInv, CallScan
    <2>2. LoopInv'
      BY <1>3, <2>1, CallLoopInv
    <2>3. /\ boot' = boot /\ used' = used /\ total_frames' = total_frames
          /\ boot = "ready" /\ scan_pc' = "scan" /\ scan_frames' = total_frames
          /\ scan_before' = used /\ scan_count' = count
      BY <1>3 DEF CallScan, vars
    <2> QED BY <1>1, <2>2, <2>3 DEF AllocInv
  <1>4. CASE ScanNext /\ UNCHANGED vars
    <2>1. /\ scan_pc # "idle" /\ scan_pc' # "idle"
          /\ UNCHANGED <<scan_frames, scan_count, scan_before>>
      BY <1>4 DEF ScanNext, GiveUp, BitSet, BitClear, BitSetLoop
    <2>2. LoopInv'
      BY <1>4, <2>1, GiveUpPreserves, BitSetPreserves, BitClearPreserves, BitSetLoopPreserves
         DEF ScanNext, AllocInv
    <2>3. boot' = boot /\ used' = used /\ total_frames' = total_frames
      BY <1>4 DEF vars
    <2> QED BY <1>1, <2>1, <2>2, <2>3 DEF AllocInv
  <1>5. CASE ReturnScan
    BY <1>1, <1>5 DEF AllocInv, ReturnScan, NoCall
  <1>6. CASE UNCHANGED alloc_vars
    BY <1>1, <1>6
       DEF alloc_vars, vars, scan_vars, AllocInv, NoCall, LoopInv, ScanTypes, SearchInv, MarkInv,
           FirstRunFound, OnlyRunMarked, ResultInv, FreeRun, Run
  <1> QED BY <1>2, <1>3, <1>4, <1>5, <1>6 DEF AllocNext

LEMMA InitAllocInv == AllocInit => AllocInv
  <1>1. Init => PmmInv
    BY InitIInv DEF PmmInv, IInv, Init
  <1> QED BY <1>1 DEF AllocInit, AllocInv, NoCall

\* Whatever the bitmap and the count, pmm_alloc_frames returns the lowest free
\* run, fails only when there is none, and sets exactly the bits of the run.
THEOREM ScanCorrect == AllocSpec => [](FirstRunFound /\ OnlyRunMarked)
  <1>1. AllocInv => FirstRunFound /\ OnlyRunMarked
    BY DEF AllocInv, LoopInv, FirstRunFound, OnlyRunMarked
  <1>2. AllocInv /\ [AllocNext]_alloc_vars => AllocInv'
    BY AllocInvPreserved
  <1> QED BY InitAllocInv, <1>1, <1>2, PTL DEF AllocSpec

\* The allocator that runs the loop of pmm_alloc_frames does what Pmm does in
\* one step: it implements Pmm, so PmmSafety holds of it.
THEOREM AllocImplementsPmm == AllocSpec => Spec
  <1>1. AllocInit => Init
    BY DEF AllocInit
  <1>2. AllocInv /\ [AllocNext]_alloc_vars => AllocInv' /\ [Next]_vars
    BY AllocInvPreserved, AllocStep
  <1> QED BY InitAllocInv, <1>1, <1>2, PTL DEF AllocSpec, Spec

-----------------------------------------------------------------------------
(* The page tables (Vmm).  Induction over naturals, and iterations.        *)

\* A set of naturals has a least member.
LEMMA LeastNat ==
    ASSUME NEW T \in SUBSET Nat, T # {}
    PROVE  \E m \in T : \A n \in T : m <= n
<1>1. PICK m \in T : \A n \in T : <<n, m>> \notin OpToRel(<, Nat)
  BY NatLessThanWellFounded, WFMin
<1>2. ASSUME NEW n \in T, n < m
      PROVE  <<n, m>> \in OpToRel(<, Nat)
  <2>1. <<n, m>> \in Nat \X Nat
    OBVIOUS
  <2>2. <<n, m>>[1] < <<n, m>>[2]
    BY <1>2
  <2> QED BY <2>1, <2>2 DEF OpToRel
<1>3. \A n \in T : ~(n < m)
  BY <1>1, <1>2
<1> QED BY <1>3

\* A set of numbers up to N with 0 and the successors of its members is full.
LEMMA UpTo ==
    ASSUME NEW N \in Nat, NEW G, 0 \in G, \A n \in 1 .. N : n - 1 \in G => n \in G
    PROVE  \A n \in 0 .. N : n \in G
<1> DEFINE T == {n \in 0 .. N : n \notin G}
<1> SUFFICES ASSUME T # {} PROVE FALSE
  OBVIOUS
<1>1. T \in SUBSET Nat
  OBVIOUS
<1> HIDE DEF T
<1>2. PICK m \in T : \A n \in T : m <= n
  BY <1>1, LeastNat
<1>3. m \in 0 .. N /\ m \notin G
  BY <1>2 DEF T
<1>4. m \in 1 .. N /\ m - 1 \in 0 .. N /\ ~(m <= m - 1)
  BY <1>3
<1>5. m - 1 \notin T
  BY <1>2, <1>4
<1>6. m - 1 \in G
  BY <1>4, <1>5 DEF T
<1> QED BY <1>3, <1>4, <1>6

\* f iterates the functions steps[1], steps[2], ... from x.
Iterates(N, X, steps, x, f) ==
    /\ f \in [0 .. N -> X] /\ f[0] = x
    /\ \A k \in 1 .. N : f[k] = steps[k][f[k - 1]]

\* An iteration of N steps exists.
LEMMA IterationExists ==
    ASSUME NEW N \in Nat, NEW X, NEW x \in X, NEW steps \in [1 .. N -> [X -> X]]
    PROVE  \E f : Iterates(N, X, steps, x, f)
<1> DEFINE G == {n \in 0 .. N : \E f : Iterates(n, X, steps, x, f)}
<1>1. 0 \in G
  <2>1. Iterates(0, X, steps, x, [k \in 0 .. 0 |-> x])
    BY DEF Iterates
  <2> QED BY <2>1
<1>2. ASSUME NEW n \in 1 .. N, n - 1 \in G PROVE n \in G
  <2>1. PICK g : Iterates(n - 1, X, steps, x, g)
    BY <1>2
  <2>2. g \in [0 .. n - 1 -> X] /\ g[0] = x /\ n - 1 \in 0 .. n - 1 /\ 0 \in 0 .. n - 1
    BY <2>1 DEF Iterates
  <2>3. PICK y \in X : y = steps[n][g[n - 1]]
    BY <2>2
  <2>4. PICK f : f = [k \in 0 .. n |-> IF k < n THEN g[k] ELSE y]
    OBVIOUS
  <2>5. f \in [0 .. n -> X] /\ f[n] = y /\ \A k \in 0 .. n - 1 : f[k] = g[k]
    BY <2>2, <2>4
  <2>6. ASSUME NEW k \in 1 .. n PROVE f[k] = steps[k][f[k - 1]]
    <3>1. k - 1 \in 0 .. n - 1 /\ f[k - 1] = g[k - 1]
      BY <2>5
    <3>2. CASE k = n
      BY <2>3, <2>5, <3>1, <3>2
    <3>3. CASE k # n
      <4>1. k \in 1 .. n - 1 /\ k \in 0 .. n - 1
        BY <3>3
      <4>2. g[k] = steps[k][g[k - 1]]
        BY <2>1, <4>1 DEF Iterates
      <4> QED BY <2>5, <3>1, <4>1, <4>2
    <3> QED BY <3>2, <3>3
  <2>7. f[0] = x
    BY <2>2, <2>5
  <2>8. Iterates(n, X, steps, x, f)
    BY <2>5, <2>6, <2>7 DEF Iterates
  <2> QED BY <2>8
<1> HIDE DEF G
<1>3. N \in G
  <2>1. \A n \in 0 .. N : n \in G
    BY <1>1, <1>2, UpTo
  <2> QED BY <2>1
<1> QED BY <1>3 DEF G

-----------------------------------------------------------------------------
(* Recursive definitions: a body that looks only at arguments of a smaller *)
(* measure has a fixpoint.                                                 *)

\* G computes a function on D from its values at arguments of a smaller measure.
Descends(D, R, M, mu, G, f0) ==
    /\ M \in Nat /\ mu \in [D -> 0 .. M] /\ G \in [[D -> R] -> [D -> R]] /\ f0 \in [D -> R]
    /\ \A f, g \in [D -> R] : \A x \in D :
         (\A y \in D : mu[y] < mu[x] => f[y] = g[y]) => G[f][x] = G[g][x]

\* Such a G has a fixpoint, so the recursive definition it stands for has a value.
LEMMA FixpointExists ==
    ASSUME NEW D, NEW R, NEW M, NEW mu, NEW G, NEW f0, Descends(D, R, M, mu, G, f0)
    PROVE  \E f \in [D -> R] : G[f] = f
<1>a. M \in Nat /\ mu \in [D -> 0 .. M] /\ G \in [[D -> R] -> [D -> R]] /\ f0 \in [D -> R]
  BY DEF Descends
<1> DEFINE X == [D -> R]
<1>0. f0 \in X /\ G \in [X -> X]
  BY <1>a
<1>1. PICK steps : steps = [k \in 1 .. M + 2 |-> G]
  OBVIOUS
<1>2. steps \in [1 .. M + 2 -> [X -> X]]
  BY <1>a, <1>1
<1>3. PICK it : Iterates(M + 2, X, steps, f0, it)
  <2>1. PICK N \in Nat : N = M + 2
    BY <1>a
  <2> HIDE DEF X
  <2>2. steps \in [1 .. N -> [X -> X]]
    BY <1>2, <2>1
  <2>3. \E it : Iterates(N, X, steps, f0, it)
    BY <1>0, <2>2, IterationExists
  <2> QED BY <2>1, <2>3
<1>4. /\ \A k \in 0 .. M + 2 : it[k] \in X
      /\ \A k \in 1 .. M + 2 : it[k] = G[it[k - 1]]
  BY <1>a, <1>1, <1>3 DEF Iterates
<1> DEFINE S == {n \in 0 .. M + 1 : \A x \in D : mu[x] < n => it[n][x] = it[n + 1][x]}
<1>5. 0 \in S
  BY <1>a
<1>6. ASSUME NEW n \in 1 .. M + 1, n - 1 \in S PROVE n \in S
  <2> SUFFICES ASSUME NEW x \in D, mu[x] < n PROVE it[n][x] = it[n + 1][x]
    BY <1>a
  <2>1. \A y \in D : mu[y] < n - 1 => it[n - 1][y] = it[n][y]
    BY <1>a, <1>6
  <2>2. \A y \in D : mu[y] < mu[x] => it[n - 1][y] = it[n][y]
    BY <1>a, <2>1
  <2>3. it[n - 1] \in [D -> R] /\ it[n] \in [D -> R]
    BY <1>a, <1>4
  <2>4. G[it[n - 1]][x] = G[it[n]][x]
    BY <1>a, <2>2, <2>3 DEF Descends
  <2>5. it[n] = G[it[n - 1]] /\ it[n + 1] = G[it[n]]
    BY <1>a, <1>4
  <2> QED BY <2>4, <2>5
<1>7. M + 1 \in S
  <2>1. PICK N \in Nat : N = M + 1
    BY <1>a
  <2> HIDE DEF S
  <2>2. \A n \in 1 .. N : n - 1 \in S => n \in S
    BY <1>6, <2>1
  <2>3. \A n \in 0 .. N : n \in S
    BY <1>5, <2>2, UpTo
  <2> QED BY <2>1, <2>3
<1>8. it[M + 1] \in [D -> R] /\ it[M + 2] \in [D -> R] /\ it[M + 2] = G[it[M + 1]]
  BY <1>a, <1>4
<1>9. \A x \in D : it[M + 1][x] = it[M + 2][x]
  BY <1>a, <1>7
<1>10. it[M + 1] = it[M + 2]
  BY <1>a, <1>8, <1>9
<1> QED BY <1>8, <1>10

-----------------------------------------------------------------------------
(* Entries, tables and the states of the walks.                            *)

Mems == [Places -> [Idx -> Entry]]

\* An entry is one of the four kinds.
LEMMA EntryFacts ==
    ASSUME NEW e \in Entry
    PROVE  /\ e.kind \in {"none", "block", "table", "page"} /\ e.user \in BOOLEAN
           /\ e.kind = "none" => e = None
           /\ e.kind = "block" => e = Huge
           /\ e.kind = "table" => e.addr \in Places /\ e = Table(e.addr, e.user)
           /\ e.kind = "page" => e.addr \in Phys /\ e = Page(e.addr, e.user)
<1>1. CASE e = None
  BY <1>1 DEF None, Table, Page, Huge
<1>4. CASE e = Huge
  BY <1>4 DEF None, Huge, Table, Page
<1>2. CASE e \in [kind : {"table"}, addr : Places, user : BOOLEAN]
  BY <1>2 DEF Table
<1>3. CASE e \in [kind : {"page"}, addr : Phys, user : BOOLEAN]
  BY <1>3 DEF Page
<1> QED BY <1>1, <1>2, <1>3, <1>4 DEF Entry

\* The entries the code makes are entries.
LEMMA EntryMade ==
    /\ None \in Entry /\ None.kind = "none" /\ None.user = FALSE
    /\ Huge \in Entry /\ Huge.kind = "block" /\ Huge.user = FALSE
    /\ \A f \in Places, u \in BOOLEAN :
         /\ Table(f, u) \in Entry /\ Table(f, u).kind = "table"
         /\ Table(f, u).addr = f /\ Table(f, u).user = u
    /\ \A a \in Phys, u \in BOOLEAN :
         /\ Page(a, u) \in Entry /\ Page(a, u).kind = "page"
         /\ Page(a, u).addr = a /\ Page(a, u).user = u
BY DEF Entry, None, Huge, Table, Page

\* One entry of one table is written.
Put(m, t, i, e) == [m EXCEPT ![t][i] = e]

\* Writing one entry leaves every other one.
LEMMA PutIs ==
    ASSUME NEW m \in Mems, NEW t \in Places, NEW i \in Idx, NEW e \in Entry
    PROVE  /\ Put(m, t, i, e) \in Mems
           /\ Put(m, t, i, e)[t][i] = e
           /\ \A x \in Places : x # t => Put(m, t, i, e)[x] = m[x]
           /\ \A x \in Places, j \in Idx :
                x # t \/ j # i => Put(m, t, i, e)[x][j] = m[x][j]
BY DEF Put, Mems

Writes(m, t, i, e, m2) ==
    /\ m2 \in Mems
    /\ m2[t][i] = e
    /\ \A x \in Places : x # t => m2[x] = m[x]
    /\ \A x \in Places, j \in Idx : x # t \/ j # i => m2[x][j] = m[x][j]

\* The same, in one word.
LEMMA PutWrites ==
    ASSUME NEW m \in Mems, NEW t \in Places, NEW i \in Idx, NEW e \in Entry
    PROVE  Writes(m, t, i, e, Put(m, t, i, e))
BY PutIs DEF Writes

PutIn(st, t, i, e) == [st EXCEPT !.mem[t][i] = e]

\* Writing one entry of a state.
LEMMA PutState ==
    ASSUME NEW st \in TableState, NEW t \in Places, NEW i \in Idx, NEW e \in Entry
    PROVE  /\ PutIn(st, t, i, e) = [mem |-> Put(st.mem, t, i, e), free |-> st.free]
           /\ PutIn(st, t, i, e) \in TableState
<1> USE DEF PutIn
<1>1. st.mem \in Mems /\ st.free \in SUBSET TableFrames /\ st = [mem |-> st.mem, free |-> st.free]
  BY DEF TableState, Mems
<1>2. [st EXCEPT !.mem[t][i] = e] = [mem |-> Put(st.mem, t, i, e), free |-> st.free]
  <2>1. PICK M, F : st = [mem |-> M, free |-> F]
    BY <1>1
  <2>2. [st EXCEPT !.mem[t][i] = e] = [mem |-> [M EXCEPT ![t][i] = e], free |-> F]
    BY <2>1
  <2>3. st.mem = M /\ st.free = F
    BY <2>1
  <2> QED BY <2>2, <2>3 DEF Put
<1>3. Put(st.mem, t, i, e) \in Mems
  BY <1>1, PutIs
<1> QED BY <1>1, <1>2, <1>3 DEF TableState, Mems

\* alloc_table gives a zeroed frame, a free one unless there is none.
LEMMA AllocIs ==
    ASSUME NEW st \in TableState
    PROVE  LET a == alloc_table(st)
           IN  /\ a.st \in TableState /\ a.t \in Places
               /\ a.st.free = st.free \ {a.t}
               /\ a.st.mem[a.t] = Zeroed
               /\ \A x \in Places : x # a.t => a.st.mem[x] = st.mem[x]
               /\ st.free # {} => a.t \in st.free
<1>0. st.mem \in [Places -> [Idx -> Entry]] /\ st.free \subseteq TableFrames
  BY DEF TableState
<1> DEFINE f == IF st.free = {} THEN 0 ELSE Min(st.free)
<1>1. f \in Places /\ (st.free # {} => f \in st.free)
  <2>1. CASE st.free = {}
    BY <2>1 DEF Places
  <2>2. CASE st.free # {}
    <3>1. st.free \in SUBSET Nat
      BY <1>0, VmmAssumption
    <3>2. \E m \in st.free : \A n \in st.free : m <= n
      BY <2>2, <3>1, LeastNat
    <3>3. Min(st.free) \in st.free
      BY <3>2 DEF Min
    <3> QED BY <1>0, <2>2, <3>3 DEF Places
  <2> QED BY <2>1, <2>2
<1> HIDE DEF f
<1>2. alloc_table(st) = [st |-> [mem |-> [st.mem EXCEPT ![f] = Zeroed], free |-> st.free \ {f}], t |-> f]
  BY DEF alloc_table, f
<1>3. Zeroed \in [Idx -> Entry]
  BY EntryMade DEF Zeroed
<1>4. [st.mem EXCEPT ![f] = Zeroed] \in [Places -> [Idx -> Entry]]
  BY <1>0, <1>3
<1>5. alloc_table(st).st \in TableState
  BY <1>0, <1>2, <1>4 DEF TableState
<1> QED BY <1>0, <1>1, <1>2, <1>5

-----------------------------------------------------------------------------
(* clone_table_level satisfies its equation.                               *)

Prev(x) == [x EXCEPT !.n = x.n - 1]

Below(r, x) == [level |-> x.level + 1, n |-> Entries, st |-> alloc_table(r).st,
                src |-> r.mem[x.src][x.n - 1].addr, dst |-> alloc_table(r).t]

CloneBody(g, x) ==
    IF x.n = 0 THEN x.st
    ELSE LET r == g[Prev(x)]
             e == r.mem[x.src][x.n - 1]
         IN  IF e.kind = "none" THEN r
             ELSE IF clone_leaf(e, x.level) THEN [r EXCEPT !.mem[x.dst][x.n - 1] = e]
             ELSE [g[Below(r, x)] EXCEPT !.mem[x.dst][x.n - 1] =
                     Table(alloc_table(r).t, e.user)]

Rank(l, n) == (Levels - l) * (Entries + 1) + n

\* The measure of a call of clone_table_level falls with every call it makes.
LEMMA RankFacts ==
    ASSUME NEW l \in 1 .. Levels, NEW n \in 0 .. Entries
    PROVE  /\ Rank(l, n) \in 0 .. Levels * (Entries + 1) + Entries
           /\ n # 0 => Rank(l, n - 1) < Rank(l, n)
           /\ l # Levels => Rank(l + 1, Entries) < Rank(l, n)
<1>1. Levels \in Nat /\ Entries \in Nat
  BY VmmAssumption
<1>2. PICK W \in Nat : W = Entries + 1
  BY <1>1
<1>3. PICK a \in Nat : a = Levels - l /\ a <= Levels
  BY <1>1
<1>4. a * W \in Nat /\ Levels * W \in Nat
  BY <1>1, <1>2, <1>3, SMTT(30)
<1>5. a * W <= Levels * W
  BY <1>1, <1>2, <1>3, SMTT(30)
<1>6. (a - 1) * W = a * W - W
  BY <1>2, <1>3, SMTT(30)
<1>7. Rank(l, n) = a * W + n /\ Rank(l, n - 1) = a * W + (n - 1)
  BY <1>2, <1>3 DEF Rank
<1>8. Rank(l + 1, Entries) = (a - 1) * W + Entries
  <2>1. Levels - (l + 1) = a - 1
    BY <1>1, <1>3
  <2> QED BY <1>2, <2>1 DEF Rank
<1>9. Rank(l, n) \in 0 .. Levels * W + Entries
  BY <1>1, <1>4, <1>5, <1>7
<1>10. Rank(l, n - 1) < Rank(l, n) /\ Rank(l + 1, Entries) < Rank(l, n)
  BY <1>1, <1>2, <1>4, <1>6, <1>7, <1>8
<1> QED BY <1>2, <1>9, <1>10

\* A call, and the call for one entry fewer.
LEMMA CallFacts ==
    ASSUME NEW x \in CloneCall
    PROVE  /\ x.level \in 1 .. Levels /\ x.n \in 0 .. Entries /\ x.st \in TableState
           /\ x.src \in Places /\ x.dst \in Places
           /\ x = [level |-> x.level, n |-> x.n, st |-> x.st, src |-> x.src, dst |-> x.dst]
           /\ x.n # 0 => /\ x.n - 1 \in Idx
                         /\ Prev(x) \in CloneCall
                         /\ Prev(x) = [level |-> x.level, n |-> x.n - 1, st |-> x.st,
                                       src |-> x.src, dst |-> x.dst]
<1>1. /\ x.level \in 1 .. Levels /\ x.n \in 0 .. Entries /\ x.st \in TableState
      /\ x.src \in Places /\ x.dst \in Places
      /\ x = [level |-> x.level, n |-> x.n, st |-> x.st, src |-> x.src, dst |-> x.dst]
  BY DEF CloneCall
<1>2. ASSUME x.n # 0
      PROVE  /\ x.n - 1 \in Idx /\ x.n - 1 \in 0 .. Entries
             /\ Prev(x) = [level |-> x.level, n |-> x.n - 1, st |-> x.st,
                           src |-> x.src, dst |-> x.dst]
  <2>1. x.n - 1 \in Idx /\ x.n - 1 \in 0 .. Entries
    BY <1>1, <1>2, VmmAssumption DEF Idx
  <2> QED BY <1>1, <2>1 DEF Prev
<1>3. x.n # 0 => Prev(x) \in CloneCall
  BY <1>1, <1>2 DEF CloneCall
<1> QED BY <1>1, <1>2, <1>3

\* The state before the entry is copied, and the call for a table below it.
LEMMA BelowFacts ==
    ASSUME NEW x \in CloneCall, x.n # 0, NEW r \in TableState
    PROVE  LET e == r.mem[x.src][x.n - 1]
           IN  /\ e \in Entry
               /\ ~clone_leaf(e, x.level) =>
                    /\ e.kind = "table" /\ x.level # Levels
                    /\ Below(r, x) \in CloneCall
                    /\ Below(r, x).level = x.level + 1 /\ Below(r, x).n = Entries
<1>1. r.mem \in [Places -> [Idx -> Entry]] /\ x.src \in Places /\ x.n - 1 \in Idx
  BY CallFacts DEF TableState
<1>2. PICK e \in Entry : e = r.mem[x.src][x.n - 1]
  BY <1>1
<1>3. ASSUME ~clone_leaf(e, x.level)
      PROVE  /\ e.kind = "table" /\ x.level # Levels
             /\ Below(r, x) \in CloneCall
             /\ Below(r, x).level = x.level + 1 /\ Below(r, x).n = Entries
  <2>1. e.kind = "table" /\ x.level # Levels /\ e.addr \in Places
    BY <1>3, EntryFacts DEF clone_leaf
  <2>2. x.level + 1 \in 1 .. Levels /\ Entries \in 0 .. Entries
    BY <2>1, CallFacts, VmmAssumption
  <2>3. alloc_table(r).st \in TableState /\ alloc_table(r).t \in Places
    BY AllocIs
  <2>4. Below(r, x) = [level |-> x.level + 1, n |-> Entries, st |-> alloc_table(r).st,
                       src |-> e.addr, dst |-> alloc_table(r).t]
    BY <1>2 DEF Below
  <2>5. Below(r, x) \in CloneCall
    BY <2>1, <2>2, <2>3, <2>4 DEF CloneCall
  <2> QED BY <2>1, <2>4, <2>5
<1> QED BY <1>2, <1>3

\* The value of the body is a state when the values it uses are.
LEMMA BodyTyped ==
    ASSUME NEW g, NEW x \in CloneCall,
           x.n # 0 => g[Prev(x)] \in TableState,
           x.n # 0 /\ ~clone_leaf(g[Prev(x)].mem[x.src][x.n - 1], x.level)
             => g[Below(g[Prev(x)], x)] \in TableState
    PROVE  CloneBody(g, x) \in TableState
<1>1. CASE x.n = 0
  BY <1>1, CallFacts DEF CloneBody
<1>2. CASE x.n # 0
  <2>1. PICK r \in TableState : r = g[Prev(x)]
    BY <1>2
  <2>2. PICK e \in Entry : e = r.mem[x.src][x.n - 1]
    BY <1>2, BelowFacts
  <2>3. PICK i \in Idx, d \in Places : i = x.n - 1 /\ d = x.dst
    BY <1>2, CallFacts
  <2>4. CASE e.kind = "none"
    BY <1>2, <2>1, <2>2, <2>4 DEF CloneBody
  <2>5. CASE e.kind # "none" /\ clone_leaf(e, x.level)
    <3>1. CloneBody(g, x) = PutIn(r, d, i, e)
      BY <1>2, <2>1, <2>2, <2>3, <2>5 DEF CloneBody, PutIn
    <3> QED BY <3>1, PutState
  <2>6. CASE e.kind # "none" /\ ~clone_leaf(e, x.level)
    <3>1. PICK c \in TableState : c = g[Below(r, x)]
      BY <1>2, <2>1, <2>2, <2>6
    <3>2. PICK y \in Entry : y = Table(alloc_table(r).t, e.user)
      BY AllocIs, EntryMade, EntryFacts
    <3>3. CloneBody(g, x) = PutIn(c, d, i, y)
      BY <1>2, <2>1, <2>2, <2>3, <2>6, <3>1, <3>2 DEF CloneBody, PutIn
    <3> QED BY <3>3, PutState
  <2> QED BY <2>4, <2>5, <2>6
<1> QED BY <1>1, <1>2

\* clone_table_level is the function its body describes.
LEMMA CloneFixpoint ==
    clone_table_level = [x \in CloneCall |-> CloneBody(clone_table_level, x)]
<1> DEFINE Eq(g) == g = [x \in CloneCall |-> CloneBody(g, x)]
           X == [CloneCall -> TableState]
<1>1. PICK mu : mu = [x \in CloneCall |-> Rank(x.level, x.n)]
  OBVIOUS
<1>2. PICK M \in Nat : M = Levels * (Entries + 1) + Entries
  <2>1. Levels \in Nat /\ Entries \in Nat
    BY VmmAssumption
  <2> QED BY <2>1, SMTT(30)
<1>3. mu \in [CloneCall -> 0 .. M]
  BY <1>1, <1>2, CallFacts, RankFacts
<1>4. PICK G : G = [g \in X |-> [x \in CloneCall |-> CloneBody(g, x)]]
  OBVIOUS
<1>5. G \in [X -> X]
  <2> SUFFICES ASSUME NEW g \in X, NEW x \in CloneCall PROVE CloneBody(g, x) \in TableState
    BY <1>4
  <2>1. x.n # 0 => g[Prev(x)] \in TableState
    BY CallFacts
  <2>2. x.n # 0 /\ ~clone_leaf(g[Prev(x)].mem[x.src][x.n - 1], x.level)
          => g[Below(g[Prev(x)], x)] \in TableState
    BY <2>1, BelowFacts
  <2> QED BY <2>1, <2>2, BodyTyped
<1>6. ASSUME NEW f \in X, NEW g \in X, NEW x \in CloneCall,
             \A y \in CloneCall : mu[y] < mu[x] => f[y] = g[y]
      PROVE  G[f][x] = G[g][x]
  <2>1. G[f][x] = CloneBody(f, x) /\ G[g][x] = CloneBody(g, x)
    BY <1>4
  <2>2. CASE x.n = 0
    BY <2>1, <2>2 DEF CloneBody
  <2>3. CASE x.n # 0
    <3>1. Prev(x) \in CloneCall /\ mu[Prev(x)] < mu[x]
      BY <1>1, <2>3, CallFacts, RankFacts
    <3>2. PICK r \in TableState : r = f[Prev(x)] /\ r = g[Prev(x)]
      BY <1>6, <3>1
    <3>3. ~clone_leaf(r.mem[x.src][x.n - 1], x.level) => f[Below(r, x)] = g[Below(r, x)]
      <4> SUFFICES ASSUME ~clone_leaf(r.mem[x.src][x.n - 1], x.level)
                   PROVE  f[Below(r, x)] = g[Below(r, x)]
        OBVIOUS
      <4>1. /\ Below(r, x) \in CloneCall /\ x.level # Levels
            /\ Below(r, x).level = x.level + 1 /\ Below(r, x).n = Entries
        BY <2>3, BelowFacts
      <4>2. mu[Below(r, x)] < mu[x]
        BY <1>1, <4>1, CallFacts, RankFacts
      <4> QED BY <1>6, <4>1, <4>2
    <3> QED BY <2>1, <2>3, <3>2, <3>3 DEF CloneBody
  <2> QED BY <2>2, <2>3
<1>7. PICK f0 : f0 = [x \in CloneCall |-> x.st]
  OBVIOUS
<1>8. f0 \in [CloneCall -> TableState]
  BY <1>7, CallFacts
<1>9. PICK f \in [CloneCall -> TableState] : G[f] = f
  <2>1. Descends(CloneCall, TableState, M, mu, G, f0)
    BY <1>2, <1>3, <1>5, <1>6, <1>8 DEF Descends
  <2> HIDE DEF X
  <2> QED BY <2>1, FixpointExists
<1>10. Eq(f)
  BY <1>4, <1>9
<1>11. clone_table_level = CHOOSE g : Eq(g)
  BY DEF clone_table_level, CloneBody, Prev, Below
<1> HIDE DEF Eq
<1>12. Eq(clone_table_level)
  BY <1>10, <1>11
<1> QED BY <1>12 DEF Eq

\* A clone gives a state of tables.
LEMMA CloneTyped ==
    ASSUME NEW x \in CloneCall
    PROVE  /\ clone_table_level[x] = CloneBody(clone_table_level, x)
           /\ clone_table_level[x] \in TableState
<1> DEFINE g == clone_table_level
           Bad == {y \in CloneCall : g[y] \notin TableState}
           T == {Rank(y.level, y.n) : y \in Bad}
<1>1. \A y \in CloneCall : g[y] = CloneBody(g, y)
  BY CloneFixpoint
<1>2. ASSUME Bad # {} PROVE FALSE
  <2>1. T \in SUBSET Nat /\ T # {}
    BY <1>2, CallFacts, RankFacts
  <2>2. PICK y \in Bad : \A z \in Bad : Rank(y.level, y.n) <= Rank(z.level, z.n)
    <3>1. PICK m \in T : \A n \in T : m <= n
      <4> HIDE DEF T
      <4> QED BY <2>1, LeastNat
    <3>2. PICK y \in Bad : m = Rank(y.level, y.n)
      <4> HIDE DEF Bad
      <4> QED OBVIOUS
    <3> HIDE DEF Bad
    <3> QED BY <3>1, <3>2
  <2>3. \A z \in CloneCall : Rank(z.level, z.n) < Rank(y.level, y.n) => g[z] \in TableState
    <3> SUFFICES ASSUME NEW z \in CloneCall, Rank(z.level, z.n) < Rank(y.level, y.n),
                        g[z] \notin TableState
                 PROVE  FALSE
      OBVIOUS
    <3>1. Rank(y.level, y.n) <= Rank(z.level, z.n)
      BY <2>2
    <3>2. Rank(y.level, y.n) \in Int /\ Rank(z.level, z.n) \in Int
      BY CallFacts, RankFacts
    <3> QED BY <3>1, <3>2
  <2>4. y.n # 0 => g[Prev(y)] \in TableState
    BY <2>3, CallFacts, RankFacts
  <2>5. y.n # 0 /\ ~clone_leaf(g[Prev(y)].mem[y.src][y.n - 1], y.level)
          => g[Below(g[Prev(y)], y)] \in TableState
    BY <2>3, <2>4, BelowFacts, CallFacts, RankFacts
  <2>6. CloneBody(g, y) \in TableState
    <3> HIDE DEF g
    <3> QED BY <2>4, <2>5, BodyTyped
  <2> QED BY <1>1, <2>6
<1> QED BY <1>1, <1>2

-----------------------------------------------------------------------------
(* The page tables are a forest: every used frame is a table with a level  *)
(* and an owner, reached from one entry of a table one level up, or from   *)
(* the root of its owner.                                                  *)

PageSet == [1 .. Levels -> Idx]

Used(F) == TableFrames \ F

Linked(m, F, lv, own) ==
    \A t \in Used(F), i \in Idx : m[t][i].kind = "table" =>
      /\ m[t][i].addr \in Used(F)
      /\ lv[m[t][i].addr] = lv[t] + 1
      /\ own[m[t][i].addr] = own[t]

Single(m, F) ==
    \A t, u \in Used(F), i, j \in Idx :
      m[t][i].kind = "table" /\ m[u][j].kind = "table" /\ m[t][i].addr = m[u][j].addr
        => t = u /\ i = j

Rooted(F, rt, lv, own) ==
    \A s \in Spaces : rt[s] # NoRoot => rt[s] \in Used(F) /\ lv[rt[s]] = 1 /\ own[rt[s]] = s

Refers(m, p, i, t) == m[p][i].kind = "table" /\ m[p][i].addr = t

Reached(m, F, rt, lv, own) ==
    \A t \in Used(F) :
      /\ rt[own[t]] # NoRoot
      /\ lv[t] = 1 => rt[own[t]] = t
      /\ lv[t] # 1 => \E p \in Used(F), i \in Idx : Refers(m, p, i, t)

\* Pages at the last level, blocks above it; on x86_64 right above it.
Leaves(a, m, F, lv) ==
    \A t \in Used(F), i \in Idx :
      /\ m[t][i].kind = "page" => lv[t] = Levels
      /\ m[t][i].kind = "block" => lv[t] # Levels /\ (a = "x86_64" => lv[t] = Levels - 1)

\* An entry open to user mode is in a table whose entry is open, too.
Allowed(a, m, F) ==
    \A p \in Used(F), i \in Idx : m[p][i].kind = "table" =>
      /\ a = "aarch64" => m[p][i].user
      /\ \A j \in Idx : m[m[p][i].addr][j].user => m[p][i].user

Typed(m, F, rt, lv, own) ==
    /\ m \in Mems /\ F \subseteq TableFrames
    /\ rt \in [Spaces -> TableFrames \cup {NoRoot}]
    /\ lv \in [Used(F) -> 1 .. Levels] /\ own \in [Used(F) -> Spaces]

Forest(a, m, F, rt, lv, own) ==
    /\ Typed(m, F, rt, lv, own)
    /\ Linked(m, F, lv, own)
    /\ Single(m, F)
    /\ Rooted(F, rt, lv, own)
    /\ Reached(m, F, rt, lv, own)
    /\ Leaves(a, m, F, lv)
    /\ Allowed(a, m, F)

-----------------------------------------------------------------------------
(* Walks.                                                                  *)

Step(m, p, k, e) == IF e.kind = "table" THEN m[e.addr][p[k]] ELSE e

\* There are at least two levels.
LEMMA LevelsNat == Levels \in Nat /\ Levels >= 2
BY VmmAssumption

\* A walk starts in the root and goes from level to level.
LEMMA WalkIs ==
    ASSUME NEW m \in Mems, NEW r \in Places, NEW p \in PageSet
    PROVE  /\ Walk(m, r, p) \in [1 .. Levels -> Entry]
           /\ Walk(m, r, p)[1] = m[r][p[1]]
           /\ \A k \in 2 .. Levels : Walk(m, r, p)[k] = Step(m, p, k, Walk(m, r, p)[k - 1])
<1> DEFINE Eq(w) == w = [k \in 1 .. Levels |-> IF k = 1 THEN m[r][p[1]]
                                              ELSE Step(m, p, k, w[k - 1])]
<1>1. PICK N \in Nat : N = Levels - 1
  BY LevelsNat
<1>2. \A k \in 1 .. N : k + 1 \in 1 .. Levels
  BY <1>1, LevelsNat
<1>3. \A k \in 1 .. Levels, e \in Entry : Step(m, p, k, e) \in Entry
  <2> SUFFICES ASSUME NEW k \in 1 .. Levels, NEW e \in Entry PROVE Step(m, p, k, e) \in Entry
    OBVIOUS
  <2>1. e.kind = "table" => e.addr \in Places
    BY EntryFacts
  <2> QED BY <2>1 DEF Step, Mems, PageSet
<1>4. PICK steps : steps = [k \in 1 .. N |-> [e \in Entry |-> Step(m, p, k + 1, e)]]
  OBVIOUS
<1>5. steps \in [1 .. N -> [Entry -> Entry]]
  BY <1>2, <1>3, <1>4
<1>6. PICK x \in Entry : x = m[r][p[1]]
  <2>1. 1 \in 1 .. Levels
    BY LevelsNat
  <2> QED BY <2>1 DEF Mems, PageSet
<1>7. PICK f : Iterates(N, Entry, steps, x, f)
  BY <1>1, <1>5, <1>6, IterationExists
<1>8. /\ f \in [0 .. N -> Entry] /\ f[0] = x
      /\ \A k \in 1 .. N : f[k] = Step(m, p, k + 1, f[k - 1])
  BY <1>1, <1>4, <1>7 DEF Iterates
<1>9. PICK w : w = [k \in 1 .. Levels |-> f[k - 1]]
  OBVIOUS
<1>10. Eq(w)
  <2>1. ASSUME NEW k \in 1 .. Levels
        PROVE  w[k] = IF k = 1 THEN m[r][p[1]] ELSE Step(m, p, k, w[k - 1])
    <3>1. CASE k = 1
      BY <1>6, <1>8, <1>9, <3>1
    <3>2. CASE k # 1
      <4>1. k - 1 \in 1 .. N /\ k - 1 \in 1 .. Levels /\ (k - 1) + 1 = k
        BY <1>1, <3>2, LevelsNat
      <4>2. w[k] = f[k - 1] /\ w[k - 1] = f[(k - 1) - 1]
        BY <1>9, <4>1
      <4>3. f[k - 1] = Step(m, p, k, f[(k - 1) - 1])
        BY <1>8, <4>1
      <4> QED BY <3>2, <4>2, <4>3
    <3> QED BY <3>1, <3>2
  <2>2. w = [k \in 1 .. Levels |-> w[k]]
    BY <1>9
  <2> QED BY <2>1, <2>2
<1>11. Walk(m, r, p) = CHOOSE u : Eq(u)
  BY DEF Walk, Step
<1>12. Eq(Walk(m, r, p))
  <2> HIDE DEF Eq
  <2> QED BY <1>10, <1>11
<1>13. PICK v : v = Walk(m, r, p) /\ Eq(v)
  BY <1>12
<1>14. v[1] = x /\ \A k \in 2 .. Levels : v[k] = Step(m, p, k, v[k - 1])
  BY <1>6, <1>13, LevelsNat
<1>15. ASSUME NEW k \in 1 .. Levels PROVE v[k] \in Entry
  <2> DEFINE S == {n \in 0 .. N : v[n + 1] \in Entry}
  <2>1. 0 \in S
    BY <1>1, <1>14
  <2>2. ASSUME NEW n \in 1 .. N, n - 1 \in S PROVE n \in S
    <3>1. n + 1 \in 2 .. Levels /\ n + 1 \in 1 .. Levels /\ (n + 1) - 1 = (n - 1) + 1
      BY <1>1, LevelsNat
    <3> QED BY <1>3, <1>14, <2>2, <3>1
  <2>3. \A n \in 0 .. N : n \in S
    <3> HIDE DEF S
    <3> QED BY <1>1, <2>1, <2>2, UpTo
  <2>4. k - 1 \in 0 .. N /\ (k - 1) + 1 = k
    BY <1>1, LevelsNat
  <2> QED BY <2>3, <2>4
<1>16. v \in [1 .. Levels -> Entry]
  BY <1>13, <1>15
<1> QED BY <1>6, <1>13, <1>14, <1>16

\* Induction along a walk, from level d down.
LEMMA LevelsDown ==
    ASSUME NEW d \in 1 .. Levels, NEW G, d \in G,
           \A k \in 2 .. Levels : k > d /\ k - 1 \in G => k \in G
    PROVE  \A k \in d .. Levels : k \in G
<1>1. PICK N \in Nat : N = Levels - d
  BY LevelsNat
<1> DEFINE S == {n \in 0 .. N : n + d \in G}
<1>2. 0 \in S
  BY <1>1
<1>3. ASSUME NEW n \in 1 .. N, n - 1 \in S PROVE n \in S
  <2>1. n + d \in 2 .. Levels /\ n + d > d /\ (n + d) - 1 = (n - 1) + d
    BY <1>1, LevelsNat
  <2> QED BY <1>3, <2>1
<1>4. \A n \in 0 .. N : n \in S
  <2> HIDE DEF S
  <2> QED BY <1>1, <1>2, <1>3, UpTo
<1>5. ASSUME NEW k \in d .. Levels PROVE k \in G
  <2>1. k - d \in 0 .. N /\ (k - d) + d = k
    BY <1>1, LevelsNat
  <2> QED BY <1>4, <2>1
<1> QED BY <1>5

\* A walk reads a table of level k: the root, or what the entry above refers to.
Gets(m, r, p, k)    == k = 1 \/ Walk(m, r, p)[k - 1].kind = "table"
TableAt(m, r, p, k) == IF k = 1 THEN r ELSE Walk(m, r, p)[k - 1].addr

Last(m, r, p) == Walk(m, r, p)[Levels]

\* The entry a walk reads at a level, or the one it stays at.
LEMMA WalkStep ==
    ASSUME NEW m \in Mems, NEW r \in Places, NEW p \in PageSet, NEW k \in 1 .. Levels
    PROVE  /\ Walk(m, r, p)[k] \in Entry
           /\ Gets(m, r, p, k) => Walk(m, r, p)[k] = m[TableAt(m, r, p, k)][p[k]]
           /\ ~Gets(m, r, p, k) => /\ k - 1 \in 1 .. Levels
                                   /\ Walk(m, r, p)[k] = Walk(m, r, p)[k - 1]
                                   /\ Walk(m, r, p)[k].kind # "table"
<1>1. Walk(m, r, p)[k] \in Entry
  <2>1. PICK w \in [1 .. Levels -> Entry] : w = Walk(m, r, p)
    BY WalkIs
  <2> QED BY <2>1
<1>2. CASE k = 1
  BY <1>1, <1>2, WalkIs DEF Gets, TableAt
<1>3. CASE k # 1
  <2>1. k \in 2 .. Levels /\ k - 1 \in 1 .. Levels
    BY <1>3, LevelsNat
  <2>2. Walk(m, r, p)[k] = Step(m, p, k, Walk(m, r, p)[k - 1])
    BY <2>1, WalkIs
  <2> QED BY <1>1, <1>3, <2>1, <2>2 DEF Gets, TableAt, Step
<1> QED BY <1>2, <1>3

\* A walk stays at an entry that is no table.
LEMMA WalkStays ==
    ASSUME NEW m \in Mems, NEW r \in Places, NEW p \in PageSet, NEW j \in 1 .. Levels,
           Walk(m, r, p)[j].kind # "table"
    PROVE  \A k \in j .. Levels : Walk(m, r, p)[k] = Walk(m, r, p)[j]
<1> DEFINE w == Walk(m, r, p)
           G == {n \in 1 .. Levels : w[n] = w[j]}
<1>1. j \in G
  OBVIOUS
<1>2. ASSUME NEW n \in 2 .. Levels, n > j, n - 1 \in G PROVE n \in G
  <2>1. w[n] = Step(m, p, n, w[n - 1])
    BY WalkIs
  <2> QED BY <1>2, <2>1 DEF Step
<1>3. \A n \in j .. Levels : n \in G
  <2> HIDE DEF G
  <2> QED BY <1>1, <1>2, LevelsDown
<1> QED BY <1>3

\* A walk that is still at a table has read one at every level.
LEMMA WalkTables ==
    ASSUME NEW m \in Mems, NEW r \in Places, NEW p \in PageSet,
           NEW k \in 1 .. Levels, NEW j \in 1 .. Levels, j <= k
    PROVE  /\ Gets(m, r, p, k) => Gets(m, r, p, j)
           /\ j < k /\ Gets(m, r, p, k) => Walk(m, r, p)[j].kind = "table"
           /\ Walk(m, r, p)[k].kind = "table" => Walk(m, r, p)[j].kind = "table"
<1>1. k \in j .. Levels /\ (j < k => k # 1 /\ k - 1 \in j .. Levels)
  BY LevelsNat
<1>2. Walk(m, r, p)[k].kind = "table" => Walk(m, r, p)[j].kind = "table"
  BY <1>1, WalkStays
<1>3. j < k /\ Gets(m, r, p, k) => Walk(m, r, p)[j].kind = "table"
  BY <1>1, WalkStays DEF Gets
<1>4. Gets(m, r, p, k) => Gets(m, r, p, j)
  <2>1. CASE j = 1
    BY <2>1 DEF Gets
  <2>2. CASE j # 1
    <3>1. PICK i \in 1 .. Levels : i = j - 1
      BY <2>2, LevelsNat
    <3>2. k # 1 /\ k - 1 \in i .. Levels
      BY <2>2, <3>1, LevelsNat
    <3> QED BY <2>2, <3>1, <3>2, WalkStays DEF Gets
  <2> QED BY <2>1, <2>2
<1> QED BY <1>2, <1>3, <1>4

-----------------------------------------------------------------------------
(* Walks in a forest.                                                      *)

\* A walk from a root reads tables of its own space, one of each level.
LEMMA WalkTree ==
    ASSUME NEW a, NEW m, NEW F, NEW rt, NEW lv, NEW own, Forest(a, m, F, rt, lv, own),
           NEW s \in Spaces, rt[s] # NoRoot, NEW p \in PageSet
    PROVE  /\ m \in Mems /\ rt[s] \in Used(F) /\ rt[s] \in Places
           /\ \A k \in 1 .. Levels : Gets(m, rt[s], p, k) =>
                /\ TableAt(m, rt[s], p, k) \in Used(F)
                /\ lv[TableAt(m, rt[s], p, k)] = k
                /\ own[TableAt(m, rt[s], p, k)] = s
<1> DEFINE r == rt[s]
           Good(k) == /\ TableAt(m, r, p, k) \in Used(F)
                      /\ lv[TableAt(m, r, p, k)] = k
                      /\ own[TableAt(m, r, p, k)] = s
           G == {k \in 1 .. Levels : Gets(m, r, p, k) => Good(k)}
<1>1. m \in Mems /\ r \in Used(F) /\ r \in Places /\ lv[r] = 1 /\ own[r] = s
  BY DEF Forest, Typed, Rooted, Used, Places
<1> HIDE DEF r
<1>2. 1 \in G
  BY <1>1, LevelsNat DEF TableAt
<1>3. ASSUME NEW k \in 2 .. Levels, k > 1, k - 1 \in G PROVE k \in G
  <2> SUFFICES ASSUME Gets(m, r, p, k) PROVE Good(k)
    BY LevelsNat
  <2>1. k # 1 /\ k - 1 \in 1 .. Levels
    BY LevelsNat
  <2>2. Walk(m, r, p)[k - 1].kind = "table"
    BY <2>1 DEF Gets
  <2>3. Gets(m, r, p, k - 1)
    BY <1>1, <2>1, <2>2, WalkStep
  <2>4. PICK t \in Used(F) : t = TableAt(m, r, p, k - 1) /\ lv[t] = k - 1 /\ own[t] = s
    BY <1>3, <2>3
  <2>5. PICK i \in Idx : i = p[k - 1]
    BY <2>1 DEF PageSet
  <2>6. Walk(m, r, p)[k - 1] = m[t][i]
    BY <1>1, <2>1, <2>3, <2>4, <2>5, WalkStep
  <2>7. m[t][i].addr \in Used(F) /\ lv[m[t][i].addr] = lv[t] + 1 /\ own[m[t][i].addr] = own[t]
    BY <2>2, <2>6 DEF Forest, Linked
  <2>8. TableAt(m, r, p, k) = m[t][i].addr
    BY <2>1, <2>6 DEF TableAt
  <2> QED BY <2>4, <2>7, <2>8
<1>4. PICK d \in 1 .. Levels : d = 1
  BY LevelsNat
<1>5. \A k \in d .. Levels : k \in G
  <2>1. d \in G /\ \A k \in 2 .. Levels : k > d /\ k - 1 \in G => k \in G
    BY <1>2, <1>3, <1>4
  <2> HIDE DEF G
  <2> QED BY <2>1, LevelsDown
<1>6. \A k \in 1 .. Levels : Gets(m, r, p, k) => Good(k)
  BY <1>4, <1>5
<1> QED BY <1>1, <1>6 DEF r

\* Where a walk can end.
LEMMA LastKinds ==
    ASSUME NEW a, NEW m, NEW F, NEW rt, NEW lv, NEW own, Forest(a, m, F, rt, lv, own),
           NEW s \in Spaces, rt[s] # NoRoot, NEW p \in PageSet
    PROVE  /\ Last(m, rt[s], p) \in Entry
           /\ Gets(m, rt[s], p, Levels) => Last(m, rt[s], p).kind \in {"none", "page"}
           /\ ~Gets(m, rt[s], p, Levels) => Last(m, rt[s], p).kind \in {"none", "block"}
<1>1. PICK r \in Used(F) : r = rt[s] /\ r \in Places /\ m \in Mems
  BY WalkTree
<1> DEFINE w == Walk(m, r, p)
           G == {k \in 1 .. Levels : w[k].kind = "page" => k = Levels /\ Gets(m, r, p, k)}
<1>2. ASSUME NEW k \in 1 .. Levels, Gets(m, r, p, k)
      PROVE  \E t \in Used(F), i \in Idx : lv[t] = k /\ w[k] = m[t][i]
  <2>1. w[k] = m[TableAt(m, r, p, k)][p[k]] /\ p[k] \in Idx
    BY <1>1, <1>2, WalkStep DEF PageSet
  <2>2. TableAt(m, r, p, k) \in Used(F) /\ lv[TableAt(m, r, p, k)] = k
    BY <1>1, <1>2, WalkTree
  <2> QED BY <2>1, <2>2
<1>3. \A k \in 1 .. Levels : w[k].kind = "page" /\ Gets(m, r, p, k) => k = Levels
  BY <1>2 DEF Forest, Leaves
<1>4. 1 \in G
  BY <1>3, LevelsNat DEF Gets
<1>5. ASSUME NEW k \in 2 .. Levels, k > 1, k - 1 \in G PROVE k \in G
  <2>1. k \in 1 .. Levels /\ k - 1 \in 1 .. Levels /\ k - 1 # Levels
    BY LevelsNat
  <2>2. ~Gets(m, r, p, k) => w[k] = w[k - 1]
    BY <1>1, <2>1, WalkStep
  <2> QED BY <1>3, <1>5, <2>1, <2>2
<1>6. PICK d \in 1 .. Levels : d = 1
  BY LevelsNat
<1>7. \A k \in d .. Levels : k \in G
  <2>1. d \in G /\ \A k \in 2 .. Levels : k > d /\ k - 1 \in G => k \in G
    BY <1>4, <1>5, <1>6
  <2> HIDE DEF G
  <2> QED BY <2>1, LevelsDown
<1>8. Levels \in 1 .. Levels /\ Levels \in d .. Levels
  BY <1>6, LevelsNat
<1>9. w[Levels].kind = "page" => Gets(m, r, p, Levels)
  BY <1>7, <1>8
<1>10. w[Levels] \in Entry /\ (~Gets(m, r, p, Levels) => w[Levels].kind # "table")
  BY <1>1, <1>8, WalkStep
<1>11. Gets(m, r, p, Levels) => w[Levels].kind # "block" /\ w[Levels].kind # "table"
  <2> SUFFICES ASSUME Gets(m, r, p, Levels)
               PROVE  w[Levels].kind # "block" /\ w[Levels].kind # "table"
    OBVIOUS
  <2>1. PICK t \in Used(F), i \in Idx : lv[t] = Levels /\ w[Levels] = m[t][i]
    BY <1>2, <1>8
  <2>2. m[t][i].kind # "block"
    BY <2>1 DEF Forest, Leaves
  <2>3. m[t][i].kind # "table"
    <3> SUFFICES ASSUME m[t][i].kind = "table" PROVE FALSE
      OBVIOUS
    <3>1. m[t][i].addr \in Used(F) /\ lv[m[t][i].addr] = Levels + 1
      BY <2>1 DEF Forest, Linked
    <3>2. lv[m[t][i].addr] \in 1 .. Levels
      BY <3>1 DEF Forest, Typed
    <3> QED BY <3>1, <3>2, LevelsNat
  <2> QED BY <2>1, <2>2, <2>3
<1>12. w[Levels].kind \in {"none", "block", "table", "page"}
  BY <1>10, EntryFacts
<1> QED BY <1>1, <1>9, <1>10, <1>11, <1>12 DEF Last

\* A walk depends on the tables of its space only.
LEMMA WalkSame ==
    ASSUME NEW a, NEW m, NEW F, NEW rt, NEW lv, NEW own, Forest(a, m, F, rt, lv, own),
           NEW s \in Spaces, rt[s] # NoRoot, NEW p \in PageSet, NEW m2 \in Mems,
           \A t \in Used(F) : own[t] = s => m2[t] = m[t]
    PROVE  Walk(m2, rt[s], p) = Walk(m, rt[s], p)
<1>1. PICK r \in Used(F) : r = rt[s] /\ r \in Places /\ m \in Mems
  BY WalkTree
<1> DEFINE w == Walk(m, r, p)
           w2 == Walk(m2, r, p)
           G == {k \in 1 .. Levels : w2[k] = w[k]}
<1>2. \A k \in 1 .. Levels : Gets(m, r, p, k) =>
        m2[TableAt(m, r, p, k)] = m[TableAt(m, r, p, k)]
  BY <1>1, WalkTree
<1>3. PICK d \in 1 .. Levels : d = 1
  BY LevelsNat
<1>4. d \in G
  <2>1. m2[r] = m[r]
    BY <1>2, <1>3 DEF Gets, TableAt
  <2> QED BY <1>1, <1>3, <2>1, WalkIs
<1>5. ASSUME NEW k \in 2 .. Levels, k > d, k - 1 \in G PROVE k \in G
  <2>1. w2[k] = Step(m2, p, k, w[k - 1]) /\ w[k] = Step(m, p, k, w[k - 1])
    BY <1>1, <1>5, WalkIs
  <2>2. k \in 1 .. Levels /\ k # 1
    BY LevelsNat
  <2>3. w[k - 1].kind = "table" => m2[w[k - 1].addr] = m[w[k - 1].addr]
    BY <1>2, <2>2 DEF Gets, TableAt
  <2> QED BY <2>1, <2>2, <2>3 DEF Step
<1>6. \A k \in d .. Levels : k \in G
  <2> HIDE DEF G
  <2> QED BY <1>4, <1>5, LevelsDown
<1>7. w \in [1 .. Levels -> Entry] /\ w2 \in [1 .. Levels -> Entry]
  BY <1>1, WalkIs
<1>8. \A k \in 1 .. Levels : w2[k] = w[k]
  BY <1>3, <1>6
<1>9. w2 = w
  <2>6. PICK v \in [1 .. Levels -> Entry], v2 \in [1 .. Levels -> Entry] : v = w /\ v2 = w2
    BY <1>7
  <2>7. \A k \in 1 .. Levels : v[k] = v2[k]
    BY <2>6, <1>8
  <2>8. v = v2
    BY <2>6, <2>7, LevelsNat
  <2> QED BY <2>6, <2>8
<1> QED BY <1>1, <1>9

\* The walk of page p reads entry i of table t.
Hits(m, r, p, d, t, i) == Gets(m, r, p, d) /\ TableAt(m, r, p, d) = t /\ p[d] = i

\* What writing one entry of a used table does to a walk.
LEMMA WalkChange ==
    ASSUME NEW a, NEW m, NEW F, NEW rt, NEW lv, NEW own, Forest(a, m, F, rt, lv, own),
           NEW s \in Spaces, rt[s] # NoRoot, NEW p \in PageSet, NEW m2 \in Mems,
           NEW t \in Used(F), NEW i \in Idx, NEW d \in 1 .. Levels, d = lv[t],
           \A x \in Used(F), j \in Idx : x # t \/ j # i => m2[x][j] = m[x][j]
    PROVE  /\ \A k \in 1 .. Levels : k < d => Walk(m2, rt[s], p)[k] = Walk(m, rt[s], p)[k]
           /\ Hits(m, rt[s], p, d, t, i) => /\ Walk(m2, rt[s], p)[d] = m2[t][i]
                                            /\ Walk(m, rt[s], p)[d] = m[t][i]
           /\ ~Hits(m, rt[s], p, d, t, i) => Walk(m2, rt[s], p) = Walk(m, rt[s], p)
<1>1. PICK r \in Used(F) : r = rt[s] /\ r \in Places /\ m \in Mems
  BY WalkTree
<1> DEFINE w == Walk(m, r, p)
           w2 == Walk(m2, r, p)
           Miss(k) == TableAt(m, r, p, k) # t \/ p[k] # i
<1>2. ASSUME NEW k \in 1 .. Levels, Gets(m, r, p, k)
      PROVE  /\ Miss(k) => m2[TableAt(m, r, p, k)][p[k]] = m[TableAt(m, r, p, k)][p[k]]
             /\ TableAt(m, r, p, k) = t => k = d
  <2>1. TableAt(m, r, p, k) \in Used(F) /\ lv[TableAt(m, r, p, k)] = k
    BY <1>1, <1>2, WalkTree
  <2>2. p[k] \in Idx
    BY DEF PageSet
  <2> QED BY <2>1, <2>2
\* One step of both walks.
<1>3. ASSUME NEW k \in 2 .. Levels, w2[k - 1] = w[k - 1],
             Gets(m, r, p, k) => Miss(k)
      PROVE  w2[k] = w[k]
  <2>1. w2[k] = Step(m2, p, k, w[k - 1]) /\ w[k] = Step(m, p, k, w[k - 1])
    BY <1>1, <1>3, WalkIs
  <2>2. k \in 1 .. Levels /\ k # 1
    BY LevelsNat
  <2>3. w[k - 1].kind = "table" => m2[w[k - 1].addr][p[k]] = m[w[k - 1].addr][p[k]]
    BY <1>2, <1>3, <2>2 DEF Gets, TableAt
  <2> QED BY <2>1, <2>3 DEF Step
<1>4. PICK l \in 1 .. Levels : l = 1
  BY LevelsNat
<1>5. (Gets(m, r, p, 1) => Miss(1)) => w2[1] = w[1]
  <2>1. w2[1] = m2[r][p[1]] /\ w[1] = m[r][p[1]]
    BY <1>1, WalkIs
  <2>2. Gets(m, r, p, 1) /\ TableAt(m, r, p, 1) = r
    BY DEF Gets, TableAt
  <2> QED BY <1>2, <1>4, <2>1, <2>2
<1>6. ASSUME NEW k \in 1 .. Levels, k < d PROVE w2[k] = w[k]
  <2> DEFINE G == {n \in 1 .. Levels : n < d => w2[n] = w[n]}
  <2>1. l \in G
    BY <1>2, <1>4, <1>5
  <2>2. ASSUME NEW n \in 2 .. Levels, n > l, n - 1 \in G PROVE n \in G
    <3> SUFFICES ASSUME n < d PROVE w2[n] = w[n]
      BY LevelsNat
    <3>1. n \in 1 .. Levels /\ n # d /\ n - 1 < d
      BY LevelsNat
    <3>2. Gets(m, r, p, n) => Miss(n)
      BY <1>2, <3>1
    <3> QED BY <1>3, <2>2, <3>1, <3>2
  <2>3. \A n \in l .. Levels : n \in G
    <3> HIDE DEF G
    <3> QED BY <2>1, <2>2, LevelsDown
  <2> QED BY <1>4, <1>6, <2>3
<1>7. ASSUME Hits(m, r, p, d, t, i) PROVE w2[d] = m2[t][i] /\ w[d] = m[t][i]
  <2>1. Gets(m, r, p, d) /\ TableAt(m, r, p, d) = t /\ p[d] = i
    BY <1>7 DEF Hits
  <2>2. Gets(m2, r, p, d) /\ TableAt(m2, r, p, d) = t
    <3>1. CASE d = 1
      BY <2>1, <3>1 DEF Gets, TableAt
    <3>2. CASE d # 1
      <4>1. d - 1 \in 1 .. Levels /\ d - 1 < d
        BY <3>2, LevelsNat
      <4>2. w2[d - 1] = w[d - 1]
        BY <1>6, <4>1
      <4> QED BY <2>1, <3>2, <4>2 DEF Gets, TableAt
    <3> QED BY <3>1, <3>2
  <2> QED BY <1>1, <2>1, <2>2, WalkStep
<1>8. ASSUME ~Hits(m, r, p, d, t, i) PROVE w2 = w
  <2> DEFINE G == {n \in 1 .. Levels : w2[n] = w[n]}
  <2>0. \A n \in 1 .. Levels : Gets(m, r, p, n) => Miss(n)
    BY <1>2, <1>8 DEF Hits
  <2>1. l \in G
    BY <1>4, <1>5, <2>0
  <2>2. ASSUME NEW n \in 2 .. Levels, n > l, n - 1 \in G PROVE n \in G
    <3>1. n \in 1 .. Levels
      BY LevelsNat
    <3> QED BY <1>3, <2>0, <2>2, <3>1
  <2>3. \A n \in l .. Levels : n \in G
    <3> HIDE DEF G
    <3> QED BY <2>1, <2>2, LevelsDown
  <2>4. w \in [1 .. Levels -> Entry] /\ w2 \in [1 .. Levels -> Entry]
    BY <1>1, WalkIs
  <2>5. \A k \in 1 .. Levels : w2[k] = w[k]
    BY <1>4, <2>3
  <2>6. PICK v \in [1 .. Levels -> Entry], v2 \in [1 .. Levels -> Entry] : v = w /\ v2 = w2
    BY <2>4
  <2>7. \A k \in 1 .. Levels : v[k] = v2[k]
    BY <2>6, <2>5
  <2>8. v = v2
    BY <2>6, <2>7, LevelsNat
  <2> QED BY <2>6, <2>8
<1> QED BY <1>1, <1>6, <1>7, <1>8

\* Two walks that meet in a table came the same way.
LEMMA WalkUnique ==
    ASSUME NEW a, NEW m, NEW F, NEW rt, NEW lv, NEW own, Forest(a, m, F, rt, lv, own),
           NEW s \in Spaces, rt[s] # NoRoot, NEW p \in PageSet, NEW q \in PageSet,
           NEW d \in 1 .. Levels, Gets(m, rt[s], p, d), Gets(m, rt[s], q, d),
           TableAt(m, rt[s], p, d) = TableAt(m, rt[s], q, d)
    PROVE  \A k \in 1 .. Levels : k < d => p[k] = q[k]
<1>1. PICK r \in Used(F) : r = rt[s] /\ r \in Places /\ m \in Mems
  BY WalkTree
<1>2. PICK N \in Nat : N = d - 1
  BY LevelsNat
<1> DEFINE Same(k) == TableAt(m, r, p, k) = TableAt(m, r, q, k)
           G == {n \in 0 .. N : Same(d - n)}
<1>3. ASSUME NEW k \in 2 .. d, Same(k) PROVE Same(k - 1) /\ p[k - 1] = q[k - 1]
  <2>1. k - 1 \in 1 .. Levels /\ k \in 1 .. Levels /\ k # 1 /\ k - 1 < d /\ k - 1 <= d
    BY LevelsNat
  <2>2. /\ Gets(m, r, p, k - 1) /\ Walk(m, r, p)[k - 1].kind = "table"
        /\ Gets(m, r, q, k - 1) /\ Walk(m, r, q)[k - 1].kind = "table"
    BY <1>1, <2>1, WalkTables
  <2>3. PICK t \in Used(F), i \in Idx :
          t = TableAt(m, r, p, k - 1) /\ i = p[k - 1] /\ Walk(m, r, p)[k - 1] = m[t][i]
    <3>1. TableAt(m, r, p, k - 1) \in Used(F)
      BY <1>1, <2>1, <2>2, WalkTree
    <3>2. p[k - 1] \in Idx
      BY <2>1 DEF PageSet
    <3>3. Walk(m, r, p)[k - 1] = m[TableAt(m, r, p, k - 1)][p[k - 1]]
      BY <1>1, <2>1, <2>2, WalkStep
    <3> QED BY <3>1, <3>2, <3>3
  <2>4. PICK u \in Used(F), j \in Idx :
          u = TableAt(m, r, q, k - 1) /\ j = q[k - 1] /\ Walk(m, r, q)[k - 1] = m[u][j]
    <3>1. TableAt(m, r, q, k - 1) \in Used(F)
      BY <1>1, <2>1, <2>2, WalkTree
    <3>2. q[k - 1] \in Idx
      BY <2>1 DEF PageSet
    <3>3. Walk(m, r, q)[k - 1] = m[TableAt(m, r, q, k - 1)][q[k - 1]]
      BY <1>1, <2>1, <2>2, WalkStep
    <3> QED BY <3>1, <3>2, <3>3
  <2>5. m[t][i].addr = m[u][j].addr
    BY <1>3, <2>1, <2>3, <2>4 DEF TableAt
  <2>6. t = u /\ i = j
    BY <2>2, <2>3, <2>4, <2>5 DEF Forest, Single
  <2> QED BY <2>3, <2>4, <2>6
<1>4. 0 \in G
  BY <1>1, <1>2
<1>5. ASSUME NEW n \in 1 .. N, n - 1 \in G PROVE n \in G
  <2>1. PICK k \in 2 .. d : k = d - (n - 1) /\ k - 1 = d - n
    BY <1>2, LevelsNat
  <2> QED BY <1>3, <1>5, <2>1
<1>6. \A n \in 0 .. N : n \in G
  <2> HIDE DEF G
  <2> QED BY <1>2, <1>4, <1>5, UpTo
<1>7. ASSUME NEW k \in 1 .. Levels, k < d PROVE p[k] = q[k]
  <2>1. PICK n \in 0 .. N : n = d - (k + 1)
    BY <1>2, <1>7, LevelsNat
  <2>2. d - n = k + 1 /\ k + 1 \in 2 .. d /\ (k + 1) - 1 = k
    BY <1>7, <2>1, LevelsNat
  <2>3. Same(k + 1)
    BY <1>6, <2>1, <2>2
  <2> QED BY <1>3, <2>2, <2>3
<1> QED BY <1>7

-----------------------------------------------------------------------------
(* Writing one entry.                                                      *)

\* Whoever refers to table t lets user mode through.
OpenAbove(m, F, t) == \A p \in Used(F), j \in Idx : Refers(m, p, j, t) => m[p][j].user

\* m2 differs from m in entry i of table t, as far as used frames go.
Differs(m, m2, F, t, i) ==
    \A x \in Used(F), j \in Idx : x # t \/ j # i => m2[x][j] = m[x][j]

\* The entry refers to what it referred to, and may be in a table of this level.
Replaces(a, old, e, l) ==
    /\ e \in Entry
    /\ e.kind = "table" <=> old.kind = "table"
    /\ e.kind = "table" => e.addr = old.addr /\ (old.user => e.user)
    /\ e.kind = "page" => l = Levels
    /\ e.kind = "block" => l # Levels /\ (a = "x86_64" => l = Levels - 1)

\* Replacing a leaf, or the permission of a table, keeps the forest.
LEMMA PutForest ==
    ASSUME NEW a, NEW m, NEW F, NEW rt, NEW lv, NEW own, Forest(a, m, F, rt, lv, own),
           NEW m2 \in Mems, NEW t \in Used(F), NEW i \in Idx,
           Differs(m, m2, F, t, i), Replaces(a, m[t][i], m2[t][i], lv[t]),
           m2[t][i].user => OpenAbove(m, F, t)
    PROVE  Forest(a, m2, F, rt, lv, own)
<1>1. \A x \in Used(F), j \in Idx :
        /\ m2[x][j].kind = "table" => m[x][j].kind = "table" /\ m2[x][j].addr = m[x][j].addr
        /\ m[x][j].kind = "table" => m2[x][j].kind = "table" /\ m2[x][j].addr = m[x][j].addr
        /\ m[x][j].kind = "table" /\ m[x][j].user => m2[x][j].user
  BY DEF Differs, Replaces
<1>2. Typed(m2, F, rt, lv, own)
  BY DEF Forest, Typed
<1>3. Linked(m2, F, lv, own)
  BY <1>1 DEF Forest, Linked
<1>4. Single(m2, F)
  BY <1>1 DEF Forest, Single
<1>5. Reached(m2, F, rt, lv, own)
  BY <1>1 DEF Forest, Reached, Refers
<1>6. Leaves(a, m2, F, lv)
  BY DEF Forest, Leaves, Differs, Replaces
<1>7. Allowed(a, m2, F)
  <2> SUFFICES ASSUME NEW p \in Used(F), NEW k \in Idx, m2[p][k].kind = "table"
               PROVE  /\ a = "aarch64" => m2[p][k].user
                      /\ \A j \in Idx : m2[m2[p][k].addr][j].user => m2[p][k].user
    BY DEF Allowed
  <2>1. m[p][k].kind = "table" /\ m2[p][k].addr = m[p][k].addr /\ m[p][k].addr \in Used(F)
    BY <1>1 DEF Forest, Linked
  <2>2. a = "aarch64" => m2[p][k].user
    BY <1>1, <2>1 DEF Forest, Allowed
  <2>3. ASSUME NEW j \in Idx, m2[m[p][k].addr][j].user PROVE m2[p][k].user
    <3>1. CASE m[p][k].addr = t /\ j = i
      <4>1. m[p][k].user
        BY <2>1, <2>3, <3>1 DEF OpenAbove, Refers
      <4> QED BY <1>1, <2>1, <4>1
    <3>2. CASE ~(m[p][k].addr = t /\ j = i)
      <4>1. m[m[p][k].addr][j].user
        BY <2>1, <2>3, <3>2 DEF Differs
      <4>2. m[p][k].user
        BY <2>1, <4>1 DEF Forest, Allowed
      <4> QED BY <1>1, <2>1, <4>2
    <3> QED BY <3>1, <3>2
  <2> QED BY <2>1, <2>2, <2>3
<1> QED BY <1>2, <1>3, <1>4, <1>5, <1>6, <1>7 DEF Forest

\* The new, empty table f is hung on an entry that was absent.
Attaches(a, m, F, lv, m2, t, i, f, u) ==
    /\ m2 \in Mems /\ t \in Used(F) /\ i \in Idx /\ m[t][i].kind = "none"
    /\ lv[t] # Levels /\ f \in F /\ u \in BOOLEAN
    /\ m2[f] = Zeroed /\ m2[t][i] = Table(f, u) /\ Differs(m, m2, F, t, i)
    /\ (a = "aarch64" => u) /\ (u => OpenAbove(m, F, t))

Attached(a, m2, F, rt, lv, own, f) ==
    \E lv2, own2 : /\ Forest(a, m2, F \ {f}, rt, lv2, own2)
                   /\ \A x \in Used(F) : lv2[x] = lv[x] /\ own2[x] = own[x]

\* Hanging an empty table on an absent entry keeps the forest.
LEMMA AttachForest ==
    ASSUME NEW a, NEW m, NEW F, NEW rt, NEW lv, NEW own, Forest(a, m, F, rt, lv, own),
           NEW m2, NEW t, NEW i, NEW f, NEW u, Attaches(a, m, F, lv, m2, t, i, f, u)
    PROVE  Attached(a, m2, F, rt, lv, own, f)
<1> DEFINE F2 == F \ {f}
<1> USE DEF Attaches
<1>1. f \in TableFrames /\ f \notin Used(F) /\ f \in Places
  BY DEF Forest, Typed, Used, Places
<1>2. Used(F2) = Used(F) \cup {f}
  BY <1>1 DEF Used
<1>3. PICK lv2 : lv2 = [x \in Used(F2) |-> IF x = f THEN lv[t] + 1 ELSE lv[x]]
  OBVIOUS
<1>4. PICK own2 : own2 = [x \in Used(F2) |-> IF x = f THEN own[t] ELSE own[x]]
  OBVIOUS
<1>5. /\ \A x \in Used(F) : lv2[x] = lv[x] /\ own2[x] = own[x]
      /\ lv2[f] = lv[t] + 1 /\ own2[f] = own[t] /\ f # t
  BY <1>1, <1>2, <1>3, <1>4
<1>6. lv \in [Used(F) -> 1 .. Levels] /\ own \in [Used(F) -> Spaces]
  BY DEF Forest, Typed
<1>7. Typed(m2, F2, rt, lv2, own2)
  <2>1. lv[t] + 1 \in 1 .. Levels
    BY <1>6, LevelsNat
  <2>2. lv2 \in [Used(F2) -> 1 .. Levels] /\ own2 \in [Used(F2) -> Spaces]
    BY <1>2, <1>3, <1>4, <1>6, <2>1
  <2> QED BY <2>2 DEF Forest, Typed
<1>8. /\ \A j \in Idx : m2[f][j].kind = "none" /\ m2[f][j].user = FALSE
      /\ m2[t][i].kind = "table" /\ m2[t][i].addr = f /\ m2[t][i].user = u
  BY <1>1, EntryMade DEF Zeroed
\* The tables other than the new one are referred to as before.
<1>9. \A x \in Used(F2), j \in Idx : m2[x][j].kind = "table" =>
        \/ x = t /\ j = i /\ m2[x][j].addr = f
        \/ x \in Used(F) /\ m2[x][j] = m[x][j] /\ m[x][j].addr \in Used(F)
  BY <1>2, <1>8 DEF Differs, Forest, Linked
<1>10. \A x \in Used(F), j \in Idx : m[x][j].kind = "table" => m2[x][j] = m[x][j]
  BY DEF Differs
<1>11. Linked(m2, F2, lv2, own2)
  <2> SUFFICES ASSUME NEW x \in Used(F2), NEW j \in Idx, m2[x][j].kind = "table"
               PROVE  /\ m2[x][j].addr \in Used(F2)
                      /\ lv2[m2[x][j].addr] = lv2[x] + 1
                      /\ own2[m2[x][j].addr] = own2[x]
    BY DEF Linked
  <2>1. CASE x = t /\ j = i /\ m2[x][j].addr = f
    BY <1>2, <1>5, <2>1
  <2>2. CASE x \in Used(F) /\ m2[x][j] = m[x][j] /\ m[x][j].addr \in Used(F)
    <3>1. lv[m[x][j].addr] = lv[x] + 1 /\ own[m[x][j].addr] = own[x]
      BY <2>2 DEF Forest, Linked
    <3> QED BY <1>2, <1>5, <2>2, <3>1
  <2> QED BY <1>9, <2>1, <2>2
<1>12. Single(m2, F2)
  <2> SUFFICES ASSUME NEW x \in Used(F2), NEW y \in Used(F2), NEW j \in Idx, NEW k \in Idx,
                      m2[x][j].kind = "table", m2[y][k].kind = "table",
                      m2[x][j].addr = m2[y][k].addr
               PROVE  x = y /\ j = k
    BY DEF Single
  <2>1. /\ (x = t /\ j = i) \/ (x \in Used(F) /\ m2[x][j] = m[x][j] /\ m[x][j].addr \in Used(F))
        /\ (y = t /\ k = i) \/ (y \in Used(F) /\ m2[y][k] = m[y][k] /\ m[y][k].addr \in Used(F))
    BY <1>9
  <2>2. CASE (x = t /\ j = i) \/ (y = t /\ k = i)
    BY <1>1, <1>8, <2>1, <2>2
  <2>3. CASE ~(x = t /\ j = i) /\ ~(y = t /\ k = i)
    <3>1. /\ x \in Used(F) /\ y \in Used(F) /\ m[x][j].kind = "table" /\ m[y][k].kind = "table"
          /\ m[x][j].addr = m[y][k].addr
      BY <2>1, <2>3
    <3> QED BY <3>1 DEF Forest, Single
  <2> QED BY <2>2, <2>3
<1>13. Rooted(F2, rt, lv2, own2)
  BY <1>2, <1>5 DEF Forest, Rooted
<1>14. Reached(m2, F2, rt, lv2, own2)
  <2> SUFFICES ASSUME NEW x \in Used(F2)
               PROVE  /\ rt[own2[x]] # NoRoot
                      /\ lv2[x] = 1 => rt[own2[x]] = x
                      /\ lv2[x] # 1 => \E p \in Used(F2), j \in Idx : Refers(m2, p, j, x)
    BY DEF Reached
  <2>1. CASE x = f
    <3>1. lv[t] + 1 # 1
      BY <1>6
    <3>2. Refers(m2, t, i, f) /\ t \in Used(F2)
      BY <1>2, <1>8 DEF Refers
    <3>3. rt[own[t]] # NoRoot
      BY DEF Forest, Reached
    <3> QED BY <1>5, <2>1, <3>1, <3>2, <3>3
  <2>2. CASE x \in Used(F)
    <3>1. /\ rt[own[x]] # NoRoot
          /\ lv[x] = 1 => rt[own[x]] = x
          /\ lv[x] # 1 => \E p \in Used(F), j \in Idx : Refers(m, p, j, x)
      BY <2>2 DEF Forest, Reached
    <3>2. lv[x] # 1 => \E p \in Used(F2), j \in Idx : Refers(m2, p, j, x)
      <4> SUFFICES ASSUME lv[x] # 1 PROVE \E p \in Used(F2), j \in Idx : Refers(m2, p, j, x)
        OBVIOUS
      <4>1. PICK p \in Used(F), j \in Idx : m[p][j].kind = "table" /\ m[p][j].addr = x
        BY <3>1 DEF Refers
      <4>2. m2[p][j] = m[p][j] /\ p \in Used(F2)
        BY <1>2, <1>10, <4>1
      <4> QED BY <4>1, <4>2 DEF Refers
    <3> QED BY <1>5, <2>2, <3>1, <3>2
  <2> QED BY <1>2, <2>1, <2>2
<1>15. Leaves(a, m2, F2, lv2)
  <2> SUFFICES ASSUME NEW x \in Used(F2), NEW j \in Idx
               PROVE  /\ m2[x][j].kind = "page" => lv2[x] = Levels
                      /\ m2[x][j].kind = "block" =>
                           lv2[x] # Levels /\ (a = "x86_64" => lv2[x] = Levels - 1)
    BY DEF Leaves
  <2>1. CASE x = f \/ (x = t /\ j = i)
    BY <1>8, <2>1
  <2>2. CASE x # f /\ ~(x = t /\ j = i)
    <3>1. x \in Used(F) /\ m2[x][j] = m[x][j]
      BY <1>2, <2>2 DEF Differs
    <3> QED BY <1>5, <3>1 DEF Forest, Leaves
  <2> QED BY <2>1, <2>2
<1>16. Allowed(a, m2, F2)
  <2> SUFFICES ASSUME NEW p \in Used(F2), NEW k \in Idx, m2[p][k].kind = "table"
               PROVE  /\ a = "aarch64" => m2[p][k].user
                      /\ \A j \in Idx : m2[m2[p][k].addr][j].user => m2[p][k].user
    BY DEF Allowed
  <2>1. CASE p = t /\ k = i /\ m2[p][k].addr = f
    BY <1>8, <2>1
  <2>2. CASE p \in Used(F) /\ m2[p][k] = m[p][k] /\ m[p][k].addr \in Used(F)
    <3>1. a = "aarch64" => m2[p][k].user
      BY <2>2 DEF Forest, Allowed
    <3>2. ASSUME NEW j \in Idx, m2[m[p][k].addr][j].user PROVE m[p][k].user
      <4>1. CASE m[p][k].addr = t /\ j = i
        BY <1>8, <2>2, <3>2, <4>1 DEF OpenAbove, Refers
      <4>2. CASE ~(m[p][k].addr = t /\ j = i)
        <5>1. m[m[p][k].addr][j].user
          BY <2>2, <3>2, <4>2 DEF Differs
        <5> QED BY <2>2, <5>1 DEF Forest, Allowed
      <4> QED BY <4>1, <4>2
    <3> QED BY <2>2, <3>1, <3>2
  <2> QED BY <1>9, <2>1, <2>2
<1>17. Forest(a, m2, F2, rt, lv2, own2)
  BY <1>7, <1>11, <1>12, <1>13, <1>14, <1>15, <1>16 DEF Forest
<1> QED BY <1>5, <1>17 DEF Attached

\* Where a walk ends after one entry was written.
LEMMA LastPut ==
    ASSUME NEW a, NEW m, NEW F, NEW rt, NEW lv, NEW own, Forest(a, m, F, rt, lv, own),
           NEW s \in Spaces, rt[s] # NoRoot, NEW p \in PageSet, NEW m2 \in Mems,
           NEW t \in Used(F), NEW i \in Idx, Differs(m, m2, F, t, i),
           m[t][i].kind # "table", m2[t][i].kind # "table"
    PROVE  IF Hits(m, rt[s], p, lv[t], t, i)
           THEN Last(m, rt[s], p) = m[t][i] /\ Last(m2, rt[s], p) = m2[t][i]
           ELSE Last(m2, rt[s], p) = Last(m, rt[s], p)
<1>1. PICK d \in 1 .. Levels : d = lv[t]
  BY DEF Forest, Typed
<1>2. m \in Mems /\ rt[s] \in Places
  BY WalkTree
<1>3. \A x \in Used(F), j \in Idx : x # t \/ j # i => m2[x][j] = m[x][j]
  BY DEF Differs
<1>4. CASE Hits(m, rt[s], p, d, t, i)
  <2>1. Walk(m2, rt[s], p)[d] = m2[t][i] /\ Walk(m, rt[s], p)[d] = m[t][i]
    BY <1>1, <1>3, <1>4, WalkChange
  <2>2. Levels \in d .. Levels
    BY <1>1, LevelsNat
  <2>3. /\ Walk(m2, rt[s], p)[Levels] = Walk(m2, rt[s], p)[d]
        /\ Walk(m, rt[s], p)[Levels] = Walk(m, rt[s], p)[d]
    BY <1>1, <1>2, <2>1, <2>2, WalkStays
  <2> QED BY <1>1, <1>4, <2>1, <2>3 DEF Last
<1>5. CASE ~Hits(m, rt[s], p, d, t, i)
  <2>1. Walk(m2, rt[s], p) = Walk(m, rt[s], p)
    BY <1>1, <1>3, <1>5, WalkChange
  <2> QED BY <1>1, <1>5, <2>1 DEF Last
<1> QED BY <1>4, <1>5

\* A new empty table changes no page.
LEMMA LastAttach ==
    ASSUME NEW a, NEW m, NEW F, NEW rt, NEW lv, NEW own, Forest(a, m, F, rt, lv, own),
           NEW s \in Spaces, rt[s] # NoRoot, NEW p \in PageSet,
           NEW m2, NEW t, NEW i, NEW f, NEW u, Attaches(a, m, F, lv, m2, t, i, f, u)
    PROVE  Last(m2, rt[s], p) = Last(m, rt[s], p)
<1> USE DEF Attaches
<1>0. m2 \in Mems /\ t \in Used(F) /\ i \in Idx /\ f \in Places
  BY DEF Forest, Typed, Places
<1>1. PICK d \in 1 .. Levels : d = lv[t]
  BY DEF Forest, Typed
<1>2. m \in Mems /\ rt[s] \in Places /\ t \in Places
  BY WalkTree DEF Used, Places
<1>3. \A x \in Used(F), j \in Idx : x # t \/ j # i => m2[x][j] = m[x][j]
  BY DEF Differs
<1>4. CASE Hits(m, rt[s], p, d, t, i)
  <2>1. Walk(m2, rt[s], p)[d] = m2[t][i] /\ Walk(m, rt[s], p)[d] = m[t][i]
    BY <1>0, <1>1, <1>3, <1>4, WalkChange
  <2>2. Levels \in d .. Levels /\ d + 1 \in 2 .. Levels /\ d + 1 \in 1 .. Levels
        /\ (d + 1) - 1 = d /\ Levels \in (d + 1) .. Levels
    BY <1>1, LevelsNat
  <2>3. m[t][i] = None
    <3>1. m[t][i] \in Entry
      BY <1>0, <1>2 DEF Mems
    <3> QED BY <3>1, EntryFacts
  <2>4. Walk(m, rt[s], p)[Levels] = None
    BY <1>0, <1>1, <1>2, <2>1, <2>2, <2>3, WalkStays, EntryMade
  <2>5. Walk(m2, rt[s], p)[d + 1] = Step(m2, p, d + 1, Walk(m2, rt[s], p)[d])
    BY <1>0, <1>2, <2>2, WalkIs
  <2>6. Walk(m2, rt[s], p)[d + 1] = m2[f][p[d + 1]]
    BY <1>0, <2>1, <2>5, EntryMade DEF Step
  <2>7. Walk(m2, rt[s], p)[d + 1] = None
    BY <2>2, <2>6 DEF Zeroed, PageSet
  <2>8. PICK e \in 1 .. Levels : e = d + 1
    BY <2>2
  <2>9. Walk(m2, rt[s], p)[Levels] = None
    <3>1. Walk(m2, rt[s], p)[e] = None /\ Levels \in e .. Levels
      BY <2>2, <2>7, <2>8
    <3> QED BY <1>0, <1>2, <2>8, <3>1, WalkStays, EntryMade
  <2> QED BY <2>4, <2>9 DEF Last
<1>5. CASE ~Hits(m, rt[s], p, d, t, i)
  <2>1. Walk(m2, rt[s], p) = Walk(m, rt[s], p)
    BY <1>0, <1>1, <1>3, <1>5, WalkChange
  <2> QED BY <2>1 DEF Last
<1> QED BY <1>4, <1>5

\* An entry of a table that only changed its permission.
LEMMA LastWiden ==
    ASSUME NEW a, NEW m, NEW F, NEW rt, NEW lv, NEW own, Forest(a, m, F, rt, lv, own),
           NEW s \in Spaces, rt[s] # NoRoot, NEW p \in PageSet, NEW m2 \in Mems,
           NEW t \in Used(F), NEW i \in Idx, Differs(m, m2, F, t, i),
           m[t][i].kind = "table", m2[t][i].kind = "table", m2[t][i].addr = m[t][i].addr
    PROVE  Last(m2, rt[s], p) = Last(m, rt[s], p)
<1>1. PICK d \in 1 .. Levels : d = lv[t]
  BY DEF Forest, Typed
<1>2. PICK r \in Used(F) : r = rt[s] /\ r \in Places /\ m \in Mems
  BY WalkTree
<1>3. \A x \in Used(F), j \in Idx : x # t \/ j # i => m2[x][j] = m[x][j]
  BY DEF Differs
<1> DEFINE w == Walk(m, r, p)
           w2 == Walk(m2, r, p)
<1>4. CASE Hits(m, r, p, d, t, i)
  <2>1. w2[d] = m2[t][i] /\ w[d] = m[t][i]
    BY <1>1, <1>2, <1>3, <1>4, WalkChange
  <2>2. PICK y \in Used(F) : y = m[t][i].addr /\ lv[y] = d + 1 /\ y # t
    BY <1>1 DEF Forest, Linked
  <2>3. PICK e \in 1 .. Levels : e = d + 1
    <3>1. lv[y] \in 1 .. Levels
      BY <2>2 DEF Forest, Typed
    <3> QED BY <2>2, <3>1
  <2>4. e \in 2 .. Levels /\ e - 1 = d /\ e > d
    BY <2>3, LevelsNat
  <2> DEFINE G == {k \in 1 .. Levels : w2[k] = w[k]}
  <2>5. e \in G
    <3>1. w2[e] = Step(m2, p, e, w2[d]) /\ w[e] = Step(m, p, e, w[d])
      BY <1>2, <2>4, WalkIs
    <3>2. w2[e] = m2[y][p[e]] /\ w[e] = m[y][p[e]]
      BY <2>1, <2>2, <3>1 DEF Step
    <3>3. p[e] \in Idx
      BY DEF PageSet
    <3> QED BY <1>3, <2>2, <2>3, <3>2, <3>3
  <2>6. ASSUME NEW k \in 2 .. Levels, k > e, k - 1 \in G PROVE k \in G
    <3>1. w2[k] = Step(m2, p, k, w[k - 1]) /\ w[k] = Step(m, p, k, w[k - 1])
      BY <1>2, <2>6, WalkIs
    <3>2. k \in 1 .. Levels /\ k # 1 /\ k # d /\ p[k] \in Idx
      BY <2>3, <2>6, LevelsNat DEF PageSet
    <3>3. Gets(m, r, p, k) => TableAt(m, r, p, k) \in Used(F) /\ TableAt(m, r, p, k) # t
      BY <1>1, <1>2, <3>2, WalkTree
    <3>4. w[k - 1].kind = "table" => m2[w[k - 1].addr][p[k]] = m[w[k - 1].addr][p[k]]
      BY <1>3, <3>2, <3>3 DEF Gets, TableAt
    <3> QED BY <3>1, <3>2, <3>4 DEF Step
  <2>7. \A k \in e .. Levels : k \in G
    <3> HIDE DEF G
    <3> QED BY <2>5, <2>6, LevelsDown
  <2>8. Levels \in e .. Levels
    BY <2>3, LevelsNat
  <2> QED BY <1>2, <2>7, <2>8 DEF Last
<1>5. CASE ~Hits(m, r, p, d, t, i)
  <2>1. Walk(m2, rt[s], p) = Walk(m, rt[s], p)
    BY <1>1, <1>2, <1>3, <1>5, WalkChange
  <2> QED BY <2>1 DEF Last
<1> QED BY <1>4, <1>5

-----------------------------------------------------------------------------
(* get_or_create_table.                                                    *)

\* e2 is what table_entry makes of an entry.
Widens(a, e, f, user, e2) ==
    /\ e2 \in Entry /\ e2.kind = "table"
    /\ e2.addr = IF e.kind = "none" THEN f ELSE e.addr
    /\ e2 = Table(e2.addr, e2.user) /\ e2.user \in BOOLEAN
    /\ e2.user => user \/ e.user \/ a = "aarch64"
    /\ user /\ (e.kind = "table" /\ a = "aarch64" => e.user) => e2.user
    /\ a = "aarch64" /\ e.kind = "none" => e2.user
    /\ e.kind = "table" /\ e.user => e2.user
    /\ e.kind = "table" /\ a = "x86_64" /\ ~user => e2 = e
    /\ e.kind = "none" /\ a = "x86_64" => e2 = Table(f, user)

\* What table_entry makes of an entry, on both architectures.
LEMMA TableEntryIs ==
    ASSUME mmu \in {"x86_64", "aarch64"}, NEW e \in Entry, e.kind \in {"none", "table"},
           NEW f \in Places, NEW user \in BOOLEAN
    PROVE  Widens(mmu, e, f, user, table_entry(e, f, user))
<1> USE DEF Widens
<1>1. CASE e.kind = "none"
  <2>1. table_entry(e, f, user) = Table(f, IF mmu = "x86_64" THEN user ELSE TRUE)
    BY <1>1 DEF table_entry, x86_table, aarch64_table
  <2>2. PICK u \in BOOLEAN : u = IF mmu = "x86_64" THEN user ELSE TRUE
    OBVIOUS
  <2>3. table_entry(e, f, user) = Table(f, u)
    BY <2>1, <2>2
  <2>4. Table(f, u) \in Entry /\ Table(f, u).kind = "table" /\ Table(f, u).addr = f /\ Table(f, u).user = u
    BY EntryMade
  <2> QED BY <1>1, <2>2, <2>3, <2>4
<1>2. CASE e.kind = "table"
  <2>1. PICK x \in Places, y \in BOOLEAN : e = Table(x, y)
    BY <1>2, EntryFacts
  <2>2. PICK u \in BOOLEAN : u = IF mmu = "x86_64" THEN y \/ user ELSE y
    OBVIOUS
  <2>3. e.addr = x /\ e.user = y /\ e.kind = "table"
    BY <2>1 DEF Table
  <2>4. [e EXCEPT !.user = @ \/ user] = Table(x, y \/ user)
    BY <2>1 DEF Table
  <2>5. table_entry(e, f, user) = Table(x, u)
    BY <1>2, <2>1, <2>2, <2>4 DEF table_entry, x86_table, aarch64_table
  <2>6. Table(x, u) \in Entry /\ Table(x, u).kind = "table" /\ Table(x, u).addr = x /\ Table(x, u).user = u
    BY EntryMade
  <2>7. ~user => (y \/ user) = y
    OBVIOUS
  <2>8. mmu = "x86_64" /\ ~user => Table(x, u) = e
    BY <2>1, <2>2, <2>7
  <2> QED BY <1>2, <2>2, <2>3, <2>5, <2>6, <2>8
<1> QED BY <1>1, <1>2

\* How far a walk that makes tables for a page of space s has come: the other
\* spaces have the tables they had, no page changed, t is the table of level k.
Making(a, m, F, rt, own, s, page, user, k, m1, F1, t) ==
    /\ m1 \in Mems /\ F1 \subseteq F
    /\ \E lv1, own1 : /\ Forest(a, m1, F1, rt, lv1, own1)
                      /\ \A x \in Used(F) : own1[x] = own[x]
    /\ \A x \in Used(F) : own[x] # s => m1[x] = m[x]
    /\ \A q \in PageSet : Last(m1, rt[s], q) = Last(m, rt[s], q)
    /\ t = NULL => Last(m, rt[s], page).kind = "block"
    /\ t # NULL => /\ Gets(m1, rt[s], page, k) /\ t = TableAt(m1, rt[s], page, k)
                   /\ user => OpenAbove(m1, F1, t)

\* Entry i of table t is made to refer to table f, a new one or the one it had.
Makes(a, user, m1, F1, t, i, m2, F2, f) ==
    /\ m2 \in Mems /\ f \in Places
    /\ m2[t][i].kind = "table" /\ m2[t][i].addr = f /\ m2[t][i].user \in BOOLEAN
    /\ user => m2[t][i].user
    /\ a = "aarch64" => m2[t][i].user
    /\ m2[t][i].user => user \/ m1[t][i].user \/ a = "aarch64"
    /\ Differs(m1, m2, F1, t, i)
    /\ \A x \in Used(F1) : x # t => m2[x] = m1[x]
    /\ \/ /\ m1[t][i].kind = "none" /\ f \in F1 /\ F2 = F1 \ {f}
          /\ m2[f] = Zeroed /\ m2[t][i] = Table(f, m2[t][i].user)
       \/ /\ m1[t][i].kind = "table" /\ f = m1[t][i].addr /\ F2 = F1
          /\ m1[t][i].user => m2[t][i].user
          /\ m2[t][i] \in Entry

\* What the walk leaves of the state then.
LEMMA MakingStep ==
    ASSUME NEW a \in {"x86_64", "aarch64"}, NEW m, NEW F, NEW rt, NEW own, NEW s \in Spaces,
           NEW page \in PageSet, NEW user \in BOOLEAN, NEW k \in 1 .. Levels, k # Levels,
           NEW m1, NEW F1, NEW t, t # NULL, rt[s] # NoRoot,
           Making(a, m, F, rt, own, s, page, user, k, m1, F1, t),
           NEW m2, NEW F2, NEW f, Makes(a, user, m1, F1, t, page[k], m2, F2, f)
    PROVE  Making(a, m, F, rt, own, s, page, user, k + 1, m2, F2, f)
<1> USE DEF Makes
<1>1. PICK lv1, own1 : Forest(a, m1, F1, rt, lv1, own1) /\ \A x \in Used(F) : own1[x] = own[x]
  BY DEF Making
<1>2. /\ m1 \in Mems /\ F1 \subseteq F /\ F1 \subseteq TableFrames
      /\ Gets(m1, rt[s], page, k) /\ t = TableAt(m1, rt[s], page, k)
      /\ user => OpenAbove(m1, F1, t)
  BY <1>1 DEF Making, Forest, Typed
<1>3. t \in Used(F1) /\ lv1[t] = k /\ own1[t] = s /\ rt[s] \in Places
  BY <1>1, <1>2, WalkTree
<1>4. PICK i \in Idx : i = page[k]
  BY DEF PageSet
<1>5. Hits(m1, rt[s], page, k, t, i) /\ Differs(m1, m2, F1, t, i)
  BY <1>2, <1>4 DEF Hits
<1>6. Walk(m2, rt[s], page)[k] = m2[t][i]
  BY <1>1, <1>3, <1>5, WalkChange DEF Differs
<1>7. Gets(m2, rt[s], page, k + 1) /\ f = TableAt(m2, rt[s], page, k + 1)
  <2>1. k + 1 # 1 /\ (k + 1) - 1 = k
    BY LevelsNat
  <2> QED BY <1>4, <1>6, <2>1 DEF Gets, TableAt
<1>8. Used(F) \subseteq Used(F1)
  BY <1>2 DEF Used
<1>9. m2[t][i].user => OpenAbove(m1, F1, t)
  <2>1. CASE user
    BY <1>2, <2>1
  <2>2. CASE m1[t][i].user \/ a = "aarch64"
    <3>1. ASSUME NEW p \in Used(F1), NEW j \in Idx, Refers(m1, p, j, t) PROVE m1[p][j].user
      <4>1. m1[p][j].kind = "table" /\ m1[p][j].addr = t
        BY <3>1 DEF Refers
      <4> QED BY <1>1, <2>2, <4>1 DEF Forest, Allowed
    <3> QED BY <3>1 DEF OpenAbove
  <2> QED BY <1>4, <2>1, <2>2
<1>10. \A x \in Used(F) : own[x] # s => m2[x] = m[x]
  BY <1>1, <1>3, <1>8 DEF Making
<1>11. CASE m1[t][i].kind = "none"
  <2>1. f \in F1 /\ F2 = F1 \ {f} /\ m2[f] = Zeroed /\ m2[t][i] = Table(f, m2[t][i].user)
    BY <1>4, <1>11
  <2>2. PICK u \in BOOLEAN : u = m2[t][i].user
    BY <1>4
  <2>3. m2[t][i] = Table(f, u) /\ (a = "aarch64" => u) /\ (u => OpenAbove(m1, F1, t))
    BY <1>4, <1>9, <2>1, <2>2
  <2>a. Attaches(a, m1, F1, lv1, m2, t, i, f, u)
    BY <1>3, <1>4, <1>5, <1>11, <2>1, <2>2, <2>3 DEF Attaches
  <2>4. PICK lv2, own2 : /\ Forest(a, m2, F1 \ {f}, rt, lv2, own2)
                         /\ \A x \in Used(F1) : lv2[x] = lv1[x] /\ own2[x] = own1[x]
    <3>1. Forest(a, m1, F1, rt, lv1, own1)
      BY <1>1
    <3>2. Attached(a, m2, F1, rt, lv1, own1, f)
      BY <2>a, <3>1, AttachForest
    <3> QED BY <3>2 DEF Attached
  <2>5. \A x \in Used(F) : own2[x] = own[x]
    BY <1>1, <1>8, <2>4
  <2>6. ASSUME NEW q \in PageSet PROVE Last(m2, rt[s], q) = Last(m, rt[s], q)
    <3>1. Last(m2, rt[s], q) = Last(m1, rt[s], q)
      BY <1>1, <2>a, LastAttach
    <3> QED BY <3>1 DEF Making
  <2>7. user => OpenAbove(m2, F2, f)
    <3> SUFFICES ASSUME user, NEW p \in Used(F2), NEW j \in Idx, Refers(m2, p, j, f)
                 PROVE  m2[p][j].user
      BY DEF OpenAbove
    <3>1. t \in Used(F2)
      BY <1>3, <2>1 DEF Used
    <3>2. p = t /\ j = i
      <4>1. Single(m2, F2)
        BY <2>1, <2>4 DEF Forest
      <4>2. m2[p][j].kind = "table" /\ m2[p][j].addr = f
        BY DEF Refers
      <4>3. m2[t][i].kind = "table" /\ m2[t][i].addr = f
        BY <1>4
      <4> QED BY <1>4, <3>1, <4>1, <4>2, <4>3 DEF Single
    <3> QED BY <1>4, <3>2
  <2>8. f # NULL
    BY VmmAssumption DEF Places, NULL
  <2>9. F2 \subseteq F
    BY <1>2, <2>1
  <2> QED BY <1>7, <1>10, <2>1, <2>4, <2>5, <2>6, <2>7, <2>8, <2>9 DEF Making
<1>12. CASE m1[t][i].kind = "table"
  <2>1. /\ f = m1[t][i].addr /\ F2 = F1 /\ (m1[t][i].user => m2[t][i].user)
        /\ m2[t][i] \in Entry /\ m2[t][i].kind = "table"
    BY <1>4, <1>12
  <2>2. Replaces(a, m1[t][i], m2[t][i], lv1[t])
    BY <1>4, <1>12, <2>1 DEF Replaces
  <2>3. Forest(a, m2, F1, rt, lv1, own1)
    BY <1>1, <1>3, <1>5, <1>9, <2>2, PutForest
  <2>4. ASSUME NEW q \in PageSet PROVE Last(m2, rt[s], q) = Last(m, rt[s], q)
    <3>1. Last(m2, rt[s], q) = Last(m1, rt[s], q)
      BY <1>1, <1>3, <1>4, <1>5, <1>12, <2>1, LastWiden
    <3> QED BY <3>1 DEF Making
  <2>5. user => OpenAbove(m2, F2, f)
    <3> SUFFICES ASSUME user, NEW p \in Used(F2), NEW j \in Idx, Refers(m2, p, j, f)
                 PROVE  m2[p][j].user
      BY DEF OpenAbove
    <3>1. p = t /\ j = i
      BY <1>3, <1>4, <2>1, <2>3 DEF Refers, Forest, Single
    <3> QED BY <1>4, <3>1
  <2>6. f # NULL
    BY VmmAssumption DEF Places, NULL
  <2> QED BY <1>1, <1>2, <1>7, <1>10, <2>1, <2>3, <2>4, <2>5, <2>6 DEF Making
<1> QED BY <1>4, <1>11, <1>12

\* An iteration whose k-th value stays in P[k].
Stays(N, P, steps, x, f) ==
    /\ f[0] = x /\ f = [k \in 0 .. N |-> f[k]]
    /\ \A k \in 1 .. N : f[k] = steps[k][f[k - 1]]
    /\ \A k \in 0 .. N : f[k] \in P[k]

\* Such an iteration exists when every step leads from P[k - 1] to P[k].
LEMMA GuardedIteration ==
    ASSUME NEW N \in Nat, NEW P, NEW x, x \in P[0], NEW steps,
           \A k \in 1 .. N : \A w \in P[k - 1] : steps[k][w] \in P[k]
    PROVE  \E f : Stays(N, P, steps, x, f)
<1> DEFINE G == {n \in 0 .. N : \E f : Stays(n, P, steps, x, f)}
<1>1. 0 \in G
  <2>1. Stays(0, P, steps, x, [k \in 0 .. 0 |-> x])
    BY DEF Stays
  <2> QED BY <2>1
<1>2. ASSUME NEW n \in 1 .. N, n - 1 \in G PROVE n \in G
  <2>1. PICK g : Stays(n - 1, P, steps, x, g)
    BY <1>2
  <2>2. g[0] = x /\ n - 1 \in 0 .. n - 1 /\ 0 \in 0 .. n - 1 /\ g[n - 1] \in P[n - 1]
    BY <2>1 DEF Stays
  <2>3. PICK y : y = steps[n][g[n - 1]] /\ y \in P[n]
    BY <2>2
  <2>4. PICK f : f = [k \in 0 .. n |-> IF k < n THEN g[k] ELSE y]
    OBVIOUS
  <2>5. f[n] = y /\ (\A k \in 0 .. n - 1 : f[k] = g[k]) /\ f = [k \in 0 .. n |-> f[k]]
    BY <2>2, <2>4
  <2>6. ASSUME NEW k \in 1 .. n PROVE f[k] = steps[k][f[k - 1]]
    <3>0. k - 1 \in 0 .. n - 1
      OBVIOUS
    <3>1. k - 1 \in 0 .. n - 1 /\ f[k - 1] = g[k - 1]
      BY <2>5, <3>0
    <3>2. CASE k = n
      BY <2>3, <2>5, <3>1, <3>2
    <3>3. CASE k # n
      <4>1. k \in 1 .. n - 1 /\ k \in 0 .. n - 1
        BY <3>3
      <4>2. g[k] = steps[k][g[k - 1]]
        BY <2>1, <4>1 DEF Stays
      <4> QED BY <2>5, <3>1, <4>1, <4>2
    <3> QED BY <3>2, <3>3
  <2>7. f[0] = x
    BY <2>2, <2>5
  <2>8. ASSUME NEW k \in 0 .. n PROVE f[k] \in P[k]
    <3>1. CASE k = n
      BY <2>3, <2>5, <3>1
    <3>2. CASE k # n
      <4>1. k \in 0 .. n - 1
        BY <3>2
      <4>2. g[k] \in P[k]
        BY <2>1, <4>1 DEF Stays
      <4> QED BY <2>5, <4>1, <4>2
    <3> QED BY <3>1, <3>2
  <2>9. Stays(n, P, steps, x, f)
    BY <2>5, <2>6, <2>7, <2>8 DEF Stays
  <2> QED BY <2>9
<1> HIDE DEF G
<1>3. N \in G
  <2>1. \A n \in 0 .. N : n \in G
    BY <1>1, <1>2, UpTo
  <2> QED BY <2>1
<1> QED BY <1>3 DEF G

\* The frames have run out: the walk goes on in frame 0, which leads to itself.
WalkState == [st : TableState, t : Places \cup {NULL}]

Dead(w) ==
    /\ w.st.free = {} /\ w.t = 0
    /\ \A i \in Idx : LET e == w.st.mem[0][i]
                      IN  e.kind = "none" \/ (e.kind = "table" /\ e.addr = 0)

\* The parts of a state of a walk.
LEMMA WalkStateFacts ==
    ASSUME NEW w \in WalkState
    PROVE  /\ w.st \in TableState /\ w.st.mem \in Mems /\ w.st.free \subseteq TableFrames
           /\ w.t \in Places \cup {NULL} /\ w = [st |-> w.st, t |-> w.t]
BY DEF WalkState, TableState, Mems

\* What get_or_create_table does with an entry that is absent or a table.
LEMMA CreateIs ==
    ASSUME mmu \in {"x86_64", "aarch64"}, NEW st \in TableState, NEW t \in Places, NEW i \in Idx,
           NEW user \in BOOLEAN, st.mem[t][i].kind \in {"none", "table"}
    PROVE  LET e == st.mem[t][i]
               g == get_or_create_table(st, t, i, user)
               r == IF e.kind = "none" THEN alloc_table(st) ELSE [st |-> st, t |-> e.addr]
           IN  /\ g.t = r.t /\ g \in WalkState /\ g.t \in Places
               /\ g.st.mem = Put(r.st.mem, t, i, table_entry(e, r.t, user))
               /\ g.st.free = r.st.free
               /\ r.st \in TableState
<1>0. st.mem \in Mems
  BY DEF TableState, Mems
<1>1. PICK e \in Entry : e = st.mem[t][i] /\ e.kind \in {"none", "table"}
  BY <1>0 DEF Mems
<1>2. PICK r : r = IF e.kind = "none" THEN alloc_table(st) ELSE [st |-> st, t |-> e.addr]
  OBVIOUS
<1>3. r.st \in TableState /\ r.t \in Places
  <2>1. CASE e.kind = "none"
    BY <1>2, <2>1, AllocIs
  <2>2. CASE e.kind = "table"
    BY <1>2, <2>2, EntryFacts
  <2> QED BY <1>1, <2>1, <2>2
<1>4. PICK x \in Entry : x = table_entry(e, r.t, user)
  BY <1>1, <1>3, TableEntryIs DEF Widens
<1>5. get_or_create_table(st, t, i, user) = [st |-> PutIn(r.st, t, i, x), t |-> r.t]
  BY <1>1, <1>2, <1>4 DEF get_or_create_table, PutIn
<1>6. /\ PutIn(r.st, t, i, x) = [mem |-> Put(r.st.mem, t, i, x), free |-> r.st.free]
      /\ PutIn(r.st, t, i, x) \in TableState
  BY <1>3, PutState
<1>7. [st |-> PutIn(r.st, t, i, x), t |-> r.t] \in WalkState
  BY <1>3, <1>6 DEF WalkState
<1> QED BY <1>1, <1>2, <1>3, <1>4, <1>5, <1>6, <1>7

\* Out of frames, the walk stays in frame 0.
LEMMA DeadStep ==
    ASSUME mmu \in {"x86_64", "aarch64"}, NEW w \in WalkState, Dead(w), NEW i \in Idx,
           NEW user \in BOOLEAN
    PROVE  /\ get_or_create_table(w.st, w.t, i, user) \in WalkState
           /\ Dead(get_or_create_table(w.st, w.t, i, user))
           /\ w.st.mem[w.t][i].kind \in {"none", "table"}
<1>1. /\ w.t = 0 /\ 0 \in Places /\ w.st \in TableState /\ w.st.mem \in Mems /\ w.st.free = {}
      /\ \A j \in Idx : \/ w.st.mem[0][j].kind = "none"
                        \/ w.st.mem[0][j].kind = "table" /\ w.st.mem[0][j].addr = 0
  BY WalkStateFacts DEF Dead, Places
<1>2. PICK e \in Entry : e = w.st.mem[0][i] /\ e.kind \in {"none", "table"}
                         /\ (e.kind = "table" => e.addr = 0)
  BY <1>1 DEF Mems
<1>3. PICK g : g = get_or_create_table(w.st, 0, i, user)
  OBVIOUS
<1>4. PICK r : r = IF e.kind = "none" THEN alloc_table(w.st) ELSE [st |-> w.st, t |-> e.addr]
  OBVIOUS
<1>5. /\ g.t = r.t /\ g \in WalkState /\ g.st.free = r.st.free /\ r.st \in TableState
      /\ g.st.mem = Put(r.st.mem, 0, i, table_entry(e, r.t, user))
  BY <1>1, <1>2, <1>3, <1>4, CreateIs
<1>6. /\ r.t = 0 /\ r.st.free = {}
      /\ \A j \in Idx : \/ r.st.mem[0][j].kind = "none"
                        \/ r.st.mem[0][j].kind = "table" /\ r.st.mem[0][j].addr = 0
  <2>1. CASE e.kind = "none"
    <3>1. alloc_table(w.st).t = 0
      BY <1>1 DEF alloc_table
    <3>2. r.st.free = w.st.free \ {0} /\ r.st.mem[0] = Zeroed
      BY <1>1, <1>4, <2>1, <3>1, AllocIs
    <3> QED BY <1>1, <1>4, <2>1, <3>1, <3>2, EntryMade DEF Zeroed
  <2>2. CASE e.kind = "table"
    BY <1>1, <1>2, <1>4, <2>2
  <2> QED BY <1>2, <2>1, <2>2
<1>7. PICK x \in Entry : x = table_entry(e, 0, user) /\ x.kind = "table" /\ x.addr = 0
  <2>1. PICK z \in Places : z = 0
    BY <1>1
  <2>2. Widens(mmu, e, z, user, table_entry(e, z, user))
    BY <1>2, TableEntryIs
  <2> QED BY <1>2, <2>1, <2>2 DEF Widens
<1>8. r.st.mem \in Mems
  BY <1>5 DEF TableState, Mems
<1>9. /\ g.st.mem[0][i] = x
      /\ \A j \in Idx : j # i => g.st.mem[0][j] = r.st.mem[0][j]
  BY <1>1, <1>5, <1>6, <1>7, <1>8, PutIs
<1>10. Dead(g)
  BY <1>5, <1>6, <1>7, <1>9 DEF Dead
<1> QED BY <1>1, <1>2, <1>3, <1>5, <1>10

\* Either the tables are made or the frames ran out.
Made(m, F, rt, own, s, page, user, k, w) ==
    Making(mmu, m, F, rt, own, s, page, user, k, w.st.mem, w.st.free, w.t) \/ Dead(w)

Creates(m, F, rt, own, s, page, user, k, w, g) ==
    /\ g \in WalkState
    /\ Made(m, F, rt, own, s, page, user, k + 1, g)
    /\ w.st.mem[w.t][page[k]].kind = "block" => g = [st |-> w.st, t |-> NULL]
    /\ w.st.mem[w.t][page[k]].kind = "block" /\ mmu = "x86_64" => k = Levels - 1
    /\ w.st.mem[w.t][page[k]].kind # "page"

\* One step of the walk of vmm_map.
LEMMA CreateStep ==
    ASSUME mmu \in {"x86_64", "aarch64"}, NEW m, NEW F, NEW rt, NEW own, NEW s \in Spaces,
           NEW page \in PageSet, NEW user \in BOOLEAN, NEW k \in 1 .. Levels, k # Levels,
           NEW w \in WalkState, w.t # NULL, rt[s] # NoRoot,
           Making(mmu, m, F, rt, own, s, page, user, k, w.st.mem, w.st.free, w.t)
    PROVE  Creates(m, F, rt, own, s, page, user, k, w,
                   get_or_create_table(w.st, w.t, page[k], user))
<1> USE DEF Creates, Made
<1>1. PICK M \in Mems, F1 \in SUBSET TableFrames, t \in Places : M = w.st.mem /\ F1 = w.st.free /\ t = w.t
  BY WalkStateFacts
<1>2. PICK lv1, own1 : Forest(mmu, M, F1, rt, lv1, own1)
  BY <1>1 DEF Making
<1>3. /\ Gets(M, rt[s], page, k) /\ t = TableAt(M, rt[s], page, k)
      /\ \A q \in PageSet : Last(M, rt[s], q) = Last(m, rt[s], q)
  BY <1>1 DEF Making
<1>4. t \in Used(F1) /\ lv1[t] = k /\ own1[t] = s /\ rt[s] \in Places
  BY <1>2, <1>3, WalkTree
<1>5. PICK i \in Idx : i = page[k]
  BY DEF PageSet
<1>6. t \in Places /\ t # 0
  BY <1>4, VmmAssumption DEF Used, Places
<1>7. PICK e \in Entry : e = M[t][i]
  BY <1>5, <1>6 DEF Mems
<1>8. Walk(M, rt[s], page)[k] = e
  BY <1>3, <1>4, <1>5, <1>7, <1>1, WalkStep
<1>9. e.kind # "page" /\ (e.kind = "block" /\ mmu = "x86_64" => k = Levels - 1)
  BY <1>2, <1>4, <1>5, <1>7 DEF Forest, Leaves
<1>10. PICK g : g = get_or_create_table(w.st, t, i, user)
  OBVIOUS
<1>11. w.st \in TableState
  BY WalkStateFacts
<1>a. CASE e.kind = "block"
  <2>1. g = [st |-> w.st, t |-> NULL]
    BY <1>a, <1>1, <1>7, <1>10 DEF get_or_create_table
  <2>2. g \in WalkState
    BY <1>11, <2>1 DEF WalkState
  <2>3. Levels \in k .. Levels
    BY LevelsNat
  <2>4. Last(M, rt[s], page) = e
    BY <1>a, <1>1, <1>4, <1>8, <2>3, WalkStays DEF Last
  <2>5. Last(m, rt[s], page).kind = "block"
    BY <1>a, <1>3, <2>4
  <2>6. Making(mmu, m, F, rt, own, s, page, user, k + 1, g.st.mem, g.st.free, g.t)
    BY <2>1, <2>5 DEF Making
  <2> QED BY <1>1, <1>5, <1>7, <1>9, <1>10, <2>1, <2>2, <2>6
<1>b. CASE e.kind \in {"none", "table"}
  <2>1. PICK r : r = IF e.kind = "none" THEN alloc_table(w.st) ELSE [st |-> w.st, t |-> e.addr]
    OBVIOUS
  <2>2. /\ g.t = r.t /\ g \in WalkState /\ g.st.free = r.st.free /\ r.st \in TableState
        /\ g.st.mem = Put(r.st.mem, t, i, table_entry(e, r.t, user)) /\ r.t \in Places
    BY <1>b, <1>1, <1>5, <1>6, <1>7, <1>10, <1>11, <2>1, CreateIs
  <2>3. PICK x \in Entry, f \in Places : f = r.t /\ x = table_entry(e, f, user)
    BY <1>b, <1>7, <2>2, TableEntryIs DEF Widens
  <2>4. r.st.mem \in Mems /\ g.st.mem \in Mems
    BY <2>2, WalkStateFacts DEF TableState, Mems
  <2>5. /\ g.st.mem[t][i] = x
        /\ \A y \in Places : y # t => g.st.mem[y] = r.st.mem[y]
        /\ \A y \in Places, j \in Idx : y # t \/ j # i => g.st.mem[y][j] = r.st.mem[y][j]
    <3>1. PICK R \in Mems : R = r.st.mem
      BY <2>4
    <3>2. g.st.mem = Put(R, t, i, x)
      BY <2>2, <2>3, <3>1
    <3>3. Writes(R, t, i, x, Put(R, t, i, x))
      BY <1>5, <1>6, <2>3, <3>1, PutWrites
    <3> QED BY <3>1, <3>2, <3>3 DEF Writes
  <2>c. CASE e.kind = "none" /\ F1 = {}
    <3>1. r.t = 0 /\ r.st.mem[0] = Zeroed /\ r.st.free = {}
      <4>1. alloc_table(w.st).t = 0
        BY <1>1, <2>c DEF alloc_table
      <4> QED BY <1>1, <1>11, <2>1, <2>c, <4>1, AllocIs
    <3>2. 0 \in Places /\ g.st.mem[0] = Zeroed
      BY <1>6, <2>5, <3>1 DEF Places
    <3>3. \A j \in Idx : g.st.mem[0][j].kind = "none"
      BY <3>2, EntryMade DEF Zeroed
    <3>4. Dead(g)
      BY <2>2, <3>1, <3>3 DEF Dead
    <3> QED BY <1>b, <1>1, <1>5, <1>7, <1>10, <2>2, <3>4
  <2>d. CASE ~(e.kind = "none" /\ F1 = {})
    <3>1. /\ x.kind = "table" /\ x.user \in BOOLEAN /\ x = Table(x.addr, x.user)
          /\ x.addr = IF e.kind = "none" THEN f ELSE e.addr
          /\ x.user => user \/ e.user \/ mmu = "aarch64"
          /\ user /\ (e.kind = "table" /\ mmu = "aarch64" => e.user) => x.user
          /\ mmu = "aarch64" /\ e.kind = "none" => x.user
          /\ e.kind = "table" /\ e.user => x.user
      <4>1. Widens(mmu, e, f, user, x)
        BY <1>b, <1>7, <2>3, TableEntryIs
      <4> QED BY <4>1 DEF Widens
    <3>2. e.kind = "table" /\ mmu = "aarch64" => e.user
      BY <1>2, <1>4, <1>5, <1>7 DEF Forest, Allowed
    <3>3. x.addr = f
      BY <1>b, <2>1, <2>3, <3>1
    <3>4. /\ \A y \in Used(F1) : r.st.mem[y] = M[y]
          /\ e.kind = "none" => f \in F1 /\ r.st.free = F1 \ {f} /\ r.st.mem[f] = Zeroed
          /\ e.kind = "table" => r.st.free = F1 /\ f = e.addr
      <4>1. CASE e.kind = "none"
        BY <1>1, <1>11, <2>1, <2>3, <2>d, <4>1, AllocIs DEF Used, Places
      <4>2. CASE e.kind = "table"
        BY <1>1, <2>1, <2>3, <4>2
      <4> QED BY <1>b, <4>1, <4>2
    <3>5. Differs(M, g.st.mem, F1, t, i) /\ \A y \in Used(F1) : y # t => g.st.mem[y] = M[y]
      BY <2>5, <3>4 DEF Differs, Used, Places
    <3>6. e.kind = "none" => g.st.mem[f] = Zeroed
      <4>1. f \in F1 => f # t
        BY <1>4 DEF Used
      <4> QED BY <2>5, <3>4, <4>1
    <3>7. Making(mmu, m, F, rt, own, s, page, user, k, M, F1, t)
      BY <1>1
    <3>8. Makes(mmu, user, M, F1, t, i, g.st.mem, g.st.free, f)
      <4>1. user => x.user
        BY <3>1, <3>2
      <4>2. mmu = "aarch64" => x.user
        BY <1>b, <3>1, <3>2
      <4>3. CASE e.kind = "none"
        BY <1>7, <2>2, <2>3, <2>4, <2>5, <3>1, <3>3, <3>4, <3>5, <3>6, <4>1, <4>2, <4>3 DEF Makes
      <4>4. CASE e.kind = "table"
        BY <1>7, <2>2, <2>3, <2>4, <2>5, <3>1, <3>3, <3>4, <3>5, <4>1, <4>2, <4>4 DEF Makes
      <4> QED BY <1>b, <4>3, <4>4
    <3>9. Making(mmu, m, F, rt, own, s, page, user, k + 1, g.st.mem, g.st.free, g.t)
      <4>1. Making(mmu, m, F, rt, own, s, page, user, k + 1, g.st.mem, g.st.free, f)
        BY <1>1, <1>5, <3>7, <3>8, MakingStep
      <4> QED BY <2>2, <2>3, <4>1
    <3> QED BY <1>b, <1>1, <1>5, <1>7, <1>10, <2>2, <3>9
  <2> QED BY <2>c, <2>d
<1> QED BY <1>a, <1>b, <1>9, <1>7, EntryFacts

\* The walk of vmm_map before its first step.
LEMMA MakingFirst ==
    ASSUME NEW a, NEW m, NEW F, NEW rt, NEW lv, NEW own, Forest(a, m, F, rt, lv, own),
           NEW s \in Spaces, rt[s] # NoRoot, NEW page, NEW user
    PROVE  /\ Making(a, m, F, rt, own, s, page, user, 1, m, F, rt[s])
           /\ rt[s] \in TableFrames /\ rt[s] # NULL /\ rt[s] \in Places
<1>1. PICK r \in Used(F) : r = rt[s] /\ lv[r] = 1
  BY DEF Forest, Rooted
<1>2. r \in TableFrames /\ r # NULL /\ r \in Places
  BY <1>1, VmmAssumption DEF Used, NULL, Places
<1>3. OpenAbove(m, F, r)
  <2> SUFFICES ASSUME NEW p \in Used(F), NEW j \in Idx, Refers(m, p, j, r) PROVE FALSE
    BY DEF OpenAbove
  <2>1. lv[r] = lv[p] + 1
    BY DEF Refers, Forest, Linked
  <2>2. lv[p] \in 1 .. Levels
    BY DEF Forest, Typed
  <2> QED BY <1>1, <2>1, <2>2, LevelsNat
<1>4. Gets(m, r, page, 1) /\ r = TableAt(m, r, page, 1)
  BY DEF Gets, TableAt
<1>5. m \in Mems
  BY DEF Forest, Typed
<1>6. Making(a, m, F, rt, own, s, page, user, 1, m, F, r)
  BY <1>1, <1>2, <1>3, <1>4, <1>5 DEF Making
<1> QED BY <1>1, <1>2, <1>6

MapStep(w, i, user) == IF w.t = NULL THEN w ELSE get_or_create_table(w.st, w.t, i, user)

\* One step of the walk of vmm_map.
LEMMA MadeStep ==
    ASSUME mmu \in {"x86_64", "aarch64"}, NEW m, NEW F, NEW rt, NEW own, NEW s \in Spaces,
           NEW page \in PageSet, NEW user \in BOOLEAN, NEW k \in 1 .. Levels, k # Levels,
           NEW w \in WalkState, rt[s] # NoRoot, Made(m, F, rt, own, s, page, user, k, w)
    PROVE  /\ MapStep(w, page[k], user) \in WalkState
           /\ Made(m, F, rt, own, s, page, user, k + 1, MapStep(w, page[k], user))
<1>1. PICK i \in Idx : i = page[k]
  BY DEF PageSet
<1>2. CASE w.t = NULL
  <2>1. MapStep(w, page[k], user) = w
    BY <1>2 DEF MapStep
  <2>2. ~Dead(w)
    BY <1>2 DEF Dead, NULL
  <2>3. Making(mmu, m, F, rt, own, s, page, user, k, w.st.mem, w.st.free, NULL)
    BY <1>2, <2>2 DEF Made
  <2>4. Making(mmu, m, F, rt, own, s, page, user, k + 1, w.st.mem, w.st.free, NULL)
    BY <2>3 DEF Making
  <2> QED BY <1>2, <2>1, <2>4 DEF Made
<1>3. CASE w.t # NULL /\ Dead(w)
  <2>1. MapStep(w, i, user) = get_or_create_table(w.st, w.t, i, user)
    BY <1>3 DEF MapStep
  <2>2. MapStep(w, i, user) \in WalkState /\ Dead(MapStep(w, i, user))
    BY <1>1, <1>3, <2>1, DeadStep
  <2> QED BY <1>1, <2>2 DEF Made
<1>4. CASE w.t # NULL /\ ~Dead(w)
  <2>1. Making(mmu, m, F, rt, own, s, page, user, k, w.st.mem, w.st.free, w.t)
    BY <1>4 DEF Made
  <2>2. PICK g : g = get_or_create_table(w.st, w.t, page[k], user)
    OBVIOUS
  <2>3. Creates(m, F, rt, own, s, page, user, k, w, g)
    BY <1>4, <2>1, <2>2, CreateStep
  <2>4. MapStep(w, page[k], user) = g
    BY <1>4, <2>2 DEF MapStep
  <2> QED BY <2>3, <2>4 DEF Creates
<1> QED BY <1>2, <1>3, <1>4

MapEnds(st, rt, own, s, page, leaf, r) ==
    \E w \in WalkState :
      /\ Made(st.mem, st.free, rt, own, s, page, leaf.user, Levels, w)
      /\ r = IF w.t = NULL THEN w.st ELSE PutIn(w.st, w.t, page[Levels], leaf)

\* The tables of vmm_map.
LEMMA MapLoop ==
    ASSUME mmu \in {"x86_64", "aarch64"}, NEW st \in TableState, NEW rt, NEW lv, NEW own,
           Forest(mmu, st.mem, st.free, rt, lv, own), NEW s \in Spaces, rt[s] # NoRoot,
           NEW page \in PageSet, NEW leaf \in Entry
    PROVE  MapEnds(st, rt, own, s, page, leaf, MapWalk(st, rt[s], page, leaf))
<1>1. PICK N \in Nat : N = Levels - 1
  BY LevelsNat
<1>a. leaf.user \in BOOLEAN
  BY EntryFacts
<1>2. PICK user \in BOOLEAN : user = leaf.user
  BY <1>a
<1>b. PICK r : r = rt[s]
  OBVIOUS
<1> DEFINE x0 == [st |-> st, t |-> r]
           Good(k, w) == Made(st.mem, st.free, rt, own, s, page, user, k, w)
           Eq(v) == v = [k \in 0 .. N |-> IF k = 0 THEN x0 ELSE MapStep(v[k - 1], page[k], user)]
<1>3. PICK P : P = [k \in 0 .. N |-> {w \in WalkState : Good(k + 1, w)}]
  OBVIOUS
<1>4. PICK steps : steps = [k \in 1 .. N |-> [w \in WalkState |-> MapStep(w, page[k], user)]]
  OBVIOUS
<1>5. x0 \in P[0]
  <2>1. Making(mmu, st.mem, st.free, rt, own, s, page, user, 1, st.mem, st.free, r) /\ r \in Places
    BY <1>2, <1>b, MakingFirst
  <2>2. x0 \in WalkState
    BY <2>1 DEF WalkState
  <2>3. Good(1, x0)
    BY <2>1 DEF Made
  <2> QED BY <1>1, <1>3, <2>2, <2>3
<1>6. ASSUME NEW k \in 1 .. N, NEW w \in P[k - 1]
      PROVE  steps[k][w] = MapStep(w, page[k], user) /\ steps[k][w] \in P[k]
  <2>1. k \in 1 .. Levels /\ k # Levels /\ k - 1 \in 0 .. N /\ (k - 1) + 1 = k /\ k \in 0 .. N
    BY <1>1, LevelsNat
  <2>2. w \in WalkState /\ Good(k, w)
    BY <1>3, <2>1
  <2>3. MapStep(w, page[k], user) \in WalkState /\ Good(k + 1, MapStep(w, page[k], user))
    BY <1>2, <2>1, <2>2, MadeStep
  <2> HIDE DEF Good
  <2> QED BY <1>3, <1>4, <2>1, <2>2, <2>3
<1> HIDE DEF x0, Good
<1>7. PICK f : Stays(N, P, steps, x0, f)
  BY <1>5, <1>6, GuardedIteration
<1>8. f[0] = x0 /\ \A k \in 1 .. N : f[k] = MapStep(f[k - 1], page[k], user)
  <2> SUFFICES ASSUME NEW k \in 1 .. N PROVE f[k] = MapStep(f[k - 1], page[k], user)
    BY <1>7 DEF Stays
  <2>1. k - 1 \in 0 .. N
    BY <1>1
  <2>2. f[k - 1] \in P[k - 1] /\ f[k] = steps[k][f[k - 1]]
    BY <1>7, <2>1 DEF Stays
  <2> QED BY <1>6, <2>2
<1>9. Eq(f)
  <2>1. ASSUME NEW k \in 0 .. N
        PROVE  f[k] = IF k = 0 THEN x0 ELSE MapStep(f[k - 1], page[k], user)
    BY <1>1, <1>8
  <2>2. f = [k \in 0 .. N |-> f[k]]
    BY <1>7 DEF Stays
  <2> QED BY <2>1, <2>2
<1>10. PICK v : v = CHOOSE u : Eq(u)
  OBVIOUS
<1>11. Eq(v)
  <2> HIDE DEF Eq
  <2> QED BY <1>9, <1>10
<1>12. MapWalk(st, r, page, leaf) = IF v[Levels - 1].t = NULL THEN v[Levels - 1].st
          ELSE PutIn(v[Levels - 1].st, v[Levels - 1].t, page[Levels], leaf)
  BY <1>1, <1>2, <1>b, <1>10 DEF MapWalk, MapStep, x0, PutIn
<1>13. v[N] = f[N]
  <2> DEFINE G == {n \in 0 .. N : v[n] = f[n]}
  <2>1. 0 \in G
    BY <1>1, <1>8, <1>11
  <2>2. ASSUME NEW n \in 1 .. N, n - 1 \in G PROVE n \in G
    BY <1>1, <1>8, <1>11, <2>2
  <2>3. \A n \in 0 .. N : n \in G
    <3> HIDE DEF G
    <3> QED BY <2>1, <2>2, UpTo
  <2> QED BY <2>3
<1>14. f[N] \in WalkState /\ Good(Levels, f[N])
  <2>1. f[N] \in P[N] /\ N \in 0 .. N /\ N + 1 = Levels
    BY <1>1, <1>7, LevelsNat DEF Stays
  <2> QED BY <1>3, <2>1
<1> QED BY <1>1, <1>2, <1>b, <1>12, <1>13, <1>14 DEF Good, MapEnds

-----------------------------------------------------------------------------
(* What the operations do to the pages of the spaces.                      *)

\* The pages of the spaces other than s are what they were.
Kept(rt, s, m, m2) ==
    \A q \in Spaces : rt[q] # NoRoot /\ q # s =>
      \A p \in PageSet : Last(m2, rt[q], p) = Last(m, rt[q], p)

\* Of the pages of a space only this one changes.
Sets(m, r, page, e, m2) ==
    \A p \in PageSet : Last(m2, r, p) = IF p = page THEN e ELSE Last(m, r, p)

\* A leaf that the walk of a page reads at level d is written.
WritesLeaf(a, m, F, rt, lv, s, page, d, t, i, m2) ==
    /\ s \in Spaces /\ rt[s] # NoRoot /\ page \in PageSet /\ d \in 1 .. Levels
    /\ Gets(m, rt[s], page, d) /\ t = TableAt(m, rt[s], page, d) /\ i = page[d]
    /\ m2 \in Mems /\ Differs(m, m2, F, t, i)
    /\ m[t][i].kind # "table" /\ m2[t][i].kind # "table"
    /\ Replaces(a, m[t][i], m2[t][i], d)
    /\ m2[t][i].user => OpenAbove(m, F, t)

LeafWritten(a, m, F, rt, lv, own, s, page, d, t, i, m2) ==
    /\ Forest(a, m2, F, rt, lv, own)
    /\ Kept(rt, s, m, m2)
    /\ Last(m, rt[s], page) = m[t][i]
    /\ \A p \in PageSet : Last(m2, rt[s], p) =
         IF Hits(m, rt[s], p, d, t, i) THEN m2[t][i] ELSE Last(m, rt[s], p)
    /\ \A p \in PageSet : Hits(m, rt[s], p, d, t, i) => Last(m, rt[s], p) = m[t][i]
    /\ d = Levels => Sets(m, rt[s], page, m2[t][i], m2)

\* Writing the leaf changes the pages whose walk reads it.
LEMMA WriteLeaf ==
    ASSUME NEW a, NEW m, NEW F, NEW rt, NEW lv, NEW own, Forest(a, m, F, rt, lv, own),
           NEW s, NEW page, NEW d, NEW t, NEW i, NEW m2,
           WritesLeaf(a, m, F, rt, lv, s, page, d, t, i, m2)
    PROVE  LeafWritten(a, m, F, rt, lv, own, s, page, d, t, i, m2)
<1>1. /\ s \in Spaces /\ rt[s] # NoRoot /\ page \in PageSet /\ d \in 1 .. Levels
      /\ Gets(m, rt[s], page, d) /\ t = TableAt(m, rt[s], page, d) /\ i = page[d]
      /\ m2 \in Mems /\ Differs(m, m2, F, t, i)
      /\ m[t][i].kind # "table" /\ m2[t][i].kind # "table"
      /\ Replaces(a, m[t][i], m2[t][i], d)
      /\ m2[t][i].user => OpenAbove(m, F, t)
  BY DEF WritesLeaf
<1>2. t \in Used(F) /\ lv[t] = d /\ own[t] = s /\ i \in Idx
  BY <1>1, WalkTree DEF PageSet
<1>3. Forest(a, m2, F, rt, lv, own)
  <2>1. Replaces(a, m[t][i], m2[t][i], lv[t])
    BY <1>1, <1>2
  <2> QED BY <1>1, <1>2, <2>1, PutForest
<1>4. ASSUME NEW q \in Spaces, rt[q] # NoRoot, NEW p \in PageSet
      PROVE  IF Hits(m, rt[q], p, d, t, i)
             THEN q = s /\ Last(m, rt[q], p) = m[t][i] /\ Last(m2, rt[q], p) = m2[t][i]
             ELSE Last(m2, rt[q], p) = Last(m, rt[q], p)
  <2>1. Hits(m, rt[q], p, d, t, i) => q = s
    <3> SUFFICES ASSUME Hits(m, rt[q], p, d, t, i) PROVE q = s
      OBVIOUS
    <3>1. Gets(m, rt[q], p, d) /\ TableAt(m, rt[q], p, d) = t
      BY DEF Hits
    <3>2. own[TableAt(m, rt[q], p, d)] = q
      BY <1>1, <1>4, <3>1, WalkTree
    <3> QED BY <1>2, <3>1, <3>2
  <2>2. IF Hits(m, rt[q], p, lv[t], t, i)
        THEN Last(m, rt[q], p) = m[t][i] /\ Last(m2, rt[q], p) = m2[t][i]
        ELSE Last(m2, rt[q], p) = Last(m, rt[q], p)
    BY <1>1, <1>2, <1>4, LastPut
  <2> QED BY <1>2, <2>1, <2>2
<1>5. Kept(rt, s, m, m2)
  BY <1>4 DEF Kept
<1>6. Hits(m, rt[s], page, d, t, i)
  BY <1>1 DEF Hits
<1>7. ASSUME d = Levels PROVE Sets(m, rt[s], page, m2[t][i], m2)
  <2>1. ASSUME NEW p \in PageSet, Hits(m, rt[s], p, d, t, i) PROVE p = page
    <3>1. Gets(m, rt[s], p, d) /\ TableAt(m, rt[s], p, d) = t /\ p[d] = i
      BY <2>1 DEF Hits
    <3>2. \A k \in 1 .. Levels : k < d => p[k] = page[k]
      BY <1>1, <3>1, WalkUnique
    <3>3. \A k \in 1 .. Levels : k = d \/ k < d
      BY <1>7, LevelsNat
    <3>4. \A k \in 1 .. Levels : p[k] = page[k]
      BY <1>1, <3>1, <3>2, <3>3
    <3>5. p \in [1 .. Levels -> Idx] /\ page \in [1 .. Levels -> Idx]
      BY <1>1 DEF PageSet
    <3> QED BY <3>4, <3>5, LevelsNat
  <2> QED BY <1>1, <1>4, <1>6, <2>1 DEF Sets
<1> QED BY <1>1, <1>3, <1>4, <1>5, <1>6, <1>7 DEF LeafWritten

\* Making tables changes no page of any space.
LEMMA MakingKeeps ==
    ASSUME NEW a, NEW m, NEW F, NEW rt, NEW lv, NEW own, Forest(a, m, F, rt, lv, own),
           NEW s, NEW page, NEW user, NEW k, NEW m1, NEW F1, NEW t,
           Making(a, m, F, rt, own, s, page, user, k, m1, F1, t)
    PROVE  Kept(rt, s, m, m1)
<1> SUFFICES ASSUME NEW q \in Spaces, rt[q] # NoRoot, q # s, NEW p \in PageSet
             PROVE  Last(m1, rt[q], p) = Last(m, rt[q], p)
  BY DEF Kept
<1>1. m1 \in Mems /\ \A x \in Used(F) : own[x] = q => m1[x] = m[x]
  BY DEF Making
<1>2. Walk(m1, rt[q], p) = Walk(m, rt[q], p)
  BY <1>1, WalkSame
<1> QED BY <1>2 DEF Last

\* vmm_map, as long as there are frames.
Maps(st, rt, s, page, e, r) ==
    /\ r \in TableState
    /\ \E lv, own : Forest(mmu, r.mem, r.free, rt, lv, own)
    /\ Kept(rt, s, st.mem, r.mem)
    /\ Sets(st.mem, rt[s], page,
            IF Last(st.mem, rt[s], page).kind = "block" THEN Last(st.mem, rt[s], page) ELSE e, r.mem)

\* vmm_map sets its page and no other, unless a block is in the way.
LEMMA MapForest ==
    ASSUME mmu \in {"x86_64", "aarch64"}, NEW st \in TableState, NEW rt, NEW lv, NEW own,
           Forest(mmu, st.mem, st.free, rt, lv, own), NEW s \in Spaces, rt[s] # NoRoot,
           NEW page \in PageSet, NEW x \in Phys, NEW u \in BOOLEAN,
           MapWalk(st, rt[s], page, Page(x, u)).free # {}
    PROVE  Maps(st, rt, s, page, Page(x, u), MapWalk(st, rt[s], page, Page(x, u)))
<1>1. PICK e \in Entry : e = Page(x, u) /\ e.kind = "page" /\ e.user = u
  BY EntryMade
<1>2. PICK w \in WalkState :
        /\ Made(st.mem, st.free, rt, own, s, page, e.user, Levels, w)
        /\ MapWalk(st, rt[s], page, e) =
             IF w.t = NULL THEN w.st ELSE PutIn(w.st, w.t, page[Levels], e)
  <2>2. MapEnds(st, rt, own, s, page, e, MapWalk(st, rt[s], page, e))
    BY <1>1, MapLoop
  <2> QED BY <2>2 DEF MapEnds
<1>3. PICK r : r = MapWalk(st, rt[s], page, e)
  OBVIOUS
<1>4. PICK i \in Idx : i = page[Levels]
  BY LevelsNat DEF PageSet
<1>5. w.st \in TableState /\ w.st.mem \in Mems /\ w.t \in Places \cup {NULL}
  BY WalkStateFacts
<1>6. w.t # NULL => r = [mem |-> Put(w.st.mem, w.t, i, e), free |-> w.st.free] /\ r \in TableState
  <2> SUFFICES ASSUME w.t # NULL
               PROVE  r = [mem |-> Put(w.st.mem, w.t, i, e), free |-> w.st.free] /\ r \in TableState
    OBVIOUS
  <2>1. r = PutIn(w.st, w.t, i, e) /\ w.t \in Places
    BY <1>2, <1>3, <1>4, <1>5
  <2> QED BY <1>1, <1>4, <1>5, <2>1, PutState
<1>7. r.free = w.st.free
  BY <1>2, <1>3, <1>6
<1>8. Making(mmu, st.mem, st.free, rt, own, s, page, e.user, Levels, w.st.mem, w.st.free, w.t)
  <2>1. ~Dead(w)
    BY <1>1, <1>3, <1>7 DEF Dead
  <2> QED BY <1>2, <2>1 DEF Made
<1>9. PICK lv1, own1 : Forest(mmu, w.st.mem, w.st.free, rt, lv1, own1)
  BY <1>8 DEF Making
<1>10. Kept(rt, s, st.mem, w.st.mem) /\ \A q \in PageSet : Last(w.st.mem, rt[s], q) = Last(st.mem, rt[s], q)
  <2>1. Kept(rt, s, st.mem, w.st.mem)
    BY <1>8, MakingKeeps
  <2> QED BY <1>8, <2>1 DEF Making
<1>11. CASE w.t = NULL
  <2>1. r = w.st
    BY <1>2, <1>3, <1>11
  <2>2. Last(st.mem, rt[s], page).kind = "block"
    BY <1>8, <1>11 DEF Making
  <2>3. Maps(st, rt, s, page, e, r)
    BY <1>5, <1>9, <1>10, <2>1, <2>2 DEF Maps, Sets
  <2> QED BY <1>1, <1>3, <2>3
<1>12. CASE w.t # NULL
  <2>1. PICK t \in Places, M \in Mems, F1 \in SUBSET TableFrames : t = w.t /\ M = w.st.mem /\ F1 = w.st.free
    BY <1>5, <1>12, WalkStateFacts
  <2>2. /\ Gets(M, rt[s], page, Levels) /\ t = TableAt(M, rt[s], page, Levels)
        /\ e.user => OpenAbove(M, F1, t)
    BY <1>8, <1>12, <2>1 DEF Making
  <2>3. Levels \in 1 .. Levels
    BY LevelsNat
  <2>4. Last(M, rt[s], page) = M[t][i] /\ M[t][i].kind \in {"none", "page"}
    <3>1. Last(M, rt[s], page) = M[t][i]
      BY <1>4, <1>9, <2>1, <2>2, <2>3, WalkStep, WalkTree DEF Last
    <3> QED BY <1>9, <2>1, <2>2, <3>1, LastKinds
  <2>5. PICK m2 \in Mems : m2 = r.mem /\ Writes(M, t, i, e, m2)
    <3>1. r.mem = Put(M, t, i, e)
      BY <1>6, <1>12, <2>1
    <3>2. Writes(M, t, i, e, Put(M, t, i, e))
      BY <1>1, <1>4, <2>1, PutWrites
    <3> QED BY <3>1, <3>2 DEF Writes
  <2>6. Differs(M, m2, F1, t, i) /\ m2[t][i] = e
    BY <2>5 DEF Differs, Writes, Used, Places
  <2>7. Replaces(mmu, M[t][i], e, Levels)
    BY <1>1, <2>4 DEF Replaces
  <2>8. WritesLeaf(mmu, M, F1, rt, lv1, s, page, Levels, t, i, m2)
    BY <1>1, <1>4, <2>1, <2>2, <2>3, <2>4, <2>5, <2>6, <2>7 DEF WritesLeaf
  <2>9. /\ Forest(mmu, m2, F1, rt, lv1, own1) /\ Kept(rt, s, M, m2)
        /\ Levels = Levels => Sets(M, rt[s], page, m2[t][i], m2)
    <3>1. Forest(mmu, M, F1, rt, lv1, own1)
      BY <1>9, <2>1
    <3>2. LeafWritten(mmu, M, F1, rt, lv1, own1, s, page, Levels, t, i, m2)
      BY <2>8, <3>1, WriteLeaf
    <3> QED BY <3>2 DEF LeafWritten
  <2>10. Last(st.mem, rt[s], page).kind # "block"
    BY <1>10, <2>1, <2>4
  <2>11. Sets(st.mem, rt[s], page, e, m2)
    BY <1>10, <2>1, <2>6, <2>9 DEF Sets
  <2>12. Kept(rt, s, st.mem, m2)
    BY <1>10, <2>1, <2>9 DEF Kept
  <2>13. r \in TableState /\ r.free = F1
    BY <1>6, <1>12, <2>1
  <2>14. Maps(st, rt, s, page, e, r)
    BY <2>5, <2>9, <2>10, <2>11, <2>12, <2>13 DEF Maps
  <2> QED BY <1>1, <1>3, <2>14
<1> QED BY <1>11, <1>12

\* ensure_table is get_or_create_table of a kernel page, where it meets no block.
LEMMA EnsureIs ==
    ASSUME mmu = "x86_64", NEW st \in TableState, NEW t \in Places, NEW i \in Idx,
           st.mem[t][i].kind \in {"none", "table"}
    PROVE  ensure_table(st, t, i) = get_or_create_table(st, t, i, FALSE)
<1>0. st.mem \in Mems
  BY DEF TableState, Mems
<1>1. PICK e \in Entry : e = st.mem[t][i] /\ e.kind \in {"none", "table"}
  BY <1>0 DEF Mems
<1>2. CASE e.kind = "none"
  <2>1. PICK r : r = alloc_table(st) /\ r.t \in Places
    BY AllocIs
  <2>2. table_entry(e, r.t, FALSE) = Table(r.t, FALSE)
    BY <1>2 DEF table_entry, x86_table
  <2> QED BY <1>1, <1>2, <2>1, <2>2 DEF ensure_table, get_or_create_table
<1>3. CASE e.kind = "table"
  <2>1. Widens(mmu, e, e.addr, FALSE, table_entry(e, e.addr, FALSE))
    <3>1. PICK f \in Places, u \in BOOLEAN : f = e.addr /\ u = FALSE
      BY <1>3, EntryFacts
    <3>2. Widens(mmu, e, f, u, table_entry(e, f, u))
      BY <1>1, TableEntryIs
    <3> QED BY <3>1, <3>2
  <2>2. table_entry(e, e.addr, FALSE) = e
    BY <1>3, <2>1 DEF Widens
  <2>3. PutIn(st, t, i, e) = [mem |-> Put(st.mem, t, i, e), free |-> st.free]
    BY <1>1, PutState
  <2>4. Put(st.mem, t, i, e) = st.mem
    BY <1>0, <1>1 DEF Put, Mems
  <2>5. PutIn(st, t, i, e) = st
    BY <2>3, <2>4 DEF TableState
  <2>6. get_or_create_table(st, t, i, FALSE) = [st |-> PutIn(st, t, i, e), t |-> e.addr]
    BY <1>1, <1>3, <2>2 DEF get_or_create_table, PutIn
  <2> QED BY <1>1, <1>3, <2>5, <2>6 DEF ensure_table
<1> QED BY <1>1, <1>2, <1>3

BlockEnds(st, rt, own, s, page, r) ==
    \E w \in WalkState :
      /\ Made(st.mem, st.free, rt, own, s, page, Huge.user, Levels - 1, w) /\ w.t # NULL
      /\ r = IF w.st.mem[w.t][page[Levels - 1]].kind # "none" THEN w.st
             ELSE PutIn(w.st, w.t, page[Levels - 1], Huge)

\* One step of the walk of paging_identity_map.
LEMMA EnsureStep ==
    ASSUME mmu = "x86_64", NEW m, NEW F, NEW rt, NEW own, NEW s \in Spaces,
           NEW page \in PageSet, NEW k \in 1 .. Levels, k < Levels - 1,
           NEW w \in WalkState, rt[s] # NoRoot, w.t # NULL,
           Made(m, F, rt, own, s, page, Huge.user, k, w)
    PROVE  /\ ensure_table(w.st, w.t, page[k]) \in WalkState
           /\ Made(m, F, rt, own, s, page, Huge.user, k + 1, ensure_table(w.st, w.t, page[k]))
           /\ ensure_table(w.st, w.t, page[k]).t # NULL
<1>1. PICK i \in Idx : i = page[k]
  BY DEF PageSet
<1>2. PICK a \in {"x86_64", "aarch64"}, user \in BOOLEAN : a = mmu /\ user = Huge.user /\ user = FALSE
  BY EntryMade
<1>3. w.st \in TableState /\ w.t \in Places /\ w.st.mem \in Mems
  BY WalkStateFacts
<1>4. w.st.mem[w.t][i] \in Entry
  BY <1>1, <1>3 DEF Mems
<1>5. w.st.mem[w.t][i].kind \in {"none", "table"}
  <2>1. CASE Dead(w)
    BY <1>1, <1>2, <2>1, DeadStep
  <2>2. CASE ~Dead(w)
    <3>1. Making(mmu, m, F, rt, own, s, page, user, k, w.st.mem, w.st.free, w.t)
      BY <1>2, <2>2 DEF Made
    <3>2. k # Levels
      BY LevelsNat
    <3>3. Creates(m, F, rt, own, s, page, user, k, w,
                  get_or_create_table(w.st, w.t, page[k], user))
      BY <1>2, <3>1, <3>2, CreateStep
    <3>4. w.st.mem[w.t][i].kind # "block" /\ w.st.mem[w.t][i].kind # "page"
      BY <1>1, <3>3, LevelsNat DEF Creates
    <3> QED BY <1>4, <3>4, EntryFacts
  <2> QED BY <2>1, <2>2
<1>6. ensure_table(w.st, w.t, i) = get_or_create_table(w.st, w.t, i, user)
  BY <1>1, <1>2, <1>3, <1>5, EnsureIs
<1>7. get_or_create_table(w.st, w.t, i, user).t \in Places
  BY <1>1, <1>2, <1>3, <1>5, CreateIs
<1>8. MapStep(w, page[k], user) = ensure_table(w.st, w.t, page[k])
  BY <1>1, <1>6 DEF MapStep
<1>9. /\ MapStep(w, page[k], user) \in WalkState
      /\ Made(m, F, rt, own, s, page, user, k + 1, MapStep(w, page[k], user))
  <2>1. k # Levels /\ Made(m, F, rt, own, s, page, user, k, w)
    BY <1>2, LevelsNat
  <2> QED BY <1>2, <2>1, MadeStep
<1>10. ensure_table(w.st, w.t, page[k]).t # NULL
  BY <1>1, <1>6, <1>7, VmmAssumption DEF Places, NULL
<1> QED BY <1>2, <1>8, <1>9, <1>10

\* The walk of paging_identity_map reaches the table above the pages.
LEMMA BlockLoop ==
    ASSUME mmu = "x86_64", NEW st \in TableState, NEW rt, NEW lv, NEW own,
           Forest(mmu, st.mem, st.free, rt, lv, own), NEW s \in Spaces, rt[s] # NoRoot,
           NEW page \in PageSet
    PROVE  BlockEnds(st, rt, own, s, page, BlockWalk(st, rt[s], page))
<1>1. PICK N \in Nat : N = Levels - 2
  BY LevelsNat
<1>2. PICK r : r = rt[s]
  OBVIOUS
<1> DEFINE x0 == [st |-> st, t |-> r]
           Good(k, w) == Made(st.mem, st.free, rt, own, s, page, Huge.user, k, w) /\ w.t # NULL
           Do(w, k) == ensure_table(w.st, w.t, page[k])
           Eq(v) == v = [k \in 0 .. N |-> IF k = 0 THEN x0 ELSE Do(v[k - 1], k)]
<1>3. PICK P : P = [k \in 0 .. N |-> {w \in WalkState : Good(k + 1, w)}]
  OBVIOUS
<1>4. PICK steps : steps = [k \in 1 .. N |-> [w \in WalkState |-> Do(w, k)]]
  OBVIOUS
<1>5. x0 \in P[0]
  <2>1. Making(mmu, st.mem, st.free, rt, own, s, page, Huge.user, 1, st.mem, st.free, r) /\ r \in Places /\ r # NULL
    BY <1>2, MakingFirst
  <2>2. x0 \in WalkState
    BY <2>1 DEF WalkState
  <2>3. Good(1, x0)
    BY <2>1 DEF Made
  <2> HIDE DEF Good
  <2> QED BY <1>1, <1>3, <2>2, <2>3
<1>6. ASSUME NEW k \in 1 .. N, NEW w \in P[k - 1]
      PROVE  steps[k][w] = Do(w, k) /\ steps[k][w] \in P[k]
  <2>1. k \in 1 .. Levels /\ k < Levels - 1 /\ k - 1 \in 0 .. N /\ (k - 1) + 1 = k /\ k \in 0 .. N
    BY <1>1, LevelsNat
  <2>2. w \in WalkState /\ Good(k, w)
    BY <1>3, <2>1
  <2>3. Do(w, k) \in WalkState /\ Good(k + 1, Do(w, k))
    BY <1>2, <2>1, <2>2, EnsureStep
  <2> HIDE DEF Good, Do
  <2> QED BY <1>3, <1>4, <2>1, <2>2, <2>3
<1> HIDE DEF x0, Good
<1>7. PICK f : Stays(N, P, steps, x0, f)
  BY <1>5, <1>6, GuardedIteration
<1> HIDE DEF Do
<1>8. f[0] = x0 /\ \A k \in 1 .. N : f[k] = Do(f[k - 1], k)
  <2> SUFFICES ASSUME NEW k \in 1 .. N PROVE f[k] = Do(f[k - 1], k)
    BY <1>7 DEF Stays
  <2>1. k - 1 \in 0 .. N
    BY <1>1
  <2>2. f[k - 1] \in P[k - 1] /\ f[k] = steps[k][f[k - 1]]
    BY <1>7, <2>1 DEF Stays
  <2> QED BY <1>6, <2>2
<1>9. Eq(f)
  <2>1. ASSUME NEW k \in 0 .. N
        PROVE  f[k] = IF k = 0 THEN x0 ELSE Do(f[k - 1], k)
    BY <1>1, <1>8
  <2>2. f = [k \in 0 .. N |-> f[k]]
    BY <1>7 DEF Stays
  <2> QED BY <2>1, <2>2
<1>10. PICK v : v = CHOOSE u : Eq(u)
  OBVIOUS
<1>11. Eq(v)
  <2> HIDE DEF Eq
  <2> QED BY <1>9, <1>10
<1>12. BlockWalk(st, r, page) =
         IF v[Levels - 2].st.mem[v[Levels - 2].t][page[Levels - 1]].kind # "none"
         THEN v[Levels - 2].st
         ELSE PutIn(v[Levels - 2].st, v[Levels - 2].t, page[Levels - 1], Huge)
  BY <1>1, <1>2, <1>10 DEF BlockWalk, Do, x0, PutIn
<1>13. v[N] = f[N]
  <2> DEFINE G == {n \in 0 .. N : v[n] = f[n]}
  <2>1. 0 \in G
    BY <1>1, <1>8, <1>11
  <2>2. ASSUME NEW n \in 1 .. N, n - 1 \in G PROVE n \in G
    BY <1>1, <1>8, <1>11, <2>2
  <2>3. \A n \in 0 .. N : n \in G
    <3> HIDE DEF G
    <3> QED BY <2>1, <2>2, UpTo
  <2> QED BY <2>3
<1>14. f[N] \in WalkState /\ Good(Levels - 1, f[N])
  <2>1. f[N] \in P[N] /\ N \in 0 .. N /\ N + 1 = Levels - 1
    BY <1>1, <1>7, LevelsNat DEF Stays
  <2> QED BY <1>3, <2>1
<1> QED BY <1>1, <1>2, <1>12, <1>13, <1>14 DEF Good, BlockEnds

\* paging_identity_map, as long as there are frames: a page that was unmapped
\* may be in a block now.
Blocks(st, rt, s, r) ==
    /\ r \in TableState
    /\ \E lv, own : Forest(mmu, r.mem, r.free, rt, lv, own)
    /\ Kept(rt, s, st.mem, r.mem)
    /\ \A p \in PageSet : \/ Last(r.mem, rt[s], p) = Last(st.mem, rt[s], p)
                          \/ Last(st.mem, rt[s], p) = None /\ Last(r.mem, rt[s], p) = Huge

\* paging_identity_map only fills pages that were unmapped.
LEMMA BlockForest ==
    ASSUME mmu = "x86_64", NEW st \in TableState, NEW rt, NEW lv, NEW own,
           Forest(mmu, st.mem, st.free, rt, lv, own), NEW s \in Spaces, rt[s] # NoRoot,
           NEW page \in PageSet, BlockWalk(st, rt[s], page).free # {}
    PROVE  Blocks(st, rt, s, BlockWalk(st, rt[s], page))
<1>1. PICK e \in Entry : e = Huge /\ e.kind = "block" /\ e.user = FALSE
  BY EntryMade
<1>2. PICK w \in WalkState :
        /\ Made(st.mem, st.free, rt, own, s, page, Huge.user, Levels - 1, w) /\ w.t # NULL
        /\ BlockWalk(st, rt[s], page) =
             IF w.st.mem[w.t][page[Levels - 1]].kind # "none" THEN w.st
             ELSE PutIn(w.st, w.t, page[Levels - 1], Huge)
  <2>2. BlockEnds(st, rt, own, s, page, BlockWalk(st, rt[s], page))
    BY BlockLoop
  <2> QED BY <2>2 DEF BlockEnds
<1>3. PICK r : r = BlockWalk(st, rt[s], page)
  OBVIOUS
<1>d. PICK d \in 1 .. Levels : d = Levels - 1
  BY LevelsNat
<1>4. PICK i \in Idx : i = page[d]
  BY DEF PageSet
<1>5. w.st \in TableState /\ w.st.mem \in Mems /\ w.t \in Places /\ w.st.free \in SUBSET TableFrames
  BY <1>2, WalkStateFacts
<1>6. PICK t \in Places, M \in Mems, F1 \in SUBSET TableFrames : t = w.t /\ M = w.st.mem /\ F1 = w.st.free
  BY <1>5
<1>7. /\ M[t][i].kind # "none" => r = w.st
      /\ M[t][i].kind = "none" => r = [mem |-> Put(M, t, i, e), free |-> F1] /\ r \in TableState
  <2>1. M[t][i].kind # "none" => r = w.st
    BY <1>2, <1>3, <1>d, <1>4, <1>6
  <2>2. M[t][i].kind = "none" => r = PutIn(w.st, t, i, e)
    BY <1>1, <1>2, <1>3, <1>d, <1>4, <1>6
  <2>3. /\ PutIn(w.st, t, i, e) = [mem |-> Put(w.st.mem, t, i, e), free |-> w.st.free]
        /\ PutIn(w.st, t, i, e) \in TableState
    BY <1>1, <1>4, <1>5, <1>6, PutState
  <2> QED BY <1>6, <2>1, <2>2, <2>3
<1>8. r.free = F1
  BY <1>6, <1>7
<1>9. Making(mmu, st.mem, st.free, rt, own, s, page, Huge.user, d, M, F1, t)
  <2>1. ~Dead(w)
    BY <1>3, <1>6, <1>8 DEF Dead
  <2> QED BY <1>2, <1>d, <1>6, <2>1 DEF Made
<1>10. PICK lv1, own1 : Forest(mmu, M, F1, rt, lv1, own1)
  BY <1>9 DEF Making
<1>11. Kept(rt, s, st.mem, M) /\ \A q \in PageSet : Last(M, rt[s], q) = Last(st.mem, rt[s], q)
  <2>1. Kept(rt, s, st.mem, M)
    BY <1>9, MakingKeeps
  <2> QED BY <1>9, <2>1 DEF Making
<1>12. CASE M[t][i].kind # "none"
  <2>1. r = w.st
    BY <1>7, <1>12
  <2>2. Blocks(st, rt, s, r)
    BY <1>5, <1>6, <1>10, <1>11, <2>1 DEF Blocks
  <2> QED BY <1>3, <2>2
<1>13. CASE M[t][i].kind = "none"
  <2>1. r = [mem |-> Put(M, t, i, e), free |-> F1] /\ r \in TableState
    BY <1>7, <1>13
  <2>2. Gets(M, rt[s], page, d) /\ t = TableAt(M, rt[s], page, d)
    BY <1>2, <1>6, <1>9 DEF Making
  <2>3. M[t][i] = None
    <3>1. M[t][i] \in Entry
      BY <1>4, <1>6 DEF Mems
    <3> QED BY <1>13, <3>1, EntryFacts
  <2>5. PICK m2 \in Mems : m2 = r.mem /\ Writes(M, t, i, e, m2)
    <3>1. r.mem = Put(M, t, i, e)
      BY <2>1
    <3>2. Writes(M, t, i, e, Put(M, t, i, e))
      BY <1>1, <1>4, <1>6, PutWrites
    <3> QED BY <3>1, <3>2 DEF Writes
  <2>6. Differs(M, m2, F1, t, i) /\ m2[t][i] = e
    BY <2>5 DEF Differs, Writes, Used, Places
  <2>7. Replaces(mmu, M[t][i], e, d)
    BY <1>1, <1>d, <1>13, LevelsNat DEF Replaces
  <2>8. WritesLeaf(mmu, M, F1, rt, lv1, s, page, d, t, i, m2)
    BY <1>1, <1>d, <1>4, <1>13, <2>2, <2>5, <2>6, <2>7 DEF WritesLeaf
  <2>9. /\ Forest(mmu, m2, F1, rt, lv1, own1) /\ Kept(rt, s, M, m2)
        /\ \A p \in PageSet : Last(m2, rt[s], p) =
             IF Hits(M, rt[s], p, d, t, i) THEN m2[t][i] ELSE Last(M, rt[s], p)
        /\ \A p \in PageSet : Hits(M, rt[s], p, d, t, i) => Last(M, rt[s], p) = M[t][i]
    <3>1. LeafWritten(mmu, M, F1, rt, lv1, own1, s, page, d, t, i, m2)
      BY <1>10, <2>8, WriteLeaf
    <3> QED BY <3>1 DEF LeafWritten
  <2>10. Kept(rt, s, st.mem, m2)
    BY <1>11, <2>9 DEF Kept
  <2>11. ASSUME NEW p \in PageSet
         PROVE  \/ Last(m2, rt[s], p) = Last(st.mem, rt[s], p)
                \/ Last(st.mem, rt[s], p) = None /\ Last(m2, rt[s], p) = Huge
    BY <1>1, <1>11, <2>3, <2>6, <2>9
  <2>12. Blocks(st, rt, s, r)
    BY <1>8, <2>1, <2>5, <2>9, <2>10, <2>11 DEF Blocks
  <2> QED BY <1>3, <2>12
<1> QED BY <1>12, <1>13

-----------------------------------------------------------------------------
(* vmm_unmap and vmm_translate.                                            *)

Translated(m, r, p) ==
    LET pt == PtOf(m, r, p) IN IF pt = NULL THEN None ELSE m[pt][p[Levels]]

Seen(e) == IF e.kind = "block" THEN None ELSE e

\* The table of the last level, where the walk ends.
LEMMA PtIs ==
    ASSUME NEW a, NEW m, NEW F, NEW rt, NEW lv, NEW own, Forest(a, m, F, rt, lv, own),
           NEW s \in Spaces, rt[s] # NoRoot, NEW p \in PageSet
    PROVE  /\ Gets(m, rt[s], p, Levels) =>
                /\ PtOf(m, rt[s], p) = TableAt(m, rt[s], p, Levels)
                /\ PtOf(m, rt[s], p) \in Used(F) /\ PtOf(m, rt[s], p) # NULL
                /\ Last(m, rt[s], p) = m[PtOf(m, rt[s], p)][p[Levels]]
           /\ ~Gets(m, rt[s], p, Levels) => PtOf(m, rt[s], p) = NULL
           /\ Translated(m, rt[s], p) = Seen(Last(m, rt[s], p))
<1>1. PICK r \in Used(F) : r = rt[s] /\ r \in Places /\ m \in Mems
  BY WalkTree
<1>2. Levels \in 1 .. Levels /\ Levels # 1
  BY LevelsNat
<1>3. ASSUME Gets(m, r, p, Levels)
      PROVE  /\ PtOf(m, r, p) = TableAt(m, r, p, Levels)
             /\ PtOf(m, r, p) \in Used(F) /\ PtOf(m, r, p) # NULL
             /\ Last(m, r, p) = m[PtOf(m, r, p)][p[Levels]]
  <2>1. PtOf(m, r, p) = TableAt(m, r, p, Levels)
    BY <1>2, <1>3 DEF PtOf, Gets, TableAt
  <2>2. TableAt(m, r, p, Levels) \in Used(F)
    BY <1>1, <1>2, <1>3, WalkTree
  <2>3. TableAt(m, r, p, Levels) # NULL
    BY <2>2, VmmAssumption DEF Used, NULL
  <2>4. Last(m, r, p) = m[TableAt(m, r, p, Levels)][p[Levels]]
    BY <1>1, <1>2, <1>3, WalkStep DEF Last
  <2> QED BY <2>1, <2>2, <2>3, <2>4
<1>4. ~Gets(m, r, p, Levels) => PtOf(m, r, p) = NULL
  BY <1>2 DEF PtOf, Gets
<1>5. /\ Last(m, r, p) \in Entry
      /\ Gets(m, r, p, Levels) => Last(m, r, p).kind \in {"none", "page"}
      /\ ~Gets(m, r, p, Levels) => Last(m, r, p).kind \in {"none", "block"}
  BY <1>1, LastKinds
<1>6. Translated(m, r, p) = Seen(Last(m, r, p))
  <2>1. CASE Gets(m, r, p, Levels)
    BY <1>3, <1>5, <2>1 DEF Translated, Seen
  <2>2. CASE ~Gets(m, r, p, Levels)
    <3>1. Translated(m, r, p) = None
      BY <1>4, <2>2 DEF Translated
    <3>2. Last(m, r, p).kind # "block" => Last(m, r, p) = None
      BY <1>5, <2>2, EntryFacts
    <3> QED BY <3>1, <3>2 DEF Seen
  <2> QED BY <2>1, <2>2
<1> QED BY <1>1, <1>3, <1>4, <1>6

\* vmm_unmap where there is a table for the page.
Unmaps(a, m, F, rt, lv, own, s, p, m2) ==
    /\ Forest(a, m2, F, rt, lv, own)
    /\ Kept(rt, s, m, m2)
    /\ Sets(m, rt[s], p, None, m2)
    /\ Last(m, rt[s], p).kind # "block"

\* vmm_unmap clears its page and no other.
LEMMA UnmapForest ==
    ASSUME NEW a, NEW m, NEW F, NEW rt, NEW lv, NEW own, Forest(a, m, F, rt, lv, own),
           NEW s \in Spaces, rt[s] # NoRoot, NEW p \in PageSet, PtOf(m, rt[s], p) # NULL,
           NEW m2, m2 = Put(m, PtOf(m, rt[s], p), p[Levels], None)
    PROVE  Unmaps(a, m, F, rt, lv, own, s, p, m2)
<1>1. Gets(m, rt[s], p, Levels)
  BY PtIs
<1>2. PICK t \in Used(F) : /\ t = PtOf(m, rt[s], p) /\ t = TableAt(m, rt[s], p, Levels)
                           /\ Last(m, rt[s], p) = m[t][p[Levels]]
  BY <1>1, PtIs
<1>3. PICK i \in Idx : i = p[Levels]
  BY LevelsNat DEF PageSet
<1>4. t \in Places /\ m \in Mems /\ None \in Entry /\ None.kind = "none" /\ None.user = FALSE
  BY EntryMade DEF Used, Places, Forest, Typed
<1>5. Last(m, rt[s], p).kind \in {"none", "page"}
  BY <1>1, LastKinds
<1>6. m2 = Put(m, t, i, None)
  BY <1>2, <1>3
<1>7. Writes(m, t, i, None, m2)
  <2>1. PICK e \in Entry : e = None
    BY <1>4
  <2>2. Writes(m, t, i, e, Put(m, t, i, e))
    BY <1>3, <1>4, PutWrites
  <2> QED BY <1>6, <2>1, <2>2
<1>8. m2 \in Mems /\ m2[t][i] = None /\ Differs(m, m2, F, t, i)
  BY <1>7 DEF Writes, Differs, Used, Places
<1>9. Replaces(a, m[t][i], None, Levels)
  BY <1>2, <1>3, <1>4, <1>5 DEF Replaces
<1>10. WritesLeaf(a, m, F, rt, lv, s, p, Levels, t, i, m2)
  BY <1>1, <1>2, <1>3, <1>4, <1>5, <1>8, <1>9, LevelsNat DEF WritesLeaf
<1>11. /\ Forest(a, m2, F, rt, lv, own) /\ Kept(rt, s, m, m2)
       /\ Sets(m, rt[s], p, m2[t][i], m2)
  <2>1. LeafWritten(a, m, F, rt, lv, own, s, p, Levels, t, i, m2)
    BY <1>10, WriteLeaf
  <2> QED BY <2>1 DEF LeafWritten
<1> QED BY <1>5, <1>8, <1>11 DEF Unmaps

-----------------------------------------------------------------------------
(* free_table_level.                                                       *)

Owned(F, own, s) == {t \in Used(F) : own[t] = s}

\* The tables that the tables of S refer to.
Children(m, S, k) ==
    {m[x[1]][x[2]].addr : x \in {y \in S \X Idx : has_table(m[y[1]][y[2]], k)}}

\* A child has an entry that refers to it.
LEMMA ChildrenAre ==
    ASSUME NEW m, NEW S, NEW k, NEW t
    PROVE  t \in Children(m, S, k) <=>
             \E p \in S, i \in Idx : has_table(m[p][i], k) /\ m[p][i].addr = t
<1>1. ASSUME t \in Children(m, S, k)
      PROVE  \E p \in S, i \in Idx : has_table(m[p][i], k) /\ m[p][i].addr = t
  <2>1. PICK x \in S \X Idx : has_table(m[x[1]][x[2]], k) /\ m[x[1]][x[2]].addr = t
    BY <1>1 DEF Children
  <2>2. x[1] \in S /\ x[2] \in Idx
    OBVIOUS
  <2> QED BY <2>1, <2>2
<1>2. ASSUME NEW p \in S, NEW i \in Idx, has_table(m[p][i], k), m[p][i].addr = t
      PROVE  t \in Children(m, S, k)
  <2>1. PICK x : x = <<p, i>>
    OBVIOUS
  <2>2. x \in S \X Idx /\ x[1] = p /\ x[2] = i
    BY <2>1
  <2> QED BY <1>2, <2>2 DEF Children
<1> QED BY <1>1, <1>2

\* free_table_level goes through the tables level by level.
LEMMA FreeSteps ==
    ASSUME NEW m \in Mems, NEW r \in Places
    PROVE  \E at : /\ free_table_level(m, r) = UNION {at[k] : k \in 1 .. Levels}
                   /\ at[1] = {r}
                   /\ \A k \in 2 .. Levels : at[k] = Children(m, at[k - 1], k - 1)
<1> DEFINE Eq(w) == w = [k \in 1 .. Levels |-> IF k = 1 THEN {r}
                                              ELSE Children(m, w[k - 1], k - 1)]
           X == SUBSET Places
<1>1. PICK N \in Nat : N = Levels - 1
  BY LevelsNat
<1>2. \A S \in X, k \in 1 .. N : Children(m, S, k) \in X
  <2> SUFFICES ASSUME NEW S \in X, NEW k \in 1 .. N, NEW t \in Children(m, S, k)
               PROVE  t \in Places
    OBVIOUS
  <2>1. PICK p \in S, i \in Idx : has_table(m[p][i], k) /\ m[p][i].addr = t
    BY ChildrenAre
  <2>2. m[p][i] \in Entry /\ m[p][i].kind = "table"
    BY <2>1 DEF has_table, Mems
  <2> QED BY <2>1, <2>2, EntryFacts
<1>3. PICK steps : steps = [k \in 1 .. N |-> [S \in X |-> Children(m, S, k)]]
  OBVIOUS
<1>4. steps \in [1 .. N -> [X -> X]] /\ {r} \in X
  BY <1>2, <1>3
<1>5. PICK f : Iterates(N, X, steps, {r}, f)
  <2>1. PICK x : x = {r}
    OBVIOUS
  <2> HIDE DEF X
  <2> QED BY <1>1, <1>4, <2>1, IterationExists
<1>6. /\ f \in [0 .. N -> X] /\ f[0] = {r}
      /\ \A k \in 1 .. N : f[k] = Children(m, f[k - 1], k)
  <2> HIDE DEF X
  <2>1. f \in [0 .. N -> X] /\ f[0] = {r}
    BY <1>5 DEF Iterates
  <2>2. ASSUME NEW k \in 1 .. N PROVE f[k] = Children(m, f[k - 1], k)
    <3>1. f[k] = steps[k][f[k - 1]]
      BY <1>5 DEF Iterates
    <3>2. k - 1 \in 0 .. N
      BY <1>1
    <3>3. f[k - 1] \in X
      BY <2>1, <3>2
    <3> QED BY <1>3, <3>1, <3>3
  <2> QED BY <2>1, <2>2
<1>7. PICK w : w = [k \in 1 .. Levels |-> f[k - 1]]
  OBVIOUS
<1>8. Eq(w)
  <2>1. ASSUME NEW k \in 1 .. Levels
        PROVE  w[k] = IF k = 1 THEN {r} ELSE Children(m, w[k - 1], k - 1)
    <3>1. CASE k = 1
      BY <1>6, <1>7, <3>1
    <3>2. CASE k # 1
      <4>1. k - 1 \in 1 .. N /\ k - 1 \in 1 .. Levels
        BY <1>1, <3>2, LevelsNat
      <4>2. w[k] = f[k - 1] /\ w[k - 1] = f[(k - 1) - 1]
        BY <1>7, <4>1
      <4>3. f[k - 1] = Children(m, f[(k - 1) - 1], k - 1)
        BY <1>6, <4>1
      <4> QED BY <3>2, <4>2, <4>3
    <3> QED BY <3>1, <3>2
  <2>2. w = [k \in 1 .. Levels |-> w[k]]
    BY <1>7
  <2> QED BY <2>1, <2>2
<1>9. PICK at : at = CHOOSE u : Eq(u)
  OBVIOUS
<1>10. Eq(at)
  <2> HIDE DEF Eq
  <2> QED BY <1>8, <1>9
<1>11. free_table_level(m, r) = UNION {at[k] : k \in 1 .. Levels}
  BY <1>9 DEF free_table_level, Children
<1>12. at[1] = {r} /\ \A k \in 2 .. Levels : at[k] = Children(m, at[k - 1], k - 1)
  <2>1. \A k \in 1 .. Levels : at[k] = IF k = 1 THEN {r} ELSE Children(m, at[k - 1], k - 1)
    BY <1>10
  <2>2. 1 \in 1 .. Levels /\ \A k \in 2 .. Levels : k \in 1 .. Levels /\ k # 1
    BY LevelsNat
  <2> QED BY <2>1, <2>2
<1> QED BY <1>11, <1>12

\* free_table_level finds every table of the space and no other.
LEMMA FreeIs ==
    ASSUME NEW a, NEW m, NEW F, NEW rt, NEW lv, NEW own, Forest(a, m, F, rt, lv, own),
           NEW s \in Spaces, rt[s] # NoRoot
    PROVE  free_table_level(m, rt[s]) = Owned(F, own, s)
<1>1. PICK r \in Used(F) : r = rt[s] /\ lv[r] = 1 /\ own[r] = s
  BY DEF Forest, Rooted
<1>2. r \in Places /\ m \in Mems /\ lv \in [Used(F) -> 1 .. Levels] /\ own \in [Used(F) -> Spaces]
  BY DEF Used, Places, Forest, Typed
<1>3. PICK at : /\ free_table_level(m, r) = UNION {at[k] : k \in 1 .. Levels}
                /\ at[1] = {r}
                /\ \A k \in 2 .. Levels : at[k] = Children(m, at[k - 1], k - 1)
  BY <1>2, FreeSteps
<1> DEFINE Here(k) == {t \in Used(F) : own[t] = s /\ lv[t] = k}
           G == {k \in 1 .. Levels : at[k] = Here(k)}
<1>4. PICK d \in 1 .. Levels : d = 1
  BY LevelsNat
<1>5. d \in G
  <2>1. \A t \in Used(F) : own[t] = s /\ lv[t] = 1 => t = r
    BY <1>1 DEF Forest, Reached
  <2> QED BY <1>1, <1>3, <1>4, <2>1
<1>6. ASSUME NEW k \in 2 .. Levels, k > d, k - 1 \in G PROVE k \in G
  <2>1. k \in 1 .. Levels /\ k - 1 < Levels /\ k - 1 # Levels /\ (k - 1) + 1 = k /\ k # 1
    BY LevelsNat
  <2>2. at[k] = Children(m, Here(k - 1), k - 1)
    BY <1>3, <1>6
  <2>3. ASSUME NEW t \in at[k] PROVE t \in Here(k)
    <3>1. PICK p \in Here(k - 1), i \in Idx : has_table(m[p][i], k - 1) /\ m[p][i].addr = t
      BY <2>2, <2>3, ChildrenAre
    <3>2. p \in Used(F) /\ own[p] = s /\ lv[p] = k - 1 /\ m[p][i].kind = "table"
      BY <3>1 DEF has_table
    <3>3. t \in Used(F) /\ lv[t] = lv[p] + 1 /\ own[t] = own[p]
      BY <3>1, <3>2 DEF Forest, Linked
    <3> QED BY <2>1, <3>2, <3>3
  <2>4. ASSUME NEW t \in Here(k) PROVE t \in at[k]
    <3>1. t \in Used(F) /\ own[t] = s /\ lv[t] = k
      BY <2>4
    <3>2. PICK p \in Used(F), i \in Idx : m[p][i].kind = "table" /\ m[p][i].addr = t
      BY <2>1, <3>1 DEF Forest, Reached, Refers
    <3>3. lv[t] = lv[p] + 1 /\ own[t] = own[p]
      BY <3>2 DEF Forest, Linked
    <3>4. lv[p] \in 1 .. Levels
      BY <1>2
    <3>5. p \in Here(k - 1) /\ has_table(m[p][i], k - 1)
      BY <2>1, <3>1, <3>2, <3>3, <3>4 DEF has_table
    <3> QED BY <2>2, <3>2, <3>5, ChildrenAre
  <2> QED BY <2>1, <2>3, <2>4
<1>7. \A k \in d .. Levels : k \in G
  <2> HIDE DEF G
  <2> QED BY <1>5, <1>6, LevelsDown
<1>8. \A k \in 1 .. Levels : at[k] = Here(k)
  BY <1>4, <1>7
<1>9. UNION {at[k] : k \in 1 .. Levels} = Owned(F, own, s)
  BY <1>2, <1>8 DEF Owned
<1> QED BY <1>1, <1>3, <1>9

\* Destroying a space leaves the trees of the others.
LEMMA DestroyForest ==
    ASSUME NEW a, NEW m, NEW F, NEW rt, NEW lv, NEW own, Forest(a, m, F, rt, lv, own),
           NEW s \in Spaces, rt[s] # NoRoot
    PROVE  \E lv2, own2 :
             Forest(a, m, F \cup free_table_level(m, rt[s]), [rt EXCEPT ![s] = NoRoot], lv2, own2)
<1>1. PICK F2 : F2 = F \cup Owned(F, own, s)
  OBVIOUS
<1>2. PICK rt2 : rt2 = [rt EXCEPT ![s] = NoRoot]
  OBVIOUS
<1>3. PICK lv2, own2 : lv2 = [t \in Used(F2) |-> lv[t]] /\ own2 = [t \in Used(F2) |-> own[t]]
  OBVIOUS
<1>4. /\ m \in Mems /\ F \subseteq TableFrames /\ rt \in [Spaces -> TableFrames \cup {NoRoot}]
      /\ lv \in [Used(F) -> 1 .. Levels] /\ own \in [Used(F) -> Spaces]
  BY DEF Forest, Typed
<1>5. F2 \subseteq TableFrames /\ \A t : t \in Used(F2) <=> t \in Used(F) /\ own[t] # s
  BY <1>1, <1>4 DEF Owned, Used
<1>6. /\ rt2 \in [Spaces -> TableFrames \cup {NoRoot}] /\ rt2[s] = NoRoot
      /\ \A q \in Spaces : q # s => rt2[q] = rt[q]
  BY <1>2, <1>4
<1>7. \A t \in Used(F2) : lv2[t] = lv[t] /\ own2[t] = own[t] /\ own[t] # s /\ t \in Used(F)
  BY <1>3, <1>5
<1>8. Typed(m, F2, rt2, lv2, own2)
  <2>1. lv2 \in [Used(F2) -> 1 .. Levels] /\ own2 \in [Used(F2) -> Spaces]
    BY <1>3, <1>4, <1>5
  <2> QED BY <1>4, <1>5, <1>6, <2>1 DEF Typed
<1>9. Linked(m, F2, lv2, own2)
  <2> SUFFICES ASSUME NEW t \in Used(F2), NEW i \in Idx, m[t][i].kind = "table"
               PROVE  /\ m[t][i].addr \in Used(F2)
                      /\ lv2[m[t][i].addr] = lv2[t] + 1
                      /\ own2[m[t][i].addr] = own2[t]
    BY DEF Linked
  <2>1. /\ m[t][i].addr \in Used(F) /\ lv[m[t][i].addr] = lv[t] + 1
        /\ own[m[t][i].addr] = own[t]
    BY <1>7 DEF Forest, Linked
  <2> QED BY <1>5, <1>7, <2>1
<1>10. Single(m, F2)
  BY <1>7 DEF Forest, Single
<1>11. Rooted(F2, rt2, lv2, own2)
  <2> SUFFICES ASSUME NEW q \in Spaces, rt2[q] # NoRoot
               PROVE  rt2[q] \in Used(F2) /\ lv2[rt2[q]] = 1 /\ own2[rt2[q]] = q
    BY DEF Rooted
  <2>1. q # s /\ rt2[q] = rt[q]
    BY <1>6
  <2>2. rt[q] \in Used(F) /\ lv[rt[q]] = 1 /\ own[rt[q]] = q
    BY <2>1 DEF Forest, Rooted
  <2> QED BY <1>5, <1>7, <2>1, <2>2
<1>12. Reached(m, F2, rt2, lv2, own2)
  <2> SUFFICES ASSUME NEW t \in Used(F2)
               PROVE  /\ rt2[own2[t]] # NoRoot
                      /\ lv2[t] = 1 => rt2[own2[t]] = t
                      /\ lv2[t] # 1 => \E p \in Used(F2), i \in Idx : Refers(m, p, i, t)
    BY DEF Reached
  <2>1. /\ t \in Used(F) /\ rt[own[t]] # NoRoot
        /\ lv[t] = 1 => rt[own[t]] = t
        /\ lv[t] # 1 => \E p \in Used(F), i \in Idx : Refers(m, p, i, t)
    BY <1>7 DEF Forest, Reached
  <2>2. own[t] \in Spaces /\ own[t] # s
    BY <1>4, <1>7, <2>1
  <2>3. \A p \in Used(F), i \in Idx : Refers(m, p, i, t) => p \in Used(F2)
    <3> SUFFICES ASSUME NEW p \in Used(F), NEW i \in Idx, Refers(m, p, i, t)
                 PROVE  p \in Used(F2)
      OBVIOUS
    <3>1. own[t] = own[p]
      BY DEF Refers, Forest, Linked
    <3> QED BY <1>5, <2>2, <3>1
  <2> QED BY <1>6, <1>7, <2>1, <2>2, <2>3
<1>13. Leaves(a, m, F2, lv2)
  BY <1>7 DEF Forest, Leaves
<1>14. Allowed(a, m, F2)
  BY <1>7 DEF Forest, Allowed
<1>15. Forest(a, m, F2, rt2, lv2, own2)
  BY <1>8, <1>9, <1>10, <1>11, <1>12, <1>13, <1>14 DEF Forest
<1> QED BY <1>1, <1>2, <1>15, FreeIs

-----------------------------------------------------------------------------
(* clone_table_level copies a tree.                                        *)

Lower(y, x) == Rank(y.level, y.n) < Rank(x.level, x.n)

\* Induction over the calls: a set is full that has every call whose own calls it has.
LEMMA CallInduction ==
    ASSUME NEW S,
           \A x \in CloneCall : (\A y \in CloneCall : Lower(y, x) => y \in S) => x \in S
    PROVE  \A x \in CloneCall : x \in S
<1> DEFINE Bad == {y \in CloneCall : y \notin S}
           T == {Rank(y.level, y.n) : y \in Bad}
<1>1. ASSUME Bad # {} PROVE FALSE
  <2>1. T \in SUBSET Nat /\ T # {}
    BY <1>1, CallFacts, RankFacts
  <2>2. PICK y \in Bad : \A z \in Bad : Rank(y.level, y.n) <= Rank(z.level, z.n)
    <3>1. PICK m \in T : \A n \in T : m <= n
      <4> HIDE DEF T
      <4> QED BY <2>1, LeastNat
    <3>2. PICK y \in Bad : m = Rank(y.level, y.n)
      <4> HIDE DEF Bad
      <4> QED OBVIOUS
    <3> HIDE DEF Bad
    <3> QED BY <3>1, <3>2
  <2>3. \A z \in CloneCall : Lower(z, y) => z \in S
    <3> SUFFICES ASSUME NEW z \in CloneCall, Lower(z, y), z \notin S PROVE FALSE
      OBVIOUS
    <3>1. Rank(y.level, y.n) <= Rank(z.level, z.n)
      BY <2>2
    <3>2. Rank(y.level, y.n) \in Int /\ Rank(z.level, z.n) \in Int
      BY CallFacts, RankFacts
    <3> QED BY <3>1, <3>2 DEF Lower
  <2> QED BY <2>3
<1> QED BY <1>1

\* The calls that a call makes.
LEMMA CallsLower ==
    ASSUME NEW x \in CloneCall, x.n # 0
    PROVE  /\ Prev(x) \in CloneCall /\ Lower(Prev(x), x)
           /\ \A r \in TableState : ~clone_leaf(r.mem[x.src][x.n - 1], x.level) =>
                Below(r, x) \in CloneCall /\ Lower(Below(r, x), x)
<1>1. Prev(x) \in CloneCall /\ Lower(Prev(x), x)
  BY CallFacts, RankFacts DEF Lower
<1>2. ASSUME NEW r \in TableState, ~clone_leaf(r.mem[x.src][x.n - 1], x.level)
      PROVE  Below(r, x) \in CloneCall /\ Lower(Below(r, x), x)
  <2>1. /\ Below(r, x) \in CloneCall /\ x.level # Levels
        /\ Below(r, x).level = x.level + 1 /\ Below(r, x).n = Entries
    BY <1>2, BelowFacts
  <2> QED BY <2>1, CallFacts, RankFacts DEF Lower
<1> QED BY <1>1, <1>2

\* What a call makes of the state, by the entry that it comes to last.
CloneCases(x, r, e, R) ==
    \/ e.kind = "none" /\ R = r
    \/ e.kind # "none" /\ clone_leaf(e, x.level) /\ R = PutIn(r, x.dst, x.n - 1, e)
    \/ /\ e.kind = "table" /\ ~clone_leaf(e, x.level) /\ Below(r, x) \in CloneCall
       /\ R = PutIn(clone_table_level[Below(r, x)], x.dst, x.n - 1,
                    Table(alloc_table(r).t, e.user))

\* A clone, entry by entry.
LEMMA CloneIs ==
    ASSUME NEW x \in CloneCall
    PROVE  /\ x.n = 0 => clone_table_level[x] = x.st
           /\ x.n # 0 => LET r == clone_table_level[Prev(x)]
                         IN  CloneCases(x, r, r.mem[x.src][x.n - 1], clone_table_level[x])
<1>1. clone_table_level[x] = CloneBody(clone_table_level, x)
  BY CloneTyped
<1>2. CASE x.n = 0
  BY <1>1, <1>2 DEF CloneBody
<1>3. CASE x.n # 0
  <2>1. PICK r \in TableState : r = clone_table_level[Prev(x)]
    BY <1>3, CallsLower, CloneTyped
  <2>2. PICK e \in Entry : e = r.mem[x.src][x.n - 1]
    BY <1>3, BelowFacts
  <2>3. ~clone_leaf(e, x.level) => e.kind = "table" /\ Below(r, x) \in CloneCall
    BY <1>3, <2>2, BelowFacts
  <2>4. CASE e.kind = "none"
    BY <1>1, <1>3, <2>1, <2>2, <2>4 DEF CloneBody, CloneCases
  <2>5. CASE e.kind # "none" /\ clone_leaf(e, x.level)
    BY <1>1, <1>3, <2>1, <2>2, <2>5 DEF CloneBody, CloneCases, PutIn
  <2>6. CASE e.kind # "none" /\ ~clone_leaf(e, x.level)
    BY <1>1, <1>3, <2>1, <2>2, <2>3, <2>6 DEF CloneBody, CloneCases, PutIn
  <2> QED BY <2>4, <2>5, <2>6
<1> QED BY <1>2, <1>3

\* A clone only takes frames.
LEMMA CloneShrinks ==
    \A x \in CloneCall : clone_table_level[x].free \subseteq x.st.free
<1> DEFINE S == {x \in CloneCall : clone_table_level[x].free \subseteq x.st.free}
<1>1. ASSUME NEW x \in CloneCall, \A y \in CloneCall : Lower(y, x) => y \in S
      PROVE  x \in S
  <2>1. CASE x.n = 0
    BY <2>1, CloneIs
  <2>2. CASE x.n # 0
    <3>1. PICK r \in TableState : r = clone_table_level[Prev(x)] /\ r.free \subseteq x.st.free
      <4>1. Prev(x) \in CloneCall /\ Prev(x) \in S
        BY <1>1, <2>2, CallsLower
      <4>2. Prev(x).st = x.st
        BY <2>2, CallFacts
      <4> QED BY <4>1, <4>2, CloneTyped
    <3>2. PICK e \in Entry : e = r.mem[x.src][x.n - 1]
      BY <2>2, BelowFacts
    <3>3. PICK R \in TableState : R = clone_table_level[x]
      BY CloneTyped
    <3>4. CloneCases(x, r, e, R)
      BY <2>2, <3>1, <3>2, <3>3, CloneIs
    <3>5. PICK d \in Places, i \in Idx : d = x.dst /\ i = x.n - 1
      BY <2>2, CallFacts
    <3>6. CASE e.kind = "none" /\ R = r
      BY <3>1, <3>3, <3>6
    <3>7. CASE R = PutIn(r, x.dst, x.n - 1, e)
      <4>1. R = [mem |-> Put(r.mem, d, i, e), free |-> r.free]
        BY <3>2, <3>5, <3>7, PutState
      <4>2. R.free = r.free
        BY <4>1
      <4> QED BY <3>1, <3>3, <4>2
    <3>8. CASE /\ e.kind = "table" /\ ~clone_leaf(e, x.level) /\ Below(r, x) \in CloneCall
               /\ R = PutIn(clone_table_level[Below(r, x)], x.dst, x.n - 1,
                            Table(alloc_table(r).t, e.user))
      <4>1. PICK c \in TableState : c = clone_table_level[Below(r, x)]
        BY <3>8, CloneTyped
      <4>2. PICK f \in Entry : f = Table(alloc_table(r).t, e.user)
        BY AllocIs, EntryMade, EntryFacts
      <4>3. R = [mem |-> Put(c.mem, d, i, f), free |-> c.free]
        BY <3>5, <3>8, <4>1, <4>2, PutState
      <4>4. Lower(Below(r, x), x)
        BY <2>2, <3>2, <3>8, CallsLower
      <4>5. c.free \subseteq Below(r, x).st.free
        BY <1>1, <3>8, <4>1, <4>4
      <4>6. Below(r, x).st.free \subseteq r.free
        BY AllocIs DEF Below
      <4>7. R.free = c.free
        BY <4>3
      <4> QED BY <3>1, <3>3, <4>5, <4>6, <4>7
    <3> QED BY <3>4, <3>6, <3>7, <3>8 DEF CloneCases
  <2> QED BY <2>1, <2>2
<1>2. \A x \in CloneCall : x \in S
  <2> HIDE DEF S
  <2> QED BY <1>1, CallInduction
<1> QED BY <1>2

\* The copy of an entry: a table below has a copy of its own, h says of what.
SameEntry(e, e2, N, dst, h) ==
    IF e.kind = "table"
    THEN /\ e2.kind = "table" /\ e2.user = e.user
         /\ e2.addr \in N /\ e2.addr # dst /\ h[e2.addr] = e.addr
    ELSE e2 = e

\* The tables N are copies in M of tables of m0: dst of the first n entries of
\* src, the others whole, each with a table that refers to it.
Copied(m0, U, N, h, M, dst, src, n) ==
    /\ h \in [N -> U] /\ dst \in N /\ h[dst] = src
    /\ \A y \in N, i \in Idx :
         IF y = dst /\ i >= n THEN M[y][i] = None
         ELSE SameEntry(m0[h[y]][i], M[y][i], N, dst, h)
    /\ \A y \in N : y # dst => \E p \in N, i \in Idx : Refers(M, p, i, y)

\* A zeroed frame is a copy of no entry.
LEMMA CopyStart ==
    ASSUME NEW m0, NEW U, NEW M, NEW dst, NEW src \in U, M[dst] = Zeroed
    PROVE  \E h : Copied(m0, U, {dst}, h, M, dst, src, 0)
<1>1. PICK h : h = [y \in {dst} |-> src]
  OBVIOUS
<1>2. \A i \in Idx : i >= 0 /\ M[dst][i] = None
  BY VmmAssumption DEF Idx, Zeroed
<1>3. Copied(m0, U, {dst}, h, M, dst, src, 0)
  BY <1>1, <1>2 DEF Copied
<1> QED BY <1>3

\* Copying a leaf.
LEMMA CopyLeaf ==
    ASSUME NEW m0, NEW U, NEW N, NEW h, NEW M, NEW dst, NEW src, NEW i \in Idx,
           Copied(m0, U, N, h, M, dst, src, i), m0[src][i].kind # "table",
           NEW M2, M2[dst][i] = m0[src][i],
           \A y \in N, j \in Idx : y # dst \/ j # i => M2[y][j] = M[y][j]
    PROVE  Copied(m0, U, N, h, M2, dst, src, i + 1)
<1>1. \A j \in Idx : j \in Int /\ (j >= i + 1 <=> j >= i /\ j # i)
  BY VmmAssumption DEF Idx
<1>2. h \in [N -> U] /\ dst \in N /\ h[dst] = src
  BY DEF Copied
<1>3. ASSUME NEW y \in N, NEW j \in Idx
      PROVE  IF y = dst /\ j >= i + 1 THEN M2[y][j] = None
             ELSE SameEntry(m0[h[y]][j], M2[y][j], N, dst, h)
  <2>1. CASE y = dst /\ j = i
    <3>1. ~(j >= i + 1)
      BY <1>1, <2>1
    <3> QED BY <1>2, <2>1, <3>1 DEF SameEntry
  <2>2. CASE y # dst \/ j # i
    <3>1. M2[y][j] = M[y][j]
      BY <2>2
    <3>2. y = dst /\ j >= i + 1 <=> y = dst /\ j >= i
      BY <1>1, <2>2
    <3> QED BY <3>1, <3>2 DEF Copied
  <2> QED BY <2>1, <2>2
<1>4. ASSUME NEW y \in N, y # dst PROVE \E p \in N, j \in Idx : Refers(M2, p, j, y)
  <2>1. PICK p \in N, j \in Idx : Refers(M, p, j, y)
    BY <1>4 DEF Copied
  <2>2. p # dst \/ j # i
    <3> SUFFICES ASSUME p = dst, j = i PROVE FALSE
      OBVIOUS
    <3>1. i >= i
      BY <1>1
    <3>2. M[dst][i] = None
      BY <1>2, <3>1 DEF Copied
    <3> QED BY <2>1, <3>2, EntryMade DEF Refers
  <2>3. M2[p][j] = M[p][j]
    BY <2>2
  <2> QED BY <2>1, <2>3 DEF Refers
<1> QED BY <1>2, <1>3, <1>4 DEF Copied

\* A copy s2 -> d2 is hung on the entry.
Joins(m0, U, N1, h1, M1, dst, src, i, N2, h2, M2, d2, s2, M3) ==
    /\ i \in Idx
    /\ Copied(m0, U, N1, h1, M1, dst, src, i)
    /\ Copied(m0, U, N2, h2, M2, d2, s2, Entries)
    /\ N1 \cap N2 = {}
    /\ m0[src][i].kind = "table" /\ m0[src][i].addr = s2
    /\ M3[dst][i].kind = "table" /\ M3[dst][i].addr = d2 /\ M3[dst][i].user = m0[src][i].user
    /\ \A y \in N1, j \in Idx : y # dst \/ j # i => M3[y][j] = M1[y][j]
    /\ \A y \in N2 : M3[y] = M2[y]

\* Copying a table below.
LEMMA CopyTable ==
    ASSUME NEW m0, NEW U, NEW N1, NEW h1, NEW M1, NEW dst, NEW src, NEW i,
           NEW N2, NEW h2, NEW M2, NEW d2, NEW s2, NEW M3,
           Joins(m0, U, N1, h1, M1, dst, src, i, N2, h2, M2, d2, s2, M3)
    PROVE  \E h : Copied(m0, U, N1 \cup N2, h, M3, dst, src, i + 1)
<1>0. i \in Idx /\ N1 \cap N2 = {}
  BY DEF Joins
<1>1. \A j \in Idx : j \in Int /\ (j >= i + 1 <=> j >= i /\ j # i) /\ ~(j >= Entries)
  BY <1>0, VmmAssumption DEF Idx
<1>2. /\ h1 \in [N1 -> U] /\ dst \in N1 /\ h1[dst] = src
      /\ h2 \in [N2 -> U] /\ d2 \in N2 /\ h2[d2] = s2
  BY DEF Copied, Joins
<1>3. PICK h : h = [y \in N1 \cup N2 |-> IF y \in N1 THEN h1[y] ELSE h2[y]]
  OBVIOUS
<1>4. /\ h \in [N1 \cup N2 -> U]
      /\ \A y \in N1 : h[y] = h1[y]
      /\ \A y \in N2 : h[y] = h2[y] /\ y # dst
  BY <1>0, <1>2, <1>3
<1>5. ASSUME NEW y \in N1 \cup N2, NEW j \in Idx
      PROVE  IF y = dst /\ j >= i + 1 THEN M3[y][j] = None
             ELSE SameEntry(m0[h[y]][j], M3[y][j], N1 \cup N2, dst, h)
  <2>1. CASE y = dst /\ j = i
    <3>1. ~(j >= i + 1)
      BY <1>1, <2>1
    <3>2. /\ M3[dst][i].kind = "table" /\ M3[dst][i].addr = d2
          /\ M3[dst][i].user = m0[src][i].user
          /\ m0[src][i].kind = "table" /\ m0[src][i].addr = s2
      BY DEF Joins
    <3>3. h[dst] = src /\ d2 \in N1 \cup N2 /\ d2 # dst /\ h[d2] = s2
      BY <1>2, <1>4
    <3>4. SameEntry(m0[src][i], M3[dst][i], N1 \cup N2, dst, h)
      BY <3>2, <3>3 DEF SameEntry
    <3> QED BY <2>1, <3>1, <3>3, <3>4
  <2>2. CASE y \in N1 /\ (y # dst \/ j # i)
    <3>1. M3[y][j] = M1[y][j]
      BY <2>2 DEF Joins
    <3>2. y = dst /\ j >= i + 1 <=> y = dst /\ j >= i
      BY <1>1, <2>2
    <3>3. IF y = dst /\ j >= i THEN M1[y][j] = None
          ELSE SameEntry(m0[h1[y]][j], M1[y][j], N1, dst, h1)
      BY <2>2 DEF Copied, Joins
    <3>4. SameEntry(m0[h1[y]][j], M1[y][j], N1, dst, h1)
            => SameEntry(m0[h[y]][j], M3[y][j], N1 \cup N2, dst, h)
      BY <1>4, <2>2, <3>1 DEF SameEntry
    <3> QED BY <3>1, <3>2, <3>3, <3>4
  <2>3. CASE y \in N2
    <3>1. M3[y] = M2[y] /\ y # dst
      BY <1>4, <2>3 DEF Joins
    <3>2. SameEntry(m0[h2[y]][j], M2[y][j], N2, d2, h2)
      BY <1>1, <2>3 DEF Copied, Joins
    <3>3. SameEntry(m0[h[y]][j], M3[y][j], N1 \cup N2, dst, h)
      BY <1>4, <2>3, <3>1, <3>2 DEF SameEntry
    <3> QED BY <3>1, <3>3
  <2> QED BY <2>1, <2>2, <2>3
<1>6. ASSUME NEW y \in N1 \cup N2, y # dst
      PROVE  \E p \in N1 \cup N2, j \in Idx : Refers(M3, p, j, y)
  <2>1. CASE y \in N1
    <3>1. PICK p \in N1, j \in Idx : Refers(M1, p, j, y)
      BY <1>6, <2>1 DEF Copied, Joins
    <3>2. p # dst \/ j # i
      <4> SUFFICES ASSUME p = dst, j = i PROVE FALSE
        OBVIOUS
      <4>1. i >= i
        BY <1>0, <1>1
      <4>2. M1[dst][i] = None
        BY <1>0, <1>2, <4>1 DEF Copied, Joins
      <4> QED BY <3>1, <4>2, EntryMade DEF Refers
    <3>3. M3[p][j] = M1[p][j]
      BY <3>1, <3>2 DEF Joins
    <3>4. Refers(M3, p, j, y)
      BY <3>1, <3>3 DEF Refers
    <3> QED BY <3>1, <3>4
  <2>2. CASE y \in N2 /\ y = d2
    <3>1. Refers(M3, dst, i, d2)
      BY DEF Refers, Joins
    <3> QED BY <1>0, <1>2, <2>2, <3>1
  <2>3. CASE y \in N2 /\ y # d2
    <3>1. PICK p \in N2, j \in Idx : Refers(M2, p, j, y)
      BY <2>3 DEF Copied, Joins
    <3>2. M3[p][j] = M2[p][j]
      BY <3>1 DEF Joins
    <3>3. Refers(M3, p, j, y)
      BY <3>1, <3>2 DEF Refers
    <3> QED BY <3>1, <3>3
  <2> QED BY <2>1, <2>2, <2>3
<1>7. Copied(m0, U, N1 \cup N2, h, M3, dst, src, i + 1)
  <2>1. h[dst] = src /\ dst \in N1 \cup N2
    BY <1>2, <1>4
  <2> QED BY <1>4, <1>5, <1>6, <2>1 DEF Copied
<1> QED BY <1>7

\* The tables U of m0 refer to tables of U one level below.
Tree(m0, U, lv) ==
    /\ m0 \in Mems /\ U \subseteq TableFrames /\ lv \in [U -> 1 .. Levels]
    /\ \A t \in U, i \in Idx : m0[t][i].kind = "table" =>
         m0[t][i].addr \in U /\ lv[m0[t][i].addr] = lv[t] + 1

\* A call in a state where these tables are as they were and dst is new.
ClonePre(m0, U, lv, x) ==
    /\ x.src \in U /\ lv[x.src] = x.level
    /\ x.dst \in TableFrames /\ x.dst \notin U /\ x.dst \notin x.st.free
    /\ U \cap x.st.free = {}
    /\ \A t \in U : x.st.mem[t] = m0[t]
    /\ x.st.mem[x.dst] = Zeroed

New(x, R) == {x.dst} \cup (x.st.free \ R.free)

ClonePost(m0, U, x, R) ==
    /\ \A t \in Places : t \notin New(x, R) => R.mem[t] = x.st.mem[t]
    /\ \E h : Copied(m0, U, New(x, R), h, R.mem, x.dst, x.src, x.n)

\* One entry of a clone, given what the calls it makes do.
LEMMA CloneStep ==
    ASSUME NEW m0, NEW U, NEW lv, Tree(m0, U, lv), NEW x \in CloneCall, x.n # 0,
           ClonePre(m0, U, lv, x), NEW R, R = clone_table_level[x], R.free # {},
           \A y \in CloneCall :
             Lower(y, x) /\ ClonePre(m0, U, lv, y) /\ clone_table_level[y].free # {}
               => ClonePost(m0, U, y, clone_table_level[y])
    PROVE  ClonePost(m0, U, x, R)
<1>1. PICK r \in TableState : r = clone_table_level[Prev(x)]
  BY CallsLower, CloneTyped
<1>2. PICK y \in CloneCall : /\ y = Prev(x) /\ y.st = x.st /\ y.src = x.src /\ y.dst = x.dst
                             /\ y.level = x.level /\ y.n = x.n - 1
  BY CallFacts
<1>3. PICK d \in Places, i \in Idx, n \in Int : d = x.dst /\ i = x.n - 1 /\ n = x.n /\ n = i + 1
  <2>1. x.dst \in Places /\ x.n - 1 \in Idx /\ x.n \in Int /\ x.n = (x.n - 1) + 1
    BY CallFacts, VmmAssumption
  <2> QED BY <2>1
<1>4. ClonePre(m0, U, lv, y)
  BY <1>2 DEF ClonePre
<1>5. PICK src, st : src = x.src /\ st = x.st /\ st \in TableState
  BY CallFacts
<1>6. /\ src \in U /\ lv[src] = x.level /\ d \in TableFrames /\ d \notin U /\ d \notin st.free
      /\ U \cap st.free = {} /\ U \subseteq TableFrames /\ U \subseteq Places
  BY <1>3, <1>5 DEF ClonePre, Tree, Places
<1>7. r.free \subseteq st.free
  BY <1>1, <1>2, <1>5, CloneShrinks
\* What the earlier entries gave.
<1>8. ASSUME r.free # {}
      PROVE  /\ r.mem[src] = m0[src]
             /\ \A t \in Places : t \notin {d} \cup (st.free \ r.free) => r.mem[t] = st.mem[t]
             /\ \A t \in U : r.mem[t] = m0[t]
             /\ \E h : Copied(m0, U, {d} \cup (st.free \ r.free), h, r.mem, d, src, i)
  <2>1. ClonePost(m0, U, y, r)
    BY <1>1, <1>2, <1>4, <1>8, CallsLower
  <2>2. New(y, r) = {d} \cup (st.free \ r.free)
    BY <1>2, <1>3, <1>5 DEF New
  <2>3. /\ \A t \in Places : t \notin {d} \cup (st.free \ r.free) => r.mem[t] = st.mem[t]
        /\ \E h : Copied(m0, U, {d} \cup (st.free \ r.free), h, r.mem, d, src, i)
    BY <1>2, <1>3, <1>5, <2>1, <2>2 DEF ClonePost
  <2>4. ASSUME NEW t \in U PROVE r.mem[t] = m0[t]
    <3>1. t \in Places /\ t \notin {d} \cup (st.free \ r.free)
      BY <1>6
    <3>2. st.mem[t] = m0[t]
      BY <1>5 DEF ClonePre
    <3> QED BY <2>3, <3>1, <3>2
  <2> QED BY <1>6, <2>3, <2>4
<1>9. PICK e \in Entry : e = r.mem[x.src][x.n - 1]
  BY BelowFacts
<1>10. CloneCases(x, r, e, R)
  BY <1>1, <1>9, CloneIs
<1>11. r.mem \in Mems
  BY DEF TableState, Mems
<1>a. CASE (e.kind = "none" /\ R = r) \/ (e.kind # "none" /\ clone_leaf(e, x.level) /\ R = PutIn(r, x.dst, x.n - 1, e))
  <2>1. R.free = r.free /\ (e.kind = "none" => R.mem = r.mem)
        /\ (e.kind # "none" => R.mem = Put(r.mem, d, i, e))
    <3>1. PutIn(r, d, i, e) = [mem |-> Put(r.mem, d, i, e), free |-> r.free]
      BY <1>3, <1>9, PutState
    <3> QED BY <1>a, <1>3, <3>1
  <2>2. r.mem[src] = m0[src] /\ e = m0[src][i]
    BY <1>3, <1>5, <1>8, <1>9, <2>1
  <2>3. e.kind # "table"
    <3> SUFFICES ASSUME e.kind = "table" PROVE FALSE
      OBVIOUS
    <3>1. x.level = Levels
      BY <1>a DEF clone_leaf
    <3>2. m0[src][i].addr \in U /\ lv[m0[src][i].addr] = lv[src] + 1
      BY <1>3, <1>6, <2>2 DEF Tree
    <3>3. lv[m0[src][i].addr] \in 1 .. Levels
      BY <3>2 DEF Tree
    <3> QED BY <1>6, <3>1, <3>2, <3>3, LevelsNat
  <2>4. PICK N : N = {d} \cup (st.free \ r.free)
    OBVIOUS
  <2>5. PICK h : Copied(m0, U, N, h, r.mem, d, src, i)
    BY <1>8, <2>1, <2>4
  <2>6. /\ R.mem[d][i] = e
        /\ \A t \in Places, j \in Idx : t # d \/ j # i => R.mem[t][j] = r.mem[t][j]
        /\ \A t \in Places : t # d => R.mem[t] = r.mem[t]
    <3>1. CASE e.kind = "none"
      <4>1. i >= i /\ d \in N
        BY <1>3, <2>4, VmmAssumption DEF Idx
      <4>2. r.mem[d][i] = None
        BY <1>3, <2>5, <4>1 DEF Copied
      <4>3. e = None
        BY <1>9, <3>1, EntryFacts
      <4> QED BY <2>1, <3>1, <4>2, <4>3
    <3>2. CASE e.kind # "none"
      <4>1. Writes(r.mem, d, i, e, Put(r.mem, d, i, e))
        BY <1>3, <1>9, <1>11, PutWrites
      <4> QED BY <2>1, <3>2, <4>1 DEF Writes
    <3> QED BY <3>1, <3>2
  <2>7. N \subseteq Places
    BY <1>3, <1>5, <2>4 DEF TableState, Places
  <2>8. Copied(m0, U, N, h, R.mem, d, src, i + 1)
    <3>1. \A t \in N, j \in Idx : t # d \/ j # i => R.mem[t][j] = r.mem[t][j]
      BY <2>6, <2>7
    <3>2. R.mem[d][i] = m0[src][i] /\ m0[src][i].kind # "table"
      BY <2>2, <2>3, <2>6
    <3> QED BY <1>3, <2>5, <3>1, <3>2, CopyLeaf
  <2>9. New(x, R) = N
    BY <1>3, <1>5, <2>1, <2>4 DEF New
  <2>10. \A t \in Places : t \notin N => R.mem[t] = st.mem[t]
    BY <1>8, <2>1, <2>4, <2>6
  <2> QED BY <1>3, <1>5, <2>8, <2>9, <2>10 DEF ClonePost
<1>b. CASE /\ e.kind = "table" /\ ~clone_leaf(e, x.level) /\ Below(r, x) \in CloneCall
           /\ R = PutIn(clone_table_level[Below(r, x)], x.dst, x.n - 1,
                        Table(alloc_table(r).t, e.user))
  <2>1. PICK z \in CloneCall : z = Below(r, x)
    BY <1>b
  <2>2. PICK c \in TableState : c = clone_table_level[z]
    BY CloneTyped
  <2>3. PICK f \in Places : f = alloc_table(r).t
    BY AllocIs
  <2>4. PICK e2 \in Entry : e2 = Table(f, e.user) /\ e2.kind = "table" /\ e2.addr = f /\ e2.user = e.user
    BY <2>3, EntryMade, EntryFacts
  <2>5. R = [mem |-> Put(c.mem, d, i, e2), free |-> c.free]
    <3>1. R = PutIn(c, d, i, e2)
      BY <1>b, <1>3, <2>1, <2>2, <2>3, <2>4
    <3> QED BY <1>3, <2>2, <2>4, <3>1, PutState
  <2>6. R.free = c.free /\ R.mem = Put(c.mem, d, i, e2)
    BY <2>5
  <2>7. /\ z.level = x.level + 1 /\ z.n = Entries /\ z.st = alloc_table(r).st
        /\ z.src = e.addr /\ z.dst = f /\ Lower(z, x)
    <3>1. Lower(z, x)
      BY <1>b, <1>9, <2>1, CallsLower
    <3>2. z = [level |-> x.level + 1, n |-> Entries, st |-> alloc_table(r).st,
               src |-> e.addr, dst |-> f]
      BY <1>9, <2>1, <2>3 DEF Below
    <3> QED BY <3>1, <3>2
  <2>8. c.free \subseteq z.st.free /\ z.st.free = r.free \ {f}
    BY <2>2, <2>3, <2>7, CloneShrinks, AllocIs
  <2>9. r.free # {} /\ f \in r.free /\ c.free # {}
    <3>1. c.free # {}
      BY <2>6
    <3>2. r.free # {}
      BY <2>8, <3>1
    <3> QED BY <2>3, <3>1, <3>2, AllocIs
  <2>10. /\ z.st.mem[f] = Zeroed /\ \A t \in Places : t # f => z.st.mem[t] = r.mem[t]
    BY <2>3, <2>7, AllocIs
  <2>11. e = m0[src][i] /\ (\A t \in U : r.mem[t] = m0[t])
    BY <1>3, <1>5, <1>8, <1>9, <2>9
  <2>12. ClonePre(m0, U, lv, z)
    <3>1. m0[src][i].addr \in U /\ lv[m0[src][i].addr] = lv[src] + 1
      BY <1>b, <1>3, <1>6, <2>11 DEF Tree
    <3>2. f \in TableFrames /\ f \notin U /\ f \notin z.st.free /\ U \cap z.st.free = {}
      BY <1>5, <1>6, <1>7, <2>8, <2>9 DEF TableState
    <3>3. \A t \in U : z.st.mem[t] = m0[t]
      BY <1>6, <2>10, <2>11, <3>2
    <3> QED BY <1>6, <2>7, <2>10, <2>11, <3>1, <3>2, <3>3 DEF ClonePre
  <2>13. ClonePost(m0, U, z, c)
    BY <2>2, <2>7, <2>9, <2>12
  <2>14. PICK N1, N2 : N1 = {d} \cup (st.free \ r.free) /\ N2 = New(z, c)
    OBVIOUS
  <2>15. PICK h1 : Copied(m0, U, N1, h1, r.mem, d, src, i)
    BY <1>8, <2>9, <2>14
  <2>16. PICK h2 : Copied(m0, U, N2, h2, c.mem, f, e.addr, Entries)
    BY <2>7, <2>13, <2>14 DEF ClonePost
  <2>17. /\ N1 \cap N2 = {} /\ New(x, R) = N1 \cup N2 /\ d \notin N2
         /\ N1 \subseteq Places /\ N2 \subseteq Places
    <3>1. N2 = {f} \cup ((r.free \ {f}) \ c.free)
      BY <2>7, <2>8, <2>14 DEF New
    <3>2. New(x, R) = {d} \cup (st.free \ c.free)
      BY <1>3, <1>5, <2>6 DEF New
    <3>3. c.free \subseteq r.free /\ f \notin c.free
      BY <2>8
    <3>4. N2 = r.free \ c.free
      BY <2>9, <3>1, <3>3
    <3>5. st.free \subseteq TableFrames
      BY <1>5 DEF TableState
    <3> QED BY <1>6, <1>7, <2>14, <3>2, <3>3, <3>4, <3>5 DEF Places
  <2>18. \A t \in Places : t \notin N2 => c.mem[t] = r.mem[t]
    <3>1. f \in N2
      BY <2>7, <2>14 DEF New
    <3> QED BY <2>10, <2>13, <2>14, <3>1 DEF ClonePost
  <2>19. PICK M3 : M3 = R.mem /\ Writes(c.mem, d, i, e2, M3)
    <3>1. c.mem \in Mems
      BY <2>2 DEF TableState, Mems
    <3>2. Writes(c.mem, d, i, e2, Put(c.mem, d, i, e2))
      BY <1>3, <2>4, <3>1, PutWrites
    <3> QED BY <2>6, <3>2
  <2>20. Joins(m0, U, N1, h1, r.mem, d, src, i, N2, h2, c.mem, f, e.addr, M3)
    <3>1. M3[d][i].kind = "table" /\ M3[d][i].addr = f /\ M3[d][i].user = e.user
      BY <2>4, <2>19 DEF Writes
    <3>2. \A t \in N1, j \in Idx : t # d \/ j # i => M3[t][j] = r.mem[t][j]
      <4> SUFFICES ASSUME NEW t \in N1, NEW j \in Idx, t # d \/ j # i
                   PROVE  M3[t][j] = r.mem[t][j]
        OBVIOUS
      <4>1. t \in Places /\ t \notin N2
        BY <2>17
      <4>2. M3[t][j] = c.mem[t][j]
        BY <2>19, <4>1 DEF Writes
      <4> QED BY <2>18, <4>1, <4>2
    <3>3. \A t \in N2 : M3[t] = c.mem[t]
      BY <2>17, <2>19 DEF Writes
    <3> QED BY <1>b, <1>3, <2>11, <2>15, <2>16, <2>17, <3>1, <3>2, <3>3 DEF Joins
  <2>21. \E h : Copied(m0, U, N1 \cup N2, h, M3, d, src, i + 1)
    BY <2>20, CopyTable
  <2>22. \A t \in Places : t \notin N1 \cup N2 => M3[t] = st.mem[t]
    <3> SUFFICES ASSUME NEW t \in Places, t \notin N1 \cup N2 PROVE M3[t] = st.mem[t]
      OBVIOUS
    <3>1. t # d /\ t \notin N2 /\ t \notin {d} \cup (st.free \ r.free)
      BY <2>14
    <3>2. M3[t] = c.mem[t]
      BY <2>19, <3>1 DEF Writes
    <3> QED BY <1>8, <2>9, <2>18, <3>1, <3>2
  <2> QED BY <1>3, <1>5, <2>17, <2>19, <2>21, <2>22 DEF ClonePost
<1> QED BY <1>10, <1>a, <1>b DEF CloneCases

\* clone_table_level, as long as there are frames.
LEMMA CloneCopies ==
    ASSUME NEW m0, NEW U, NEW lv, Tree(m0, U, lv)
    PROVE  \A x \in CloneCall : ClonePre(m0, U, lv, x) /\ clone_table_level[x].free # {}
             => ClonePost(m0, U, x, clone_table_level[x])
<1> DEFINE S == {x \in CloneCall : ClonePre(m0, U, lv, x) /\ clone_table_level[x].free # {}
                                     => ClonePost(m0, U, x, clone_table_level[x])}
<1>1. ASSUME NEW x \in CloneCall, \A y \in CloneCall : Lower(y, x) => y \in S
      PROVE  x \in S
  <2> SUFFICES ASSUME ClonePre(m0, U, lv, x), clone_table_level[x].free # {}
               PROVE  ClonePost(m0, U, x, clone_table_level[x])
    OBVIOUS
  <2>1. CASE x.n = 0
    <3>1. clone_table_level[x] = x.st
      BY <2>1, CloneIs
    <3>2. New(x, x.st) = {x.dst}
      BY DEF New
    <3>3. \E h : Copied(m0, U, {x.dst}, h, x.st.mem, x.dst, x.src, 0)
      BY CopyStart DEF ClonePre
    <3> QED BY <2>1, <3>1, <3>2, <3>3 DEF ClonePost
  <2>2. CASE x.n # 0
    <3>1. \A y \in CloneCall :
             Lower(y, x) /\ ClonePre(m0, U, lv, y) /\ clone_table_level[y].free # {}
               => ClonePost(m0, U, y, clone_table_level[y])
      BY <1>1
    <3> QED BY <2>2, <3>1, CloneStep
  <2> QED BY <2>1, <2>2
<1>2. \A x \in CloneCall : x \in S
  <2> HIDE DEF S
  <2> QED BY <1>1, CallInduction
<1> QED BY <1>2

\* M holds the forest of m0 and in the frames that left F a copy of the kernel's
\* tree, with its root in f.
Grafts(a, m0, F, rt, lv, own, s, F2, h, M, f) ==
    /\ Forest(a, m0, F, rt, lv, own)
    /\ s \in Spaces /\ rt[s] = NoRoot /\ Kernel \in Spaces /\ rt[Kernel] # NoRoot
    /\ F2 \subseteq F /\ M \in Mems
    /\ \A t \in Used(F) : M[t] = m0[t]
    /\ Copied(m0, Used(F), F \ F2, h, M, f, rt[Kernel], Entries)

\* What the copies N are, table by table and entry by entry.
GraftParts(m0, F, rt, lv, F2, h, M, f, N) ==
    /\ h \in [N -> Used(F)] /\ f \in N /\ h[f] = rt[Kernel] /\ f \in TableFrames
    /\ \A y \in N, i \in Idx : SameEntry(m0[h[y]][i], M[y][i], N, f, h)
    /\ \A y \in N : y # f => \E p \in N, i \in Idx : Refers(M, p, i, y)
    /\ \A y \in N, i \in Idx : M[y][i].kind = "table" =>
         /\ m0[h[y]][i].kind = "table" /\ M[y][i].addr \in N
         /\ h[M[y][i].addr] = m0[h[y]][i].addr /\ M[y][i].user = m0[h[y]][i].user
         /\ lv[h[M[y][i].addr]] = lv[h[y]] + 1
    /\ \A t : t \in Used(F2) <=> t \in Used(F) \/ t \in N
    /\ N \cap Used(F) = {}

\* The facts of a graft.
LEMMA GraftFacts ==
    ASSUME NEW a, NEW m0, NEW F, NEW rt, NEW lv, NEW own, NEW s, NEW F2, NEW h, NEW M, NEW f,
           NEW N, N = F \ F2, Grafts(a, m0, F, rt, lv, own, s, F2, h, M, f)
    PROVE  GraftParts(m0, F, rt, lv, F2, h, M, f, N)
<1>1. /\ Forest(a, m0, F, rt, lv, own) /\ F2 \subseteq F /\ F \subseteq TableFrames
      /\ Copied(m0, Used(F), N, h, M, f, rt[Kernel], Entries)
  BY DEF Grafts, Forest, Typed
<1>2. h \in [N -> Used(F)] /\ f \in N /\ h[f] = rt[Kernel] /\ f \in TableFrames
  BY <1>1 DEF Copied
<1>3. \A i \in Idx : ~(i >= Entries)
  BY VmmAssumption DEF Idx
<1>4. \A y \in N, i \in Idx : SameEntry(m0[h[y]][i], M[y][i], N, f, h)
  BY <1>1, <1>3 DEF Copied
<1>5. \A y \in N : y # f => \E p \in N, i \in Idx : Refers(M, p, i, y)
  BY <1>1 DEF Copied
<1>6. ASSUME NEW y \in N, NEW i \in Idx, M[y][i].kind = "table"
      PROVE  /\ m0[h[y]][i].kind = "table" /\ M[y][i].addr \in N
             /\ h[M[y][i].addr] = m0[h[y]][i].addr /\ M[y][i].user = m0[h[y]][i].user
             /\ lv[h[M[y][i].addr]] = lv[h[y]] + 1
  <2>1. /\ m0[h[y]][i].kind = "table" /\ M[y][i].addr \in N
        /\ h[M[y][i].addr] = m0[h[y]][i].addr /\ M[y][i].user = m0[h[y]][i].user
    BY <1>4, <1>6 DEF SameEntry
  <2>2. h[y] \in Used(F)
    BY <1>2
  <2>3. lv[m0[h[y]][i].addr] = lv[h[y]] + 1
    BY <1>1, <2>1, <2>2 DEF Forest, Linked
  <2> QED BY <2>1, <2>3
<1>7. N \cap Used(F) = {} /\ \A t : t \in Used(F2) <=> t \in Used(F) \/ t \in N
  BY <1>1 DEF Used
<1> QED BY <1>2, <1>4, <1>5, <1>6, <1>7 DEF GraftParts

\* No table is copied twice, and only f is a root.
CopiedOnce(N, h, lv, f) ==
    /\ \A y \in N, z \in N : h[y] = h[z] => y = z
    /\ lv[h[f]] = 1
    /\ \A y \in N : lv[h[y]] = 1 => y = f

\* Two copies are copies of two tables.
LEMMA GraftInjective ==
    ASSUME NEW a, NEW m0, NEW F, NEW rt, NEW lv, NEW own, NEW s, NEW F2, NEW h, NEW M, NEW f,
           NEW N, N = F \ F2, Grafts(a, m0, F, rt, lv, own, s, F2, h, M, f)
    PROVE  CopiedOnce(N, h, lv, f)
<1>0. GraftParts(m0, F, rt, lv, F2, h, M, f, N)
  BY GraftFacts
<1>1. /\ h \in [N -> Used(F)] /\ f \in N /\ h[f] = rt[Kernel]
      /\ \A y \in N : y # f => \E p \in N, i \in Idx : Refers(M, p, i, y)
  BY <1>0 DEF GraftParts
<1>2. \A y \in N, i \in Idx : M[y][i].kind = "table" =>
                /\ m0[h[y]][i].kind = "table" /\ M[y][i].addr \in N
                /\ h[M[y][i].addr] = m0[h[y]][i].addr
                /\ lv[h[M[y][i].addr]] = lv[h[y]] + 1
  BY <1>0 DEF GraftParts
<1>3. Forest(a, m0, F, rt, lv, own) /\ lv \in [Used(F) -> 1 .. Levels]
  BY DEF Grafts, Forest, Typed
<1>4. lv[h[f]] = 1
  BY <1>1, <1>3 DEF Grafts, Forest, Rooted
<1>5. \A y \in N : lv[h[y]] \in 1 .. Levels
  BY <1>1, <1>3
<1>6. ASSUME NEW y \in N, y # f
      PROVE  \E p \in N, i \in Idx : /\ M[p][i].kind = "table" /\ M[p][i].addr = y
                                     /\ m0[h[p]][i].kind = "table" /\ h[y] = m0[h[p]][i].addr
                                     /\ lv[h[y]] = lv[h[p]] + 1
  <2>1. PICK p \in N, i \in Idx : M[p][i].kind = "table" /\ M[p][i].addr = y
    BY <1>1, <1>6 DEF Refers
  <2> QED BY <1>2, <2>1
<1>7. \A y \in N : lv[h[y]] = 1 => y = f
  <2> SUFFICES ASSUME NEW y \in N, lv[h[y]] = 1, y # f PROVE FALSE
    OBVIOUS
  <2>1. PICK p \in N : lv[h[y]] = lv[h[p]] + 1
    BY <1>6
  <2> QED BY <1>5, <2>1, LevelsNat
<1> DEFINE G == {k \in 1 .. Levels : \A y \in N, z \in N : lv[h[y]] = k /\ h[y] = h[z] => y = z}
<1>8. PICK d \in 1 .. Levels : d = 1
  BY LevelsNat
<1>9. d \in G
  BY <1>7, <1>8
<1>10. ASSUME NEW k \in 2 .. Levels, k > d, k - 1 \in G PROVE k \in G
  <2>1. k \in 1 .. Levels /\ k # 1
    BY LevelsNat
  <2>2. ASSUME NEW y \in N, NEW z \in N, lv[h[y]] = k, h[y] = h[z] PROVE y = z
    <3>1. y # f /\ z # f
      BY <1>4, <2>1, <2>2
    <3>2. PICK p \in N, i \in Idx : /\ M[p][i].kind = "table" /\ M[p][i].addr = y
                                    /\ m0[h[p]][i].kind = "table" /\ h[y] = m0[h[p]][i].addr
                                    /\ lv[h[y]] = lv[h[p]] + 1
      BY <1>6, <3>1
    <3>3. PICK q \in N, j \in Idx : /\ M[q][j].kind = "table" /\ M[q][j].addr = z
                                    /\ m0[h[q]][j].kind = "table" /\ h[z] = m0[h[q]][j].addr
                                    /\ lv[h[z]] = lv[h[q]] + 1
      BY <1>6, <3>1
    <3>4. h[p] = h[q] /\ i = j
      <4>1. h[p] \in Used(F) /\ h[q] \in Used(F) /\ m0[h[p]][i].addr = m0[h[q]][j].addr
        BY <1>1, <2>2, <3>2, <3>3
      <4> QED BY <1>3, <3>2, <3>3, <4>1 DEF Forest, Single
    <3>5. lv[h[p]] = k - 1
      BY <1>5, <2>2, <3>2, LevelsNat
    <3>6. p = q
      BY <1>10, <3>4, <3>5
    <3> QED BY <3>2, <3>3, <3>4, <3>6
  <2> QED BY <2>1, <2>2
<1>11. \A k \in d .. Levels : k \in G
  <2> HIDE DEF G
  <2> QED BY <1>9, <1>10, LevelsDown
<1>12. \A k \in 1 .. Levels : k \in d .. Levels
  BY <1>8
<1>13. \A y \in N, z \in N : h[y] = h[z] => y = z
  BY <1>5, <1>11, <1>12
<1> QED BY <1>4, <1>7, <1>13 DEF CopiedOnce

\* With the copy as the tree of a new space the tables are a forest.
LEMMA GraftForest ==
    ASSUME NEW a, NEW m0, NEW F, NEW rt, NEW lv, NEW own, NEW s, NEW F2, NEW h, NEW M, NEW f,
           Grafts(a, m0, F, rt, lv, own, s, F2, h, M, f)
    PROVE  \E lv2, own2 : Forest(a, M, F2, [rt EXCEPT ![s] = f], lv2, own2)
<1>1. PICK N : N = F \ F2
  OBVIOUS
<1>2. /\ h \in [N -> Used(F)] /\ f \in N /\ h[f] = rt[Kernel] /\ f \in TableFrames
      /\ \A y \in N, i \in Idx : SameEntry(m0[h[y]][i], M[y][i], N, f, h)
      /\ \A y \in N : y # f => \E p \in N, i \in Idx : Refers(M, p, i, y)
      /\ \A y \in N, i \in Idx : M[y][i].kind = "table" =>
                /\ m0[h[y]][i].kind = "table" /\ M[y][i].addr \in N
                /\ h[M[y][i].addr] = m0[h[y]][i].addr /\ M[y][i].user = m0[h[y]][i].user
                /\ lv[h[M[y][i].addr]] = lv[h[y]] + 1
      /\ \A t : t \in Used(F2) <=> t \in Used(F) \/ t \in N
      /\ N \cap Used(F) = {}
  <2>1. GraftParts(m0, F, rt, lv, F2, h, M, f, N)
    BY <1>1, GraftFacts
  <2> QED BY <2>1 DEF GraftParts
<1>3. /\ \A y \in N, z \in N : h[y] = h[z] => y = z
      /\ lv[h[f]] = 1
      /\ \A y \in N : lv[h[y]] = 1 => y = f
  <2>1. CopiedOnce(N, h, lv, f)
    BY <1>1, GraftInjective
  <2> QED BY <2>1 DEF CopiedOnce
<1>4. /\ Forest(a, m0, F, rt, lv, own) /\ s \in Spaces /\ rt[s] = NoRoot
      /\ F2 \subseteq F /\ M \in Mems /\ \A t \in Used(F) : M[t] = m0[t]
  BY DEF Grafts
<1>5. /\ m0 \in Mems /\ F \subseteq TableFrames /\ rt \in [Spaces -> TableFrames \cup {NoRoot}]
      /\ lv \in [Used(F) -> 1 .. Levels] /\ own \in [Used(F) -> Spaces]
  BY <1>4 DEF Forest, Typed
<1>6. PICK rt2 : rt2 = [rt EXCEPT ![s] = f]
  OBVIOUS
<1>7. PICK lv2, own2 : /\ lv2 = [t \in Used(F2) |-> IF t \in N THEN lv[h[t]] ELSE lv[t]]
                       /\ own2 = [t \in Used(F2) |-> IF t \in N THEN s ELSE own[t]]
  OBVIOUS
<1>8. /\ rt2 \in [Spaces -> TableFrames \cup {NoRoot}] /\ rt2[s] = f /\ f # NoRoot
      /\ \A q \in Spaces : q # s => rt2[q] = rt[q]
  BY <1>2, <1>4, <1>5, <1>6, VmmAssumption DEF NoRoot
<1>9. /\ \A t \in N : t \in Used(F2) /\ lv2[t] = lv[h[t]] /\ own2[t] = s
      /\ \A t \in Used(F) : t \in Used(F2) /\ lv2[t] = lv[t] /\ own2[t] = own[t]
  BY <1>2, <1>7
<1>10. Typed(M, F2, rt2, lv2, own2)
  <2>1. lv2 \in [Used(F2) -> 1 .. Levels] /\ own2 \in [Used(F2) -> Spaces]
    BY <1>2, <1>4, <1>5, <1>7
  <2> QED BY <1>4, <1>5, <1>8, <2>1 DEF Typed
<1>11. Linked(M, F2, lv2, own2)
  <2> SUFFICES ASSUME NEW t \in Used(F2), NEW i \in Idx, M[t][i].kind = "table"
               PROVE  /\ M[t][i].addr \in Used(F2)
                      /\ lv2[M[t][i].addr] = lv2[t] + 1
                      /\ own2[M[t][i].addr] = own2[t]
    BY DEF Linked
  <2>1. CASE t \in N
    BY <1>2, <1>9, <2>1
  <2>2. CASE t \in Used(F)
    <3>1. m0[t][i].kind = "table" /\ M[t][i] = m0[t][i]
      BY <1>4, <2>2
    <3>2. /\ m0[t][i].addr \in Used(F) /\ lv[m0[t][i].addr] = lv[t] + 1
          /\ own[m0[t][i].addr] = own[t]
      BY <1>4, <2>2, <3>1 DEF Forest, Linked
    <3> QED BY <1>9, <2>2, <3>1, <3>2
  <2> QED BY <1>2, <2>1, <2>2
<1>12. Single(M, F2)
  <2> SUFFICES ASSUME NEW t \in Used(F2), NEW u \in Used(F2), NEW i \in Idx, NEW j \in Idx,
                      M[t][i].kind = "table", M[u][j].kind = "table",
                      M[t][i].addr = M[u][j].addr
               PROVE  t = u /\ i = j
    BY DEF Single
  <2>1. \A y \in Used(F), k \in Idx : M[y][k].kind = "table" =>
          m0[y][k].kind = "table" /\ M[y][k].addr = m0[y][k].addr /\ M[y][k].addr \in Used(F)
    BY <1>4 DEF Forest, Linked
  <2>2. CASE t \in N /\ u \in N
    <3>1. /\ h[t] \in Used(F) /\ h[u] \in Used(F) /\ m0[h[t]][i].kind = "table"
          /\ m0[h[u]][j].kind = "table" /\ m0[h[t]][i].addr = m0[h[u]][j].addr
      BY <1>2, <2>2
    <3>2. h[t] = h[u] /\ i = j
      BY <1>4, <3>1 DEF Forest, Single
    <3> QED BY <1>3, <2>2, <3>2
  <2>3. CASE t \in Used(F) /\ u \in Used(F)
    BY <1>4, <2>1, <2>3 DEF Forest, Single
  <2>4. CASE t \in N /\ u \in Used(F)
    BY <1>2, <2>1, <2>4
  <2>5. CASE t \in Used(F) /\ u \in N
    BY <1>2, <2>1, <2>5
  <2> QED BY <1>2, <2>2, <2>3, <2>4, <2>5
<1>13. Rooted(F2, rt2, lv2, own2)
  <2> SUFFICES ASSUME NEW q \in Spaces, rt2[q] # NoRoot
               PROVE  rt2[q] \in Used(F2) /\ lv2[rt2[q]] = 1 /\ own2[rt2[q]] = q
    BY DEF Rooted
  <2>1. CASE q = s
    BY <1>2, <1>3, <1>8, <1>9, <2>1
  <2>2. CASE q # s
    <3>1. rt2[q] = rt[q] /\ rt[q] \in Used(F) /\ lv[rt[q]] = 1 /\ own[rt[q]] = q
      BY <1>4, <1>8, <2>2 DEF Forest, Rooted
    <3> QED BY <1>9, <3>1
  <2> QED BY <2>1, <2>2
<1>14. Reached(M, F2, rt2, lv2, own2)
  <2> SUFFICES ASSUME NEW t \in Used(F2)
               PROVE  /\ rt2[own2[t]] # NoRoot
                      /\ lv2[t] = 1 => rt2[own2[t]] = t
                      /\ lv2[t] # 1 => \E p \in Used(F2), i \in Idx : Refers(M, p, i, t)
    BY DEF Reached
  <2>1. CASE t \in N
    <3>1. t # f => \E p \in Used(F2), i \in Idx : Refers(M, p, i, t)
      BY <1>2, <2>1
    <3> QED BY <1>3, <1>8, <1>9, <2>1, <3>1
  <2>2. CASE t \in Used(F)
    <3>1. /\ rt[own[t]] # NoRoot
          /\ lv[t] = 1 => rt[own[t]] = t
          /\ lv[t] # 1 => \E p \in Used(F), i \in Idx : Refers(m0, p, i, t)
      BY <1>4, <2>2 DEF Forest, Reached
    <3>2. own[t] \in Spaces /\ own[t] # s /\ rt2[own[t]] = rt[own[t]]
      BY <1>4, <1>5, <1>8, <2>2, <3>1
    <3>3. lv[t] # 1 => \E p \in Used(F2), i \in Idx : Refers(M, p, i, t)
      <4> SUFFICES ASSUME lv[t] # 1 PROVE \E p \in Used(F2), i \in Idx : Refers(M, p, i, t)
        OBVIOUS
      <4>1. PICK p \in Used(F), i \in Idx : m0[p][i].kind = "table" /\ m0[p][i].addr = t
        BY <3>1 DEF Refers
      <4>2. M[p][i] = m0[p][i] /\ p \in Used(F2)
        BY <1>4, <1>9, <4>1
      <4> QED BY <4>1, <4>2 DEF Refers
    <3> QED BY <1>9, <2>2, <3>1, <3>2, <3>3
  <2> QED BY <1>2, <2>1, <2>2
<1>15. Leaves(a, M, F2, lv2)
  <2> SUFFICES ASSUME NEW t \in Used(F2), NEW i \in Idx
               PROVE  /\ M[t][i].kind = "page" => lv2[t] = Levels
                      /\ M[t][i].kind = "block" =>
                           lv2[t] # Levels /\ (a = "x86_64" => lv2[t] = Levels - 1)
    BY DEF Leaves
  <2>1. CASE t \in N
    <3>1. M[t][i].kind # "table" => M[t][i] = m0[h[t]][i]
      BY <1>2, <2>1 DEF SameEntry
    <3>2. h[t] \in Used(F)
      BY <1>2, <2>1
    <3>3. /\ m0[h[t]][i].kind = "page" => lv[h[t]] = Levels
          /\ m0[h[t]][i].kind = "block" =>
               lv[h[t]] # Levels /\ (a = "x86_64" => lv[h[t]] = Levels - 1)
      BY <1>4, <3>2 DEF Forest, Leaves
    <3> QED BY <1>9, <2>1, <3>1, <3>3
  <2>2. CASE t \in Used(F)
    BY <1>4, <1>9, <2>2 DEF Forest, Leaves
  <2> QED BY <1>2, <2>1, <2>2
<1>16. Allowed(a, M, F2)
  <2> SUFFICES ASSUME NEW p \in Used(F2), NEW i \in Idx, M[p][i].kind = "table"
               PROVE  /\ a = "aarch64" => M[p][i].user
                      /\ \A j \in Idx : M[M[p][i].addr][j].user => M[p][i].user
    BY DEF Allowed
  <2>1. CASE p \in N
    <3>1. PICK y \in N : y = M[p][i].addr /\ h[y] = m0[h[p]][i].addr
      BY <1>2, <2>1
    <3>2. h[p] \in Used(F) /\ m0[h[p]][i].kind = "table" /\ M[p][i].user = m0[h[p]][i].user
      BY <1>2, <2>1
    <3>3. \A j \in Idx : M[y][j].user = m0[h[y]][j].user
      BY <1>2, <3>1 DEF SameEntry
    <3>4. /\ a = "aarch64" => m0[h[p]][i].user
          /\ \A j \in Idx : m0[m0[h[p]][i].addr][j].user => m0[h[p]][i].user
      BY <1>4, <3>2 DEF Forest, Allowed
    <3> QED BY <3>1, <3>2, <3>3, <3>4
  <2>2. CASE p \in Used(F)
    <3>1. M[p][i] = m0[p][i] /\ m0[p][i].kind = "table"
      BY <1>4, <2>2
    <3>2. m0[p][i].addr \in Used(F)
      BY <1>4, <2>2, <3>1 DEF Forest, Linked
    <3>3. M[m0[p][i].addr] = m0[m0[p][i].addr]
      BY <1>4, <3>2
    <3> QED BY <1>4, <2>2, <3>1, <3>3 DEF Forest, Allowed
  <2> QED BY <1>2, <2>1, <2>2
<1>17. Forest(a, M, F2, rt2, lv2, own2)
  BY <1>10, <1>11, <1>12, <1>13, <1>14, <1>15, <1>16 DEF Forest
<1> QED BY <1>6, <1>17

\* The pages of the copy are those of the kernel.
LEMMA GraftWalk ==
    ASSUME NEW a, NEW m0, NEW F, NEW rt, NEW lv, NEW own, NEW s, NEW F2, NEW h, NEW M, NEW f,
           Grafts(a, m0, F, rt, lv, own, s, F2, h, M, f), NEW p \in PageSet
    PROVE  Last(M, f, p) = Last(m0, rt[Kernel], p)
<1>1. PICK N : N = F \ F2
  OBVIOUS
<1>2. /\ h \in [N -> Used(F)] /\ f \in N /\ h[f] = rt[Kernel] /\ f \in TableFrames
      /\ \A y \in N, i \in Idx : SameEntry(m0[h[y]][i], M[y][i], N, f, h)
  <2>1. GraftParts(m0, F, rt, lv, F2, h, M, f, N)
    BY <1>1, GraftFacts
  <2> QED BY <2>1 DEF GraftParts
<1>3. /\ Forest(a, m0, F, rt, lv, own) /\ Kernel \in Spaces /\ rt[Kernel] # NoRoot
      /\ M \in Mems
  BY DEF Grafts
<1>4. PICK r \in Places : r = rt[Kernel] /\ r \in Used(F) /\ m0 \in Mems
  BY <1>3, WalkTree
<1>5. f \in Places
  BY <1>2 DEF Places
<1> DEFINE w == Walk(M, f, p)
           w0 == Walk(m0, r, p)
           G == {k \in 1 .. Levels : SameEntry(w0[k], w[k], N, f, h)}
<1>6. PICK d \in 1 .. Levels : d = 1
  BY LevelsNat
<1>7. d \in G
  <2>1. w[1] = M[f][p[1]] /\ w0[1] = m0[r][p[1]]
    BY <1>3, <1>4, <1>5, WalkIs
  <2>2. p[d] \in Idx
    BY DEF PageSet
  <2> QED BY <1>2, <1>4, <1>6, <2>1, <2>2
<1>8. ASSUME NEW k \in 2 .. Levels, k > d, k - 1 \in G PROVE k \in G
  <2>1. w[k] = Step(M, p, k, w[k - 1]) /\ w0[k] = Step(m0, p, k, w0[k - 1])
    BY <1>3, <1>4, <1>5, WalkIs
  <2>2. k \in 1 .. Levels /\ p[k] \in Idx
    BY LevelsNat DEF PageSet
  <2>3. SameEntry(w0[k - 1], w[k - 1], N, f, h)
    BY <1>8
  <2>4. CASE w0[k - 1].kind = "table"
    <3>1. PICK y \in N : y = w[k - 1].addr /\ h[y] = w0[k - 1].addr /\ w[k - 1].kind = "table"
      BY <2>3, <2>4 DEF SameEntry
    <3>2. w[k] = M[y][p[k]] /\ w0[k] = m0[h[y]][p[k]]
      BY <2>1, <2>4, <3>1 DEF Step
    <3> QED BY <1>2, <2>2, <3>1, <3>2
  <2>5. CASE w0[k - 1].kind # "table"
    <3>1. w[k] = w[k - 1] /\ w0[k] = w0[k - 1] /\ w[k - 1] = w0[k - 1]
      BY <2>1, <2>3, <2>5 DEF Step, SameEntry
    <3> QED BY <2>2, <2>3, <3>1
  <2> QED BY <2>4, <2>5
<1>9. \A k \in d .. Levels : k \in G
  <2> HIDE DEF G
  <2> QED BY <1>7, <1>8, LevelsDown
<1>10. Levels \in d .. Levels
  BY <1>6, LevelsNat
<1>11. SameEntry(w0[Levels], w[Levels], N, f, h)
  BY <1>9, <1>10
<1>12. Last(m0, r, p).kind # "table"
  BY <1>3, <1>4, LastKinds
<1> QED BY <1>4, <1>11, <1>12 DEF Last, SameEntry

\* vmm_create_address_space, as long as there are frames.
CloneOf(st, rt) ==
    clone_table_level[[level |-> 1, n |-> Entries, st |-> alloc_table(st).st,
                       src |-> rt[Kernel], dst |-> alloc_table(st).t]]

Clones(st, rt, s, R) ==
    /\ R \in TableState
    /\ \E lv, own : Forest(mmu, R.mem, R.free, [rt EXCEPT ![s] = alloc_table(st).t], lv, own)
    /\ Kept(rt, s, st.mem, R.mem)
    /\ \A p \in PageSet : Last(R.mem, alloc_table(st).t, p) = Last(st.mem, rt[Kernel], p)
    /\ alloc_table(st).t # NoRoot

\* A new space has a tree of its own with the pages of the kernel.
LEMMA CreateForest ==
    ASSUME NEW st \in TableState, NEW rt, NEW lv, NEW own,
           Forest(mmu, st.mem, st.free, rt, lv, own), NEW s \in Spaces, rt[s] = NoRoot,
           rt[Kernel] # NoRoot, CloneOf(st, rt).free # {}
    PROVE  Clones(st, rt, s, CloneOf(st, rt))
<1>1. PICK f \in Places : f = alloc_table(st).t
  BY AllocIs
<1>2. PICK m0, F : m0 = st.mem /\ F = st.free
  OBVIOUS
<1>3. Forest(mmu, m0, F, rt, lv, own) /\ m0 \in Mems /\ F \subseteq TableFrames
  BY <1>2 DEF Forest, Typed
<1>4. PICK K \in Used(F) : K = rt[Kernel] /\ lv[K] = 1 /\ K \in Places /\ Kernel \in Spaces
  BY <1>3, VmmAssumption DEF Forest, Rooted, Used, Places
<1>5. PICK x : x = [level |-> 1, n |-> Entries, st |-> alloc_table(st).st, src |-> K, dst |-> f]
  OBVIOUS
<1>6. x \in CloneCall
  <2>1. 1 \in 1 .. Levels /\ Entries \in 0 .. Entries
    BY VmmAssumption, LevelsNat
  <2>2. alloc_table(st).st \in TableState
    BY AllocIs
  <2> QED BY <1>1, <1>4, <1>5, <2>1, <2>2 DEF CloneCall
<1>7. PICK R \in TableState : R = clone_table_level[x]
  BY <1>6, CloneTyped
<1>8. R = CloneOf(st, rt) /\ R.free # {}
  BY <1>1, <1>4, <1>5, <1>7 DEF CloneOf
<1>9. /\ x.level = 1 /\ x.n = Entries /\ x.src = K /\ x.dst = f
      /\ x.st.free = F \ {f} /\ x.st.mem[f] = Zeroed
      /\ \A t \in Places : t # f => x.st.mem[t] = m0[t]
  BY <1>1, <1>2, <1>5, AllocIs
<1>10. R.free \subseteq F \ {f}
  BY <1>6, <1>7, <1>9, CloneShrinks
<1>11. f \in F /\ f \in TableFrames /\ f \notin Used(F)
  <2>1. F # {}
    BY <1>8, <1>10
  <2> QED BY <1>1, <1>2, <1>3, <2>1, AllocIs DEF Used
<1>12. Tree(m0, Used(F), lv)
  <2>1. Used(F) \subseteq TableFrames /\ lv \in [Used(F) -> 1 .. Levels]
    BY <1>3 DEF Used, Forest, Typed
  <2> QED BY <1>3, <2>1 DEF Tree, Forest, Linked
<1>13. ClonePre(m0, Used(F), lv, x)
  <2>1. Used(F) \cap x.st.free = {} /\ f \notin x.st.free
    BY <1>9 DEF Used
  <2>2. \A t \in Used(F) : x.st.mem[t] = m0[t]
    BY <1>9, <1>11 DEF Used, Places
  <2> QED BY <1>4, <1>9, <1>11, <2>1, <2>2 DEF ClonePre
<1>14. ClonePost(m0, Used(F), x, R)
  BY <1>6, <1>7, <1>8, <1>12, <1>13, CloneCopies
<1>15. New(x, R) = F \ R.free
  BY <1>9, <1>10, <1>11 DEF New
<1>16. PICK h : Copied(m0, Used(F), F \ R.free, h, R.mem, f, rt[Kernel], Entries)
  BY <1>4, <1>9, <1>14, <1>15 DEF ClonePost
<1>17. \A t \in Used(F) : R.mem[t] = m0[t]
  <2> SUFFICES ASSUME NEW t \in Used(F) PROVE R.mem[t] = m0[t]
    OBVIOUS
  <2>1. t \in Places /\ t \notin F \ R.free /\ t # f
    BY <1>11 DEF Used, Places
  <2> QED BY <1>9, <1>14, <1>15, <2>1 DEF ClonePost
<1>18. R.mem \in Mems
  BY <1>7 DEF TableState, Mems
<1>19. Grafts(mmu, m0, F, rt, lv, own, s, R.free, h, R.mem, f)
  BY <1>3, <1>4, <1>10, <1>16, <1>17, <1>18 DEF Grafts
<1>20. \E lv2, own2 : Forest(mmu, R.mem, R.free, [rt EXCEPT ![s] = f], lv2, own2)
  BY <1>19, GraftForest
<1>21. \A p \in PageSet : Last(R.mem, f, p) = Last(m0, rt[Kernel], p)
  BY <1>19, GraftWalk
<1>22. Kept(rt, s, m0, R.mem)
  <2> SUFFICES ASSUME NEW q \in Spaces, rt[q] # NoRoot, NEW p \in PageSet
               PROVE  Last(R.mem, rt[q], p) = Last(m0, rt[q], p)
    BY DEF Kept
  <2>1. \A t \in Used(F) : own[t] = q => R.mem[t] = m0[t]
    BY <1>17
  <2>2. Walk(R.mem, rt[q], p) = Walk(m0, rt[q], p)
    BY <1>3, <1>18, <2>1, WalkSame
  <2> QED BY <2>2 DEF Last
<1>23. f # NoRoot
  BY <1>11, VmmAssumption DEF NoRoot
<1>24. Clones(st, rt, s, R)
  BY <1>1, <1>2, <1>7, <1>20, <1>21, <1>22, <1>23 DEF Clones
<1> QED BY <1>8, <1>24

-----------------------------------------------------------------------------
(* The boot maps.                                                          *)

BootRoots == [s \in Spaces |-> IF s = Kernel THEN BootTables[1] ELSE NoRoot]

\* A table at each level but the last, the lowest full of blocks.
LEMMA BootChain ==
    ASSUME NEW k \in 1 .. Levels - 1, NEW i \in Idx
    PROVE  LET e == setup_page_tables[BootTables[k]][i]
           IN  /\ e \in Entry /\ e.user = FALSE /\ e.kind # "page"
               /\ e.kind = "block" => k = Levels - 1
               /\ e.kind = "table" => k + 1 \in 1 .. Levels - 1 /\ i = 0 /\ e.addr = BootTables[k + 1]
               /\ k # Levels - 1 /\ i = 0 => e.kind = "table"
<1>1. BootTables[k] \in TableFrames /\ BootTables[k] \in Places /\ k \in Nat /\ Levels \in Nat
  BY VmmAssumption DEF Places
<1>2. \A j \in 1 .. Levels - 1 : BootTables[j] = BootTables[k] => j = k
  BY VmmAssumption
<1>3. (CHOOSE j \in 1 .. Levels - 1 : BootTables[j] = BootTables[k]) = k
  <2>1. PICK j : j = CHOOSE l \in 1 .. Levels - 1 : BootTables[l] = BootTables[k]
    OBVIOUS
  <2>2. j \in 1 .. Levels - 1 /\ BootTables[j] = BootTables[k]
    BY <2>1
  <2> QED BY <1>2, <2>1, <2>2
<1>4. setup_page_tables[BootTables[k]] =
        IF k = Levels - 1 THEN [j \in Idx |-> Huge]
        ELSE [Zeroed EXCEPT ![0] = Table(BootTables[k + 1], FALSE)]
  BY <1>1, <1>3 DEF setup_page_tables
<1>5. CASE k = Levels - 1
  <2>1. setup_page_tables[BootTables[k]][i] = Huge
    BY <1>4, <1>5
  <2> QED BY <1>5, <2>1, EntryMade
<1>6. CASE k # Levels - 1
  <2>1. k + 1 \in 1 .. Levels - 1 /\ BootTables[k + 1] \in Places
    BY <1>1, <1>6, VmmAssumption DEF Places
  <2>2. PICK n \in Entry : n = Table(BootTables[k + 1], FALSE) /\ n.kind = "table"
                           /\ n.user = FALSE /\ n.addr = BootTables[k + 1]
    BY <2>1, EntryMade
  <2>3. setup_page_tables[BootTables[k]][i] = IF i = 0 THEN n ELSE None
    BY <1>4, <1>6, <2>2 DEF Zeroed
  <2> QED BY <1>6, <2>1, <2>2, <2>3, EntryMade
<1> QED BY <1>5, <1>6

\* The boot map of x86_64 is a forest, the tree of the kernel.
LEMMA BootX86 ==
    ASSUME NEW F, F = TableFrames \ {BootTables[k] : k \in 1 .. Levels - 1}
    PROVE  \E lv, own : Forest("x86_64", setup_page_tables, F, BootRoots, lv, own)
<1>1. PICK m : m = setup_page_tables
  OBVIOUS
<1>2. \A k \in 1 .. Levels - 1, i \in Idx :
        LET e == m[BootTables[k]][i]
        IN  /\ e \in Entry /\ e.user = FALSE /\ e.kind # "page"
            /\ e.kind = "block" => k = Levels - 1
            /\ e.kind = "table" => k + 1 \in 1 .. Levels - 1 /\ i = 0 /\ e.addr = BootTables[k + 1]
            /\ k # Levels - 1 /\ i = 0 => e.kind = "table"
  BY <1>1, BootChain
<1>3. /\ \A t : t \in Used(F) <=> \E k \in 1 .. Levels - 1 : t = BootTables[k]
      /\ \A k \in 1 .. Levels - 1 : BootTables[k] \in TableFrames /\ BootTables[k] \in Used(F)
      /\ \A j, k \in 1 .. Levels - 1 : BootTables[j] = BootTables[k] => j = k
  BY VmmAssumption DEF Used
<1>4. PICK lv, own : /\ lv = [t \in Used(F) |-> CHOOSE k \in 1 .. Levels - 1 : t = BootTables[k]]
                     /\ own = [t \in Used(F) |-> Kernel]
  OBVIOUS
<1>5. ASSUME NEW t \in Used(F)
      PROVE  lv[t] \in 1 .. Levels - 1 /\ t = BootTables[lv[t]] /\ own[t] = Kernel
  BY <1>3, <1>4
<1>6. \A k \in 1 .. Levels - 1 : lv[BootTables[k]] = k
  BY <1>3, <1>5
<1>7. /\ 1 \in 1 .. Levels - 1 /\ Levels \in Nat /\ Levels - 1 # Levels /\ Levels - 1 \in 1 .. Levels
      /\ \A k \in 1 .. Levels - 1 : k \in 1 .. Levels /\ k # Levels /\ k \in Nat
  BY LevelsNat
<1>8. 0 \in Idx /\ Kernel \in Spaces
  BY VmmAssumption DEF Idx
<1>9. Typed(m, F, BootRoots, lv, own)
  <2>1. m \in Mems
    <3>1. m = [f \in Places |-> m[f]]
      BY <1>1 DEF setup_page_tables
    <3>2. ASSUME NEW f \in Places PROVE m[f] \in [Idx -> Entry]
      <4>1. CASE \E k \in 1 .. Levels - 1 : BootTables[k] = f
        <5>1. PICK k \in 1 .. Levels - 1 : BootTables[k] = f
          BY <4>1
        <5>2. \A i \in Idx : m[f][i] \in Entry
          BY <1>2, <5>1
        <5>3. m[f] = [i \in Idx |-> m[f][i]]
          <6>1. PICK j : j = CHOOSE l \in 1 .. Levels - 1 : BootTables[l] = f
            OBVIOUS
          <6>2. m[f] = IF j = Levels - 1 THEN [i \in Idx |-> Huge]
                       ELSE [Zeroed EXCEPT ![0] = Table(BootTables[j + 1], FALSE)]
            BY <1>1, <4>1, <6>1 DEF setup_page_tables
          <6> QED BY <6>2 DEF Zeroed
        <5> QED BY <5>2, <5>3
      <4>2. CASE ~\E k \in 1 .. Levels - 1 : BootTables[k] = f
        <5>1. m[f] = Zeroed
          BY <1>1, <4>2 DEF setup_page_tables
        <5> QED BY <5>1, EntryMade DEF Zeroed
      <4> QED BY <4>1, <4>2
    <3> QED BY <3>1, <3>2 DEF Mems
  <2>2. BootRoots \in [Spaces -> TableFrames \cup {NoRoot}]
    BY <1>3, <1>7 DEF BootRoots
  <2>3. lv \in [Used(F) -> 1 .. Levels] /\ own \in [Used(F) -> Spaces]
    BY <1>4, <1>5, <1>7, <1>8
  <2> QED BY <2>1, <2>2, <2>3 DEF Typed
<1>10. Linked(m, F, lv, own)
  <2> SUFFICES ASSUME NEW t \in Used(F), NEW i \in Idx, m[t][i].kind = "table"
               PROVE  /\ m[t][i].addr \in Used(F)
                      /\ lv[m[t][i].addr] = lv[t] + 1
                      /\ own[m[t][i].addr] = own[t]
    BY DEF Linked
  <2>1. PICK k \in 1 .. Levels - 1 : k = lv[t] /\ t = BootTables[k]
    BY <1>5
  <2>2. k + 1 \in 1 .. Levels - 1 /\ m[t][i].addr = BootTables[k + 1]
    BY <1>2, <2>1
  <2>3. BootTables[k + 1] \in Used(F) /\ lv[BootTables[k + 1]] = k + 1
    BY <1>3, <1>6, <2>2
  <2>4. own[BootTables[k + 1]] = Kernel /\ own[t] = Kernel
    BY <1>5, <2>3
  <2> QED BY <2>1, <2>2, <2>3, <2>4
<1>11. Single(m, F)
  <2> SUFFICES ASSUME NEW t \in Used(F), NEW u \in Used(F), NEW i \in Idx, NEW j \in Idx,
                      m[t][i].kind = "table", m[u][j].kind = "table",
                      m[t][i].addr = m[u][j].addr
               PROVE  t = u /\ i = j
    BY DEF Single
  <2>1. PICK k \in 1 .. Levels - 1 : t = BootTables[k]
    BY <1>5
  <2>2. PICK l \in 1 .. Levels - 1 : u = BootTables[l]
    BY <1>5
  <2>3. k + 1 \in 1 .. Levels - 1 /\ m[t][i].addr = BootTables[k + 1] /\ i = 0
    BY <1>2, <2>1
  <2>4. l + 1 \in 1 .. Levels - 1 /\ m[u][j].addr = BootTables[l + 1] /\ j = 0
    BY <1>2, <2>2
  <2>5. k + 1 = l + 1
    BY <1>3, <2>3, <2>4
  <2>6. k = l
    BY <1>7, <2>5
  <2> QED BY <2>1, <2>2, <2>3, <2>4, <2>6
<1>12. Rooted(F, BootRoots, lv, own)
  <2> SUFFICES ASSUME NEW s \in Spaces, BootRoots[s] # NoRoot
               PROVE  /\ BootRoots[s] \in Used(F) /\ lv[BootRoots[s]] = 1
                      /\ own[BootRoots[s]] = s
    BY DEF Rooted
  <2>1. s = Kernel /\ BootRoots[s] = BootTables[1]
    BY DEF BootRoots
  <2> QED BY <1>3, <1>5, <1>6, <1>7, <2>1
<1>13. Reached(m, F, BootRoots, lv, own)
  <2> SUFFICES ASSUME NEW t \in Used(F)
               PROVE  /\ BootRoots[own[t]] # NoRoot
                      /\ lv[t] = 1 => BootRoots[own[t]] = t
                      /\ lv[t] # 1 => \E p \in Used(F), i \in Idx : Refers(m, p, i, t)
    BY DEF Reached
  <2>1. PICK k \in 1 .. Levels - 1 : k = lv[t] /\ t = BootTables[k]
    BY <1>5
  <2>2. BootRoots[own[t]] = BootTables[1] /\ BootTables[1] # NoRoot
    BY <1>3, <1>5, <1>7, <1>8, VmmAssumption DEF BootRoots, NoRoot
  <2>3. ASSUME k # 1 PROVE \E p \in Used(F), i \in Idx : Refers(m, p, i, t)
    <3>1. PICK j \in 1 .. Levels - 1 : j + 1 = k /\ j # Levels - 1
      <4>1. k - 1 \in 1 .. Levels - 1 /\ (k - 1) + 1 = k /\ k - 1 # Levels - 1
        BY <1>7, <2>3
      <4> QED BY <4>1
    <3>2. Refers(m, BootTables[j], 0, t)
      BY <1>2, <1>8, <2>1, <3>1 DEF Refers
    <3> QED BY <1>3, <1>8, <3>2
  <2> QED BY <2>1, <2>2, <2>3
<1>14. Leaves("x86_64", m, F, lv)
  <2> SUFFICES ASSUME NEW t \in Used(F), NEW i \in Idx
               PROVE  /\ m[t][i].kind = "page" => lv[t] = Levels
                      /\ m[t][i].kind = "block" => lv[t] # Levels /\ lv[t] = Levels - 1
    BY DEF Leaves
  <2>1. PICK k \in 1 .. Levels - 1 : k = lv[t] /\ t = BootTables[k]
    BY <1>5
  <2> QED BY <1>2, <1>7, <2>1
<1>15. Allowed("x86_64", m, F)
  <2> SUFFICES ASSUME NEW t \in Used(F), NEW i \in Idx, m[t][i].kind = "table",
                      NEW j \in Idx, m[m[t][i].addr][j].user
               PROVE  m[t][i].user
    BY DEF Allowed
  <2>1. PICK k \in 1 .. Levels - 1 : k = lv[t] /\ t = BootTables[k]
    BY <1>5
  <2>2. k + 1 \in 1 .. Levels - 1 /\ m[t][i].addr = BootTables[k + 1]
    BY <1>2, <2>1
  <2>3. m[m[t][i].addr][j].user = FALSE
    BY <1>2, <2>2
  <2> QED BY <2>3
<1>16. Forest("x86_64", m, F, BootRoots, lv, own)
  BY <1>9, <1>10, <1>11, <1>12, <1>13, <1>14, <1>15 DEF Forest
<1> QED BY <1>1, <1>16

\* Blocks in the root and no other table.
LEMMA BootAarch64 ==
    ASSUME NEW F, F = TableFrames \ {BootTables[1]}
    PROVE  \E lv, own : Forest("aarch64", aarch64_mmu_init, F, BootRoots, lv, own)
<1>1. PICK m : m = aarch64_mmu_init
  OBVIOUS
<1>2. PICK r \in TableFrames : r = BootTables[1]
  <2>1. 1 \in 1 .. Levels - 1
    BY LevelsNat
  <2> QED BY <2>1, VmmAssumption
<1>3. \A t : t \in Used(F) <=> t = r
  BY <1>2 DEF Used
<1>4. PICK lv, own : lv = [t \in Used(F) |-> 1] /\ own = [t \in Used(F) |-> Kernel]
  OBVIOUS
<1>5. /\ r \in Used(F) /\ lv[r] = 1 /\ own[r] = Kernel /\ 1 \in 1 .. Levels /\ 1 # Levels
      /\ r # NoRoot /\ Kernel \in Spaces
  <2>1. 1 \in 1 .. Levels /\ 1 # Levels
    BY LevelsNat
  <2>2. r # NoRoot /\ Kernel \in Spaces
    BY VmmAssumption DEF NoRoot
  <2> QED BY <1>3, <1>4, <2>1, <2>2
<1>6. \A t \in Places, i \in Idx : m[t][i] = None \/ m[t][i] = Huge
  BY <1>1 DEF aarch64_mmu_init
<1>7. \A t \in Used(F), i \in Idx : m[t][i].kind \in {"none", "block"}
  BY <1>6, EntryMade DEF Used, Places
<1>8. Typed(m, F, BootRoots, lv, own)
  <2>1. m \in Mems
    BY <1>1, EntryMade DEF aarch64_mmu_init, Mems
  <2>2. BootRoots \in [Spaces -> TableFrames \cup {NoRoot}]
    BY <1>2 DEF BootRoots
  <2> QED BY <1>4, <1>5, <2>1, <2>2 DEF Typed
<1>9. Linked(m, F, lv, own) /\ Single(m, F) /\ Allowed("aarch64", m, F)
  BY <1>7 DEF Linked, Single, Allowed
<1>10. Rooted(F, BootRoots, lv, own)
  <2> SUFFICES ASSUME NEW s \in Spaces, BootRoots[s] # NoRoot
               PROVE  /\ BootRoots[s] \in Used(F) /\ lv[BootRoots[s]] = 1
                      /\ own[BootRoots[s]] = s
    BY DEF Rooted
  <2>1. s = Kernel /\ BootRoots[s] = r
    BY <1>2 DEF BootRoots
  <2> QED BY <1>5, <2>1
<1>11. Reached(m, F, BootRoots, lv, own)
  <2>1. BootRoots[Kernel] = r
    BY <1>2, <1>5 DEF BootRoots
  <2> QED BY <1>3, <1>5, <2>1 DEF Reached
<1>12. Leaves("aarch64", m, F, lv)
  BY <1>3, <1>5, <1>7 DEF Leaves
<1> QED BY <1>1, <1>8, <1>9, <1>10, <1>11, <1>12 DEF Forest

-----------------------------------------------------------------------------
(* The inductive invariant.                                                *)

\* The tables of the live spaces are a forest on the used frames.
TablesForest == \E lv, own : Forest(mmu, mem, free, root, lv, own)

\* It is an invariant as long as an allocation finds a frame.
VmmInv ==
    /\ mmu \in {"x86_64", "aarch64"}
    /\ TablesForest
    /\ cr3 \in Live /\ Kernel \in Live
    /\ \A x \in tlb : x[1] \in Pages
    /\ TlbFresh

\* Pages that callers map are pages.
LEMMA PagesTyped == Pages \subseteq PageSet
  BY VmmAssumption DEF PageSet, Idx

\* The boot maps satisfy the invariant.
LEMMA VmmInvInit == VmmInit => VmmInv
<1> SUFFICES ASSUME VmmInit PROVE VmmInv
  OBVIOUS
<1>1. root = BootRoots /\ cr3 = Kernel /\ tlb = {}
  BY DEF VmmInit, BootRoots
<1>2. Kernel \in Live
  <2>1. BootTables[1] \in TableFrames
    <3>1. 1 \in 1 .. Levels - 1
      BY LevelsNat
    <3> QED BY <3>1, VmmAssumption
  <2> QED BY <1>1, <2>1, VmmAssumption DEF Live, BootRoots, NoRoot
<1>3. mmu \in {"x86_64", "aarch64"} /\ TablesForest
  <2>1. CASE /\ mmu = "x86_64" /\ mem = setup_page_tables
             /\ free = TableFrames \ {BootTables[k] : k \in 1 .. Levels - 1}
    BY <1>1, <2>1, BootX86 DEF TablesForest
  <2>2. CASE /\ mmu = "aarch64" /\ mem = aarch64_mmu_init
             /\ free = TableFrames \ {BootTables[1]}
    BY <1>1, <2>2, BootAarch64 DEF TablesForest
  <2> QED BY <2>1, <2>2 DEF VmmInit
<1> QED BY <1>1, <1>2, <1>3 DEF VmmInv, TlbFresh

-----------------------------------------------------------------------------
(* What the operations do to the pages of the live spaces.                 *)

\* What the invariant says, part by part.
LEMMA InvFacts ==
    ASSUME VmmInv
    PROVE  /\ mmu \in {"x86_64", "aarch64"} /\ st0 \in TableState /\ st0.mem = mem /\ st0.free = free
           /\ cr3 \in Spaces /\ root[cr3] # NoRoot
           /\ Kernel \in Spaces /\ root[Kernel] # NoRoot
           /\ mem \in Mems /\ root \in [Spaces -> TableFrames \cup {NoRoot}]
           /\ \E lv, own : Forest(mmu, mem, free, root, lv, own)
<1>1. PICK lv, own : Forest(mmu, mem, free, root, lv, own)
  BY DEF VmmInv, TablesForest
<1>2. /\ mem \in Mems /\ free \subseteq TableFrames
      /\ root \in [Spaces -> TableFrames \cup {NoRoot}]
  BY <1>1 DEF Forest, Typed
<1>3. st0 \in TableState /\ st0.mem = mem /\ st0.free = free
  BY <1>2 DEF st0, TableState, Mems
<1>4. /\ mmu \in {"x86_64", "aarch64"} /\ cr3 \in Spaces /\ root[cr3] # NoRoot
      /\ Kernel \in Spaces /\ root[Kernel] # NoRoot
  BY DEF VmmInv, Live
<1> QED BY <1>1, <1>2, <1>3, <1>4

\* One page of one space becomes e.
SetsPage(s, page, e) ==
    TablesForest' /\ Kept(root, s, mem, mem') /\ Sets(mem, root[s], page, e, mem')

\* vmm_map.
LEMMA MapEffect ==
    ASSUME VmmInv, NEW s \in Spaces, NEW page \in Pages, NEW x \in Phys, NEW u \in BOOLEAN,
           vmm_map(s, page, x, u), mmu' = mmu, free' # {}
    PROVE  LET e == Last(mem, root[s], page)
           IN  SetsPage(s, page, IF e.kind = "block" THEN e ELSE Page(x, u))
<1>1. PICK lv, own : Forest(mmu, mem, free, root, lv, own)
  BY InvFacts
<1>2. /\ root[s] # NoRoot /\ root' = root
      /\ mem' = MapWalk(st0, root[s], page, Page(x, u)).mem
      /\ free' = MapWalk(st0, root[s], page, Page(x, u)).free
  BY DEF vmm_map, Live, SetMem
<1>3. PICK st \in TableState : st = st0 /\ st.mem = mem /\ st.free = free
  BY InvFacts
<1>4. PICK r : r = MapWalk(st, root[s], page, Page(x, u))
  OBVIOUS
<1>5. mem' = r.mem /\ free' = r.free /\ r.free # {}
  BY <1>2, <1>3, <1>4
<1>6. page \in PageSet /\ mmu \in {"x86_64", "aarch64"}
  BY PagesTyped, InvFacts
<1>7. Forest(mmu, st.mem, st.free, root, lv, own)
  BY <1>1, <1>3
<1>8. Maps(st, root, s, page, Page(x, u), r)
  BY <1>2, <1>4, <1>5, <1>6, <1>7, MapForest
<1>9. TablesForest'
  BY <1>2, <1>5, <1>8 DEF Maps, TablesForest
<1> QED BY <1>3, <1>5, <1>8, <1>9 DEF Maps, SetsPage

\* vmm_unmap.
LEMMA UnmapEffect ==
    ASSUME VmmInv, NEW s \in Spaces, NEW page \in Pages, vmm_unmap(s, page), mmu' = mmu
    PROVE  /\ root' = root
           /\ \/ PtOf(mem, root[s], page) = NULL /\ mem' = mem /\ tlb' = tlb /\ TablesForest'
              \/ /\ SetsPage(s, page, None) /\ tlb' = {x \in tlb : x[1] # page}
                 /\ Last(mem, root[s], page).kind # "block"
<1>1. PICK lv, own : Forest(mmu, mem, free, root, lv, own)
  BY InvFacts
<1>2. root[s] # NoRoot /\ root' = root /\ free' = free
  BY DEF vmm_unmap, Live
<1>3. page \in PageSet
  BY PagesTyped
<1>4. CASE PtOf(mem, root[s], page) = NULL
  <2>1. mem' = mem /\ tlb' = tlb
    BY <1>4 DEF vmm_unmap
  <2> QED BY <1>1, <1>2, <1>4, <2>1 DEF TablesForest
<1>5. CASE PtOf(mem, root[s], page) # NULL
  <2>1. /\ mem' = [mem EXCEPT ![PtOf(mem, root[s], page)][page[Levels]] = None]
        /\ tlb' = {x \in tlb : x[1] # page}
    BY <1>5 DEF vmm_unmap
  <2>2. PICK m2 : m2 = mem' /\ m2 = Put(mem, PtOf(mem, root[s], page), page[Levels], None)
    BY <2>1 DEF Put
  <2>3. Unmaps(mmu, mem, free, root, lv, own, s, page, m2)
    BY <1>1, <1>2, <1>3, <1>5, <2>2, UnmapForest
  <2>4. TablesForest'
    BY <1>2, <2>2, <2>3 DEF TablesForest, Unmaps
  <2> QED BY <1>2, <2>1, <2>2, <2>3, <2>4 DEF SetsPage, Unmaps
<1> QED BY <1>4, <1>5

\* A new space has the pages of the kernel, the others have theirs.
CreatesSpace(s) ==
    /\ TablesForest' /\ Kept(root, s, mem, mem')
    /\ \E t \in TableFrames \cup {NoRoot} :
         /\ t # NoRoot /\ root' = [root EXCEPT ![s] = t]
         /\ \A p \in PageSet : Last(mem', t, p) = Last(mem, root[Kernel], p)

\* vmm_create_address_space.
LEMMA CreateEffect ==
    ASSUME VmmInv, NEW s \in Spaces, vmm_create_address_space(s), mmu' = mmu, free' # {}
    PROVE  CreatesSpace(s)
<1>1. PICK lv, own : Forest(mmu, mem, free, root, lv, own)
  BY InvFacts
<1>2. PICK st \in TableState : st = st0 /\ st.mem = mem /\ st.free = free
  BY InvFacts
<1>3. PICK t, r : t = alloc_table(st).t /\ r = CloneOf(st, root)
  OBVIOUS
<1>4. root[s] = NoRoot /\ mem' = r.mem /\ free' = r.free /\ root' = [root EXCEPT ![s] = t]
  BY <1>2, <1>3 DEF vmm_create_address_space, SetMem, CloneOf
<1>5. Forest(mmu, st.mem, st.free, root, lv, own) /\ root[Kernel] # NoRoot
  BY <1>1, <1>2, InvFacts
<1>6. Clones(st, root, s, r)
  BY <1>3, <1>4, <1>5, CreateForest
<1>7. /\ r \in TableState
      /\ \E lv2, own2 : Forest(mmu, r.mem, r.free, [root EXCEPT ![s] = t], lv2, own2)
      /\ Kept(root, s, st.mem, r.mem)
      /\ \A p \in PageSet : Last(r.mem, t, p) = Last(st.mem, root[Kernel], p)
      /\ t # NoRoot
  BY <1>3, <1>6 DEF Clones
<1>8. TablesForest'
  BY <1>4, <1>7 DEF TablesForest
<1>9. t \in TableFrames \cup {NoRoot}
  <2>1. PICK lv2, own2 : Forest(mmu, r.mem, r.free, [root EXCEPT ![s] = t], lv2, own2)
    BY <1>7
  <2>2. [root EXCEPT ![s] = t] \in [Spaces -> TableFrames \cup {NoRoot}]
    BY <2>1 DEF Forest, Typed
  <2>3. [root EXCEPT ![s] = t][s] = t
    BY InvFacts
  <2> QED BY <2>2, <2>3
<1> QED BY <1>2, <1>4, <1>7, <1>8, <1>9 DEF CreatesSpace

\* vmm_destroy_address_space.
LEMMA DestroyEffect ==
    ASSUME VmmInv, NEW s \in Spaces, vmm_destroy_address_space(s), mmu' = mmu
    PROVE  TablesForest'
<1>1. PICK lv, own : Forest(mmu, mem, free, root, lv, own)
  BY InvFacts
<1>2. /\ root[s] # NoRoot /\ mem' = mem /\ root' = [root EXCEPT ![s] = NoRoot]
      /\ free' = free \cup free_table_level(mem, root[s])
  BY DEF vmm_destroy_address_space, Live
<1>3. \E lv2, own2 : Forest(mmu, mem, free \cup free_table_level(mem, root[s]),
                            [root EXCEPT ![s] = NoRoot], lv2, own2)
  BY <1>1, <1>2, DestroyForest
<1> QED BY <1>2, <1>3 DEF TablesForest

\* Pages of the kernel that were unmapped may be in a block now.
SetsBlocks ==
    /\ TablesForest' /\ Kept(root, Kernel, mem, mem')
    /\ \A p \in PageSet :
         \/ Last(mem', root[Kernel], p) = Last(mem, root[Kernel], p)
         \/ Last(mem, root[Kernel], p) = None /\ Last(mem', root[Kernel], p) = Huge

\* paging_identity_map.
LEMMA BlockEffect ==
    ASSUME VmmInv, NEW page \in Pages, paging_identity_map(page), mmu' = mmu, free' # {}
    PROVE  SetsBlocks
<1>1. PICK lv, own : Forest(mmu, mem, free, root, lv, own)
  BY InvFacts
<1>2. PICK st \in TableState : st = st0 /\ st.mem = mem /\ st.free = free
  BY InvFacts
<1>3. PICK r : r = BlockWalk(st, root[Kernel], page)
  OBVIOUS
<1>4. /\ mmu = "x86_64" /\ mem' = r.mem /\ free' = r.free /\ root' = root /\ r.free # {}
      /\ Kernel \in Spaces /\ root[Kernel] # NoRoot /\ page \in PageSet
  BY <1>2, <1>3, InvFacts, PagesTyped DEF paging_identity_map, SetMem
<1>5. Forest(mmu, st.mem, st.free, root, lv, own)
  BY <1>1, <1>2
<1>6. Blocks(st, root, Kernel, r)
  BY <1>3, <1>4, <1>5, BlockForest
<1>7. TablesForest'
  BY <1>4, <1>6 DEF Blocks, TablesForest
<1> QED BY <1>2, <1>4, <1>6, <1>7 DEF Blocks, SetsBlocks

-----------------------------------------------------------------------------
(* Every step keeps the invariant.                                         *)

Forested(a, m, F, rt) == \E lv, own : Forest(a, m, F, rt, lv, own)

\* vmm_translate finds the page at the end of the walk.
LEMMA SeenIs ==
    ASSUME NEW a, NEW m, NEW F, NEW rt, Forested(a, m, F, rt),
           NEW s \in Spaces, rt[s] # NoRoot, NEW p \in Pages
    PROVE  Translated(m, rt[s], p) = Seen(Last(m, rt[s], p))
<1>1. PICK lv, own : Forest(a, m, F, rt, lv, own)
  BY DEF Forested
<1>2. p \in PageSet
  BY PagesTyped
<1> QED BY <1>1, <1>2, PtIs

\* The translations stay right when the pages they are of stay the same.
LEMMA TlbStep ==
    ASSUME VmmInv, TablesForest', cr3' = cr3, root'[cr3] = root[cr3],
           \A x \in tlb' : /\ x \in tlb
                           /\ Last(mem', root[cr3], x[1]) = Last(mem, root[cr3], x[1])
    PROVE  (\A x \in tlb' : x[1] \in Pages) /\ TlbFresh'
<1>1. ASSUME NEW x \in tlb' PROVE x[1] \in Pages /\ vmm_translate(cr3, x[1])' = x[2]
  <2>1. /\ x \in tlb /\ x[1] \in Pages /\ vmm_translate(cr3, x[1]) = x[2]
        /\ Last(mem', root[cr3], x[1]) = Last(mem, root[cr3], x[1])
    BY <1>1 DEF VmmInv, TlbFresh
  <2>2. cr3 \in Spaces /\ root[cr3] # NoRoot /\ Forested(mmu, mem, free, root)
    BY InvFacts DEF Forested
  <2>3. Forested(mmu', mem', free', root')
    BY DEF TablesForest, Forested
  <2>4. Translated(mem, root[cr3], x[1]) = Seen(Last(mem, root[cr3], x[1]))
    BY <2>1, <2>2, SeenIs
  <2>5. Translated(mem', root'[cr3], x[1]) = Seen(Last(mem', root'[cr3], x[1]))
    BY <2>1, <2>2, <2>3, SeenIs
  <2>6. Translated(mem', root'[cr3], x[1]) = Translated(mem, root[cr3], x[1])
    BY <2>1, <2>4, <2>5
  <2>7. vmm_translate(cr3, x[1]) = Translated(mem, root[cr3], x[1])
    BY DEF vmm_translate, Translated
  <2>8. vmm_translate(cr3, x[1])' = Translated(mem', root'[cr3], x[1])
    BY DEF vmm_translate, Translated
  <2> QED BY <2>1, <2>6, <2>7, <2>8
<1> QED BY <1>1 DEF TlbFresh

\* The same tlb, and no page of the loaded space changed.
LEMMA TlbKept ==
    ASSUME VmmInv, TablesForest', cr3' = cr3, root'[cr3] = root[cr3], tlb' \subseteq tlb,
           \A p \in Pages : Last(mem', root[cr3], p) = Last(mem, root[cr3], p)
    PROVE  (\A x \in tlb' : x[1] \in Pages) /\ TlbFresh'
<1>1. \A x \in tlb' : /\ x \in tlb
                      /\ Last(mem', root[cr3], x[1]) = Last(mem, root[cr3], x[1])
  BY DEF VmmInv
<1> QED BY <1>1, TlbStep

\* One step per operation.
LEMMA VmmInvNext ==
    ASSUME VmmInv, VmmNext, free' # {}
    PROVE  VmmInv'
<1>0. mmu' = mmu /\ mmu' \in {"x86_64", "aarch64"}
  BY InvFacts DEF VmmNext
<1>1. /\ cr3 \in Spaces /\ root[cr3] # NoRoot /\ Kernel \in Spaces /\ root[Kernel] # NoRoot
      /\ root \in [Spaces -> TableFrames \cup {NoRoot}]
  BY InvFacts
<1>3. ASSUME root' = root, cr3' = cr3 PROVE (cr3 \in Live)' /\ (Kernel \in Live)'
  BY <1>1, <1>3 DEF Live
<1>4. ASSUME NEW page \in Pages, paging_identity_map(page)
      PROVE  VmmInv'
  <2>1. TablesForest'
    BY <1>0, <1>4, BlockEffect DEF SetsBlocks
  <2>2. tlb' = {} /\ root' = root /\ cr3' = cr3
    BY <1>4 DEF paging_identity_map
  <2> QED BY <1>0, <1>3, <2>1, <2>2 DEF VmmInv, TlbFresh
<1>5. ASSUME NEW page \in Pages, TlbFill(page)
      PROVE  VmmInv'
  <2>1. mem' = mem /\ free' = free /\ root' = root /\ cr3' = cr3
    BY <1>5 DEF TlbFill
  <2>2. TablesForest'
    BY <1>0, <2>1 DEF VmmInv, TablesForest
  <2>3. ASSUME NEW x \in tlb' PROVE x[1] \in Pages /\ vmm_translate(cr3, x[1])' = x[2]
    <3>1. vmm_translate(cr3, x[1])' = vmm_translate(cr3, x[1])
      BY <2>1 DEF vmm_translate
    <3>2. x \in tlb \/ x = <<page, vmm_translate(cr3, page)>>
      BY <1>5, <2>3 DEF TlbFill
    <3>3. CASE x \in tlb
      BY <3>1, <3>3 DEF VmmInv, TlbFresh
    <3>4. CASE x = <<page, vmm_translate(cr3, page)>>
      <4>1. x[1] = page /\ x[2] = vmm_translate(cr3, page)
        BY <3>4
      <4> QED BY <3>1, <4>1
    <3> QED BY <3>2, <3>3, <3>4
  <2>4. TlbFresh'
    BY <2>3 DEF TlbFresh
  <2> QED BY <1>0, <1>3, <2>1, <2>2, <2>3, <2>4 DEF VmmInv
<1>6. ASSUME NEW page \in Pages, NEW s \in Spaces, vmm_unmap(s, page)
      PROVE  VmmInv'
  <2>1. root' = root /\ cr3' = cr3
    BY <1>6 DEF vmm_unmap
  <2>2. CASE mem' = mem /\ tlb' = tlb /\ TablesForest'
    <3>1. (\A x \in tlb' : x[1] \in Pages) /\ TlbFresh'
      BY <2>1, <2>2, TlbKept
    <3> QED BY <1>0, <1>3, <2>1, <2>2, <3>1 DEF VmmInv
  <2>3. CASE SetsPage(s, page, None) /\ tlb' = {x \in tlb : x[1] # page}
    <3>1. /\ TablesForest' /\ Kept(root, s, mem, mem')
          /\ Sets(mem, root[s], page, None, mem')
      BY <2>3 DEF SetsPage
    <3>2. ASSUME NEW x \in tlb'
          PROVE  x \in tlb /\ Last(mem', root[cr3], x[1]) = Last(mem, root[cr3], x[1])
      <4>1. x \in tlb /\ x[1] # page
        BY <2>3, <3>2
      <4>2. x[1] \in PageSet
        BY <4>1, PagesTyped DEF VmmInv
      <4> QED BY <1>1, <3>1, <4>1, <4>2 DEF Kept, Sets
    <3>3. (\A x \in tlb' : x[1] \in Pages) /\ TlbFresh'
      BY <2>1, <3>1, <3>2, TlbStep
    <3> QED BY <1>0, <1>3, <2>1, <3>1, <3>3 DEF VmmInv
  <2> QED BY <1>0, <1>6, <2>2, <2>3, UnmapEffect
<1>7. ASSUME NEW page \in Pages, NEW s \in Spaces, NEW x \in Phys, NEW u \in BOOLEAN,
             s \in Unloaded, vmm_map(s, page, x, u)
      PROVE  VmmInv'
  <2>1. root' = root /\ cr3' = cr3 /\ tlb' = tlb /\ s # cr3
    BY <1>7 DEF vmm_map, Unloaded
  <2>2. TablesForest' /\ Kept(root, s, mem, mem')
    BY <1>0, <1>7, MapEffect DEF SetsPage
  <2>3. \A p \in Pages : Last(mem', root[cr3], p) = Last(mem, root[cr3], p)
    BY <1>1, <2>1, <2>2, PagesTyped DEF Kept
  <2>4. (\A y \in tlb' : y[1] \in Pages) /\ TlbFresh'
    BY <2>1, <2>2, <2>3, TlbKept
  <2> QED BY <1>0, <1>3, <2>1, <2>2, <2>4 DEF VmmInv
<1>8. ASSUME NEW s \in Spaces, vmm_create_address_space(s)
      PROVE  VmmInv'
  <2>1. root[s] = NoRoot /\ cr3' = cr3 /\ tlb' = tlb
    BY <1>8 DEF vmm_create_address_space
  <2>2. /\ TablesForest' /\ Kept(root, s, mem, mem')
        /\ \E t \in TableFrames \cup {NoRoot} : t # NoRoot /\ root' = [root EXCEPT ![s] = t]
    BY <1>0, <1>8, CreateEffect DEF CreatesSpace
  <2>3. \A q \in Spaces : q # s => root'[q] = root[q]
    BY <1>1, <2>2
  <2>4. cr3 # s /\ Kernel # s /\ root'[cr3] = root[cr3] /\ root'[Kernel] = root[Kernel]
    BY <1>1, <2>1, <2>3
  <2>5. \A p \in Pages : Last(mem', root[cr3], p) = Last(mem, root[cr3], p)
    BY <1>1, <2>2, <2>4, PagesTyped DEF Kept
  <2>6. (\A y \in tlb' : y[1] \in Pages) /\ TlbFresh'
    BY <2>1, <2>2, <2>4, <2>5, TlbKept
  <2>7. (cr3 \in Live)' /\ (Kernel \in Live)'
    BY <1>1, <2>1, <2>4 DEF Live
  <2> QED BY <1>0, <2>2, <2>6, <2>7 DEF VmmInv
<1>9. ASSUME NEW s \in Spaces, s \in Unloaded, vmm_destroy_address_space(s)
      PROVE  VmmInv'
  <2>1. /\ mem' = mem /\ cr3' = cr3 /\ tlb' = tlb /\ root' = [root EXCEPT ![s] = NoRoot]
        /\ s # cr3 /\ s # Kernel
    BY <1>9 DEF vmm_destroy_address_space, Unloaded
  <2>2. TablesForest'
    BY <1>0, <1>9, DestroyEffect
  <2>3. root'[cr3] = root[cr3] /\ root'[Kernel] = root[Kernel]
    BY <1>1, <2>1
  <2>4. (\A y \in tlb' : y[1] \in Pages) /\ TlbFresh'
    BY <2>1, <2>2, <2>3, TlbKept
  <2>5. (cr3 \in Live)' /\ (Kernel \in Live)'
    BY <1>1, <2>1, <2>3 DEF Live
  <2> QED BY <1>0, <2>2, <2>4, <2>5 DEF VmmInv
<1>10. ASSUME NEW s \in Spaces, vmm_switch(s)
       PROVE  VmmInv'
  <2>1. /\ mem' = mem /\ free' = free /\ root' = root /\ cr3' = s /\ tlb' = {}
        /\ root[s] # NoRoot
    BY <1>10 DEF vmm_switch, Live
  <2>2. TablesForest'
    BY <1>0, <2>1 DEF VmmInv, TablesForest
  <2>3. (cr3 \in Live)' /\ (Kernel \in Live)'
    BY <1>1, <2>1 DEF Live
  <2> QED BY <1>0, <2>1, <2>2, <2>3 DEF VmmInv, TlbFresh
<1> QED BY <1>4, <1>5, <1>6, <1>7, <1>8, <1>9, <1>10 DEF VmmNext, Operation, Unloaded, Live

-----------------------------------------------------------------------------
(* The properties.                                                         *)

\* Frames, owners and references.
LEMMA InvPrivate ==
    ASSUME VmmInv PROVE TablesPrivate
<1>1. PICK lv, own : Forest(mmu, mem, free, root, lv, own)
  BY InvFacts
<1>2. /\ free \subseteq TableFrames /\ lv \in [Used(free) -> 1 .. Levels]
      /\ own \in [Used(free) -> Spaces]
  BY <1>1 DEF Forest, Typed
<1>3. \A s \in Live : Tables(s) = Owned(free, own, s)
  BY <1>1, FreeIs DEF Tables, Live
<1>4. \A t \in Used(free) : own[t] \in Live
  BY <1>1, <1>2 DEF Forest, Reached, Live
<1>5. PICK T : T = UNION {Tables(s) : s \in Live}
  OBVIOUS
<1>6. T = Used(free)
  <2>1. ASSUME NEW t \in T PROVE t \in Used(free)
    BY <1>3, <1>5 DEF Owned
  <2>2. ASSUME NEW t \in Used(free) PROVE t \in T
    <3>1. t \in Tables(own[t])
      BY <1>3, <1>4 DEF Owned
    <3> QED BY <1>4, <1>5, <3>1
  <2> QED BY <2>1, <2>2
<1>7. \A s, t \in Live : s # t => Tables(s) \cap Tables(t) = {}
  BY <1>3 DEF Owned
<1>8. ASSUME NEW f \in Used(free)
      PROVE  Cardinality(Referrers(f)) = IF \E s \in Live : root[s] = f THEN 0 ELSE 1
  <2>1. PICK R : R = Referrers(f)
    OBVIOUS
  <2>2. R = {x \in Used(free) \X Idx : mem[x[1]][x[2]].kind = "table" /\ mem[x[1]][x[2]].addr = f}
    BY <1>5, <1>6, <2>1 DEF Referrers
  <2>3. CASE lv[f] = 1
    <3>1. own[f] \in Live /\ root[own[f]] = f
      BY <1>1, <1>4, <2>3 DEF Forest, Reached
    <3>2. ASSUME NEW x \in R PROVE FALSE
      <4>1. PICK p \in Used(free), i \in Idx : mem[p][i].kind = "table" /\ mem[p][i].addr = f
        BY <2>2, <3>2
      <4>2. lv[f] = lv[p] + 1 /\ lv[p] \in 1 .. Levels
        BY <1>1, <1>2, <4>1 DEF Forest, Linked
      <4> QED BY <2>3, <4>2, LevelsNat
    <3>3. R = {}
      BY <3>2
    <3> QED BY <2>1, <3>1, <3>3, FS_EmptySet
  <2>4. CASE lv[f] # 1
    <3>1. ~\E s \in Live : root[s] = f
      BY <1>1, <2>4 DEF Forest, Rooted, Live
    <3>2. PICK p \in Used(free), i \in Idx : mem[p][i].kind = "table" /\ mem[p][i].addr = f
      BY <1>1, <2>4 DEF Forest, Reached, Refers
    <3>3. <<p, i>> \in R
      BY <2>2, <3>2
    <3>4. ASSUME NEW x \in R PROVE x = <<p, i>>
      <4>1. PICK q \in Used(free), j \in Idx :
              x = <<q, j>> /\ mem[q][j].kind = "table" /\ mem[q][j].addr = f
        BY <2>2, <3>4
      <4>2. q = p /\ j = i
        BY <1>1, <3>2, <4>1 DEF Forest, Single
      <4> QED BY <4>1, <4>2
    <3>5. R = {<<p, i>>}
      BY <3>3, <3>4
    <3> QED BY <2>1, <3>1, <3>5, FS_Singleton
  <2> QED BY <2>3, <2>4
<1> QED BY <1>2, <1>5, <1>6, <1>7, <1>8 DEF TablesPrivate, Used, VmmInv

\* Above an entry that is open to user mode every entry of a walk is.
LEMMA InvOpen ==
    ASSUME VmmInv PROVE UserPathOpen
<1> SUFFICES ASSUME NEW s \in Live, NEW p \in Pages, vmm_translate(s, p).user
             PROVE  \A k \in 1 .. Levels : Walk(mem, root[s], p)[k].user
  BY DEF UserPathOpen
<1>1. PICK lv, own : Forest(mmu, mem, free, root, lv, own)
  BY InvFacts
<1>2. s \in Spaces /\ root[s] # NoRoot /\ p \in PageSet
  BY PagesTyped DEF Live
<1>3. PICK r \in Places : r = root[s] /\ mem \in Mems
  BY <1>1, <1>2, WalkTree
<1> DEFINE w == Walk(mem, r, p)
<1>4. vmm_translate(s, p) = Seen(w[Levels])
  <2>1. vmm_translate(s, p) = Translated(mem, r, p)
    BY <1>3 DEF vmm_translate, Translated
  <2>2. Translated(mem, r, p) = Seen(Last(mem, r, p))
    BY <1>1, <1>2, <1>3, PtIs
  <2> QED BY <2>1, <2>2 DEF Last
<1>5. w[Levels].user /\ w[Levels] # None /\ w[Levels].kind # "block"
  BY <1>4, EntryMade DEF Seen
<1>6. Gets(mem, r, p, Levels)
  <2>1. Last(mem, r, p) \in Entry
        /\ (~Gets(mem, r, p, Levels) => Last(mem, r, p).kind \in {"none", "block"})
    BY <1>1, <1>2, <1>3, LastKinds
  <2>2. Last(mem, r, p).kind # "none"
    BY <1>5, <2>1, EntryFacts DEF Last
  <2> QED BY <1>5, <2>1, <2>2 DEF Last
<1> DEFINE N == Levels - 1
           G == {n \in 0 .. N : w[Levels - n].user}
<1>7. N \in Nat /\ Levels \in 1 .. Levels /\ \A n \in 0 .. N : Levels - n \in 1 .. Levels
  BY LevelsNat
<1>8. 0 \in G
  BY <1>5, <1>7, LevelsNat
<1>9. ASSUME NEW n \in 1 .. N, n - 1 \in G PROVE n \in G
  <2>1. PICK k \in 1 .. Levels, j \in 1 .. Levels :
          k = Levels - (n - 1) /\ j = Levels - n /\ j = k - 1 /\ k # 1 /\ j <= Levels /\ k <= Levels
          /\ j < Levels
    BY LevelsNat
  <2>2. n \in 0 .. N /\ w[k].user
    BY <1>9, <2>1
  <2>3. Gets(mem, r, p, k) /\ Gets(mem, r, p, j) /\ w[j].kind = "table"
    BY <1>3, <1>2, <1>6, <1>7, <2>1, WalkTables
  <2>4. w[k] = mem[w[j].addr][p[k]]
    BY <1>2, <1>3, <2>1, <2>3, WalkStep DEF TableAt
  <2>5. PICK t \in Used(free), i \in Idx : w[j] = mem[t][i]
    <3>1. TableAt(mem, r, p, j) \in Used(free)
      BY <1>1, <1>2, <1>3, <2>3, WalkTree
    <3>2. w[j] = mem[TableAt(mem, r, p, j)][p[j]] /\ p[j] \in Idx
      BY <1>2, <1>3, <2>3, WalkStep DEF PageSet
    <3> QED BY <3>1, <3>2
  <2>6. w[j].user
    <3>1. p[k] \in Idx
      BY <1>2 DEF PageSet
    <3> QED BY <1>1, <2>2, <2>3, <2>4, <2>5, <3>1 DEF Forest, Allowed
  <2> QED BY <2>1, <2>2, <2>6
<1>10. \A n \in 0 .. N : n \in G
  <2> HIDE DEF G, N
  <2> QED BY <1>7, <1>8, <1>9, UpTo
<1>11. ASSUME NEW k \in 1 .. Levels PROVE w[k].user
  <2>1. Levels - k \in 0 .. N /\ Levels - (Levels - k) = k
    BY LevelsNat
  <2>2. w[Levels - (Levels - k)].user
    BY <1>10, <2>1
  <2> QED BY <2>1, <2>2
<1> QED BY <1>3, <1>11

-----------------------------------------------------------------------------
(* The refinement of AddrSpace.                                            *)

View(e) ==
    IF e.kind = "none" THEN Unmapped
    ELSE IF e.kind = "block" THEN Block
    ELSE [phys |-> e.addr, user |-> e.user]

SpaceMap(m, r) == [p \in Pages |-> Look(m, r, p)]

SpaceMaps(m, rt) ==
    [s \in Spaces |-> IF rt[s] = NoRoot THEN NoSpace ELSE SpaceMap(m, rt[s])]

\* What a leaf shows.
LEMMA ViewIs ==
    ASSUME NEW e \in Entry, e.kind # "table"
    PROVE  /\ View(e) \in {Unmapped, Block} \cup Mapped
           /\ View(e) = Block <=> e.kind = "block"
           /\ View(e) = Unmapped <=> e.kind = "none"
<1>1. e.kind \in {"none", "block", "table", "page"} /\ e.user \in BOOLEAN
      /\ (e.kind = "page" => e.addr \in Phys)
  BY EntryFacts
<1>2. Unmapped # Block /\ Unmapped \notin Mapped /\ Block \notin Mapped
  BY VmmAssumption
<1>3. CASE e.kind = "none"
  BY <1>2, <1>3 DEF View
<1>4. CASE e.kind = "block"
  BY <1>2, <1>4 DEF View
<1>5. CASE e.kind = "page"
  <2>1. PICK v : v = [phys |-> e.addr, user |-> e.user]
    OBVIOUS
  <2>2. v \in Mapped
    BY <1>1, <1>5, <2>1 DEF Mapped
  <2>3. View(e) = v
    BY <1>5, <2>1 DEF View
  <2> QED BY <1>2, <1>5, <2>2, <2>3
<1> QED BY <1>1, <1>3, <1>4, <1>5

\* The pages of a live space.
Shows(m, r) ==
    /\ SpaceMap(m, r) \in [Pages -> {Unmapped, Block} \cup Mapped]
    /\ SpaceMap(m, r) # NoSpace
    /\ \A p \in Pages : /\ SpaceMap(m, r)[p] = View(Last(m, r, p))
                        /\ SpaceMap(m, r)[p] = Block <=> Last(m, r, p).kind = "block"
                        /\ SpaceMap(m, r)[p] = Unmapped <=> Last(m, r, p).kind = "none"

\* A live space shows the ends of its walks.
LEMMA SpaceShows ==
    ASSUME NEW a, NEW m, NEW F, NEW rt, Forested(a, m, F, rt), NEW s \in Spaces, rt[s] # NoRoot
    PROVE  Shows(m, rt[s])
<1>1. PICK lv, own : Forest(a, m, F, rt, lv, own)
  BY DEF Forested
<1>2. PICK r : r = rt[s]
  OBVIOUS
<1>3. ASSUME NEW p \in Pages
      PROVE  /\ SpaceMap(m, r)[p] = View(Last(m, r, p))
             /\ View(Last(m, r, p)) \in {Unmapped, Block} \cup Mapped
             /\ View(Last(m, r, p)) = Block <=> Last(m, r, p).kind = "block"
             /\ View(Last(m, r, p)) = Unmapped <=> Last(m, r, p).kind = "none"
  <2>1. p \in PageSet
    BY PagesTyped
  <2>2. Last(m, r, p) \in Entry /\ Last(m, r, p).kind # "table"
    BY <1>1, <1>2, <2>1, LastKinds
  <2>3. SpaceMap(m, r)[p] = View(Last(m, r, p))
    BY DEF SpaceMap, Look, View, Last
  <2> QED BY <2>2, <2>3, ViewIs
<1>4. SpaceMap(m, r) \in [Pages -> {Unmapped, Block} \cup Mapped]
  <2>1. SpaceMap(m, r) = [p \in Pages |-> SpaceMap(m, r)[p]]
    BY DEF SpaceMap
  <2> QED BY <1>3, <2>1
<1>5. SpaceMap(m, r) # NoSpace
  BY <1>4, VmmAssumption
<1> QED BY <1>2, <1>3, <1>4, <1>5 DEF Shows

\* A space that keeps its root and the ends of its walks looks the same.
LEMMA SameMap ==
    ASSUME NEW m, NEW r, NEW m2, NEW r2, \A p \in Pages : Last(m2, r2, p) = Last(m, r, p)
    PROVE  SpaceMap(m2, r2) = SpaceMap(m, r)
<1>1. \A p \in Pages : Look(m2, r2, p) = Look(m, r, p)
  BY DEF Look, Last
<1> QED BY <1>1 DEF SpaceMap

\* No boot map has a page.
LEMMA NoPages ==
    ASSUME NEW a, NEW m, NEW F, NEW rt, Forested(a, m, F, rt), NEW s \in Spaces, rt[s] # NoRoot,
           \A t \in Used(F), i \in Idx : m[t][i].kind # "page"
    PROVE  SpaceMap(m, rt[s]) \in [Pages -> {Unmapped, Block}]
<1>1. PICK lv, own : Forest(a, m, F, rt, lv, own)
  BY DEF Forested
<1>2. PICK r \in Places : r = rt[s] /\ Shows(m, r)
  <2>1. rt[s] \in Places
    BY <1>1 DEF Forest, Rooted, Used, Places
  <2> QED BY <2>1, SpaceShows
<1>3. ASSUME NEW p \in Pages PROVE Last(m, r, p).kind \in {"none", "block"}
  <2>1. p \in PageSet /\ p[Levels] \in Idx /\ Levels \in 1 .. Levels
    BY PagesTyped, LevelsNat DEF PageSet
  <2>2. /\ Gets(m, r, p, Levels) => Last(m, r, p).kind \in {"none", "page"}
        /\ ~Gets(m, r, p, Levels) => Last(m, r, p).kind \in {"none", "block"}
    BY <1>1, <1>2, <2>1, LastKinds
  <2>3. ASSUME Gets(m, r, p, Levels) PROVE Last(m, r, p).kind # "page"
    <3>1. m \in Mems /\ TableAt(m, r, p, Levels) \in Used(F)
      BY <1>1, <1>2, <2>1, <2>3, WalkTree
    <3>2. Last(m, r, p) = m[TableAt(m, r, p, Levels)][p[Levels]]
      BY <2>1, <2>3, <3>1, WalkStep DEF Last
    <3> QED BY <2>1, <3>1, <3>2
  <2> QED BY <2>2, <2>3
<1>4. \A p \in Pages : SpaceMap(m, r)[p] \in {Unmapped, Block}
  BY <1>2, <1>3 DEF Shows
<1>5. SpaceMap(m, r) = [p \in Pages |-> SpaceMap(m, r)[p]]
  BY DEF SpaceMap
<1> QED BY <1>2, <1>4, <1>5

\* The boot maps are an initial state of AddrSpace.
LEMMA SpacesInit ==
    ASSUME VmmInit PROVE A!SpaceInit
<1>1. VmmInv
  BY VmmInvInit
<1>2. root = BootRoots /\ cr3 = Kernel /\ root[Kernel] # NoRoot /\ Kernel \in Spaces
  BY <1>1, InvFacts DEF VmmInit, BootRoots
<1>3. ASSUME NEW t \in Used(free), NEW i \in Idx PROVE mem[t][i].kind # "page"
  <2>1. CASE /\ mem = setup_page_tables
             /\ free = TableFrames \ {BootTables[k] : k \in 1 .. Levels - 1}
    <3>1. PICK k \in 1 .. Levels - 1 : t = BootTables[k]
      BY <2>1 DEF Used
    <3> QED BY <2>1, <3>1, BootChain
  <2>2. CASE mem = aarch64_mmu_init
    <3>1. mem[t][i] = None \/ mem[t][i] = Huge
      BY <2>2 DEF aarch64_mmu_init, Used, Places
    <3> QED BY <3>1, EntryMade
  <2> QED BY <2>1, <2>2 DEF VmmInit
<1>4. PICK v \in [Pages -> {Unmapped, Block}] : v = SpaceMap(mem, root[Kernel])
  <2>1. Forested(mmu, mem, free, root)
    BY <1>1 DEF VmmInv, TablesForest, Forested
  <2> QED BY <1>2, <1>3, <2>1, NoPages
<1>5. SpaceMaps(mem, root) = [s \in Spaces |-> IF s = Kernel THEN v ELSE NoSpace]
  BY <1>2, <1>4 DEF SpaceMaps, BootRoots
<1> QED BY <1>2, <1>4, <1>5 DEF A!SpaceInit, SpaceMaps, SpaceMap

\* The live spaces of the abstract specification.
LEMMA SameLive ==
    ASSUME VmmInv
    PROVE  /\ A!Live = Live
           /\ \A s \in Spaces : root[s] # NoRoot => Shows(mem, root[s])
<1>1. Forested(mmu, mem, free, root)
  BY DEF VmmInv, TablesForest, Forested
<1>2. \A s \in Spaces : root[s] # NoRoot => Shows(mem, root[s])
  BY <1>1, SpaceShows
<1>3. \A s \in Spaces : SpaceMaps(mem, root)[s] # NoSpace <=> root[s] # NoRoot
  BY <1>2 DEF SpaceMaps, Shows
<1>4. A!Live = {s \in Spaces : SpaceMaps(mem, root)[s] # NoSpace}
  BY DEF A!Live, SpaceMaps, SpaceMap
<1> QED BY <1>2, <1>3, <1>4 DEF Live

\* One page of one space is set, a page in a block stays.
SetIn(X, Y, s, page, v) ==
    /\ X = [q \in Spaces |-> X[q]] /\ Y = [q \in Spaces |-> Y[q]]
    /\ \A q \in Spaces : q # s => Y[q] = X[q]
    /\ X[s] = [p \in Pages |-> X[s][p]] /\ Y[s] = [p \in Pages |-> Y[s][p]]
    /\ \A p \in Pages : Y[s][p] = IF p = page
                                   THEN IF X[s][p] = Block THEN Block ELSE v
                                   ELSE X[s][p]

\* That is the assignment of A!Set.
LEMMA SetMaps ==
    ASSUME NEW X, NEW Y, NEW s \in Spaces, NEW page \in Pages, NEW v, SetIn(X, Y, s, page, v)
    PROVE  Y = [X EXCEPT ![s][page] = IF @ = Block THEN Block ELSE v]
<1>1. PICK n : n = IF X[s][page] = Block THEN Block ELSE v
  OBVIOUS
<1>2. PICK z : z = [X[s] EXCEPT ![page] = n]
  OBVIOUS
<1>3. z = [p \in Pages |-> IF p = page THEN n ELSE X[s][p]]
  BY <1>2 DEF SetIn
<1>4. Y[s] = z
  BY <1>1, <1>3 DEF SetIn
<1>5. Y = [X EXCEPT ![s] = z]
  BY <1>4 DEF SetIn
<1> QED BY <1>1, <1>2, <1>5

\* vmm_map and vmm_unmap where they change a page.
LEMMA SetStep ==
    ASSUME VmmInv, NEW s \in Spaces, root[s] # NoRoot, NEW page \in Pages, NEW e \in Entry,
           e.kind # "table", SetsPage(s, page, e), root' = root, cr3' = cr3, NEW v,
           \/ Last(mem, root[s], page).kind = "block" /\ e = Last(mem, root[s], page)
           \/ Last(mem, root[s], page).kind # "block" /\ View(e) = v
    PROVE  A!Set(s, page, v)
<1>1. PICK X, Y : X = SpaceMaps(mem, root) /\ Y = SpaceMaps(mem', root')
  OBVIOUS
<1>2. /\ X = [q \in Spaces |-> X[q]] /\ Y = [q \in Spaces |-> Y[q]]
      /\ X[s] = SpaceMap(mem, root[s]) /\ Y[s] = SpaceMap(mem', root[s])
  BY <1>1 DEF SpaceMaps
<1>3. Shows(mem, root[s])
  BY SameLive
<1>4. Shows(mem', root[s])
  <2>1. Forested(mmu', mem', free', root')
    BY DEF SetsPage, TablesForest, Forested
  <2> QED BY <2>1, SpaceShows
<1>5. ASSUME NEW q \in Spaces, q # s PROVE Y[q] = X[q]
  <2>1. CASE root[q] = NoRoot
    BY <1>1, <2>1 DEF SpaceMaps
  <2>2. CASE root[q] # NoRoot
    <3>1. \A p \in Pages : Last(mem', root[q], p) = Last(mem, root[q], p)
      BY <1>5, <2>2, PagesTyped DEF SetsPage, Kept
    <3>2. SpaceMap(mem', root[q]) = SpaceMap(mem, root[q])
      BY <3>1, SameMap
    <3> QED BY <1>1, <2>2, <3>2 DEF SpaceMaps
  <2> QED BY <2>1, <2>2
<1>6. X[s] = [p \in Pages |-> X[s][p]] /\ Y[s] = [p \in Pages |-> Y[s][p]]
  BY <1>2 DEF SpaceMap
<1>7. ASSUME NEW p \in Pages
      PROVE  Y[s][p] = IF p = page THEN IF X[s][p] = Block THEN Block ELSE v ELSE X[s][p]
  <2>1. /\ Y[s][p] = View(Last(mem', root[s], p)) /\ X[s][p] = View(Last(mem, root[s], p))
        /\ X[s][p] = Block <=> Last(mem, root[s], p).kind = "block"
    BY <1>2, <1>3, <1>4 DEF Shows
  <2>2. Last(mem', root[s], p) = IF p = page THEN e ELSE Last(mem, root[s], p)
    BY PagesTyped DEF SetsPage, Sets
  <2>3. CASE p # page
    BY <2>1, <2>2, <2>3
  <2>4. CASE p = page
    BY <2>1, <2>2, <2>4
  <2> QED BY <2>3, <2>4
<1>8. Y = [X EXCEPT ![s][page] = IF @ = Block THEN Block ELSE v]
  <2>1. SetIn(X, Y, s, page, v)
    BY <1>2, <1>5, <1>6, <1>7 DEF SetIn
  <2> QED BY <2>1, SetMaps
<1>9. s \in A!Live
  BY SameLive DEF Live
<1> QED BY <1>1, <1>8, <1>9 DEF A!Set, SpaceMaps, SpaceMap

\* A new space is a copy of the kernel.
LEMMA CreateStepAbs ==
    ASSUME VmmInv, NEW s \in Spaces, CreatesSpace(s), root[s] = NoRoot, cr3' = cr3
    PROVE  A!Create(s)
<1>1. PICK X, Y : X = SpaceMaps(mem, root) /\ Y = SpaceMaps(mem', root')
  OBVIOUS
<1>2. PICK t : /\ t # NoRoot /\ root' = [root EXCEPT ![s] = t]
               /\ \A p \in PageSet : Last(mem', t, p) = Last(mem, root[Kernel], p)
  BY DEF CreatesSpace
<1>3. /\ root \in [Spaces -> TableFrames \cup {NoRoot}] /\ Kernel \in Spaces
      /\ root[Kernel] # NoRoot
  BY InvFacts
<1>4. root'[s] = t /\ \A q \in Spaces : q # s => root'[q] = root[q]
  BY <1>2, <1>3
<1>5. /\ X = [q \in Spaces |-> X[q]] /\ Y = [q \in Spaces |-> Y[q]] /\ X[s] = NoSpace
      /\ X[Kernel] = SpaceMap(mem, root[Kernel]) /\ Y[s] = SpaceMap(mem', t)
  BY <1>1, <1>2, <1>3, <1>4 DEF SpaceMaps
<1>6. ASSUME NEW q \in Spaces, q # s PROVE Y[q] = X[q]
  <2>1. CASE root[q] = NoRoot
    BY <1>1, <1>4, <1>6, <2>1 DEF SpaceMaps
  <2>2. CASE root[q] # NoRoot
    <3>1. \A p \in Pages : Last(mem', root[q], p) = Last(mem, root[q], p)
      BY <1>6, <2>2, PagesTyped DEF CreatesSpace, Kept
    <3>2. SpaceMap(mem', root[q]) = SpaceMap(mem, root[q])
      BY <3>1, SameMap
    <3> QED BY <1>1, <1>4, <1>6, <2>2, <3>2 DEF SpaceMaps
  <2> QED BY <2>1, <2>2
<1>7. Y[s] = X[Kernel]
  <2>1. \A p \in Pages : Last(mem', t, p) = Last(mem, root[Kernel], p)
    BY <1>2, PagesTyped
  <2> QED BY <1>5, <2>1, SameMap
<1>8. Y = [X EXCEPT ![s] = X[Kernel]]
  BY <1>5, <1>6, <1>7
<1> QED BY <1>1, <1>5, <1>8 DEF A!Create, SpaceMaps, SpaceMap

\* The boot code adds blocks to the kernel.
LEMMA BlockStep ==
    ASSUME VmmInv, SetsBlocks, Live = {Kernel}, root' = root, cr3' = cr3
    PROVE  A!BlockMap
<1> DEFINE X == SpaceMaps(mem, root)
           Y == SpaceMaps(mem', root')
<1>1. X = SpaceMaps(mem, root) /\ Y = SpaceMaps(mem', root')
  OBVIOUS
<1> HIDE DEF X, Y
<1>2. Kernel \in Spaces /\ root[Kernel] # NoRoot /\ \A q \in Spaces : q # Kernel => root[q] = NoRoot
  BY InvFacts DEF Live
<1>3. Shows(mem, root[Kernel])
  BY <1>2, SameLive
<1>4. Shows(mem', root[Kernel])
  <2>1. Forested(mmu', mem', free', root')
    BY DEF SetsBlocks, TablesForest, Forested
  <2> QED BY <1>2, <2>1, SpaceShows
<1>5. /\ X = [q \in Spaces |-> X[q]] /\ Y = [q \in Spaces |-> Y[q]]
      /\ X[Kernel] = SpaceMap(mem, root[Kernel]) /\ Y[Kernel] = SpaceMap(mem', root[Kernel])
      /\ \A q \in Spaces : q # Kernel => X[q] = NoSpace /\ Y[q] = NoSpace
  BY <1>1, <1>2 DEF SpaceMaps
<1>6. PICK P : P = {p \in Pages : X[Kernel][p] = Unmapped /\ Y[Kernel][p] = Block}
  OBVIOUS
<1>7. ASSUME NEW p \in Pages
      PROVE  Y[Kernel][p] = IF p \in P THEN Block ELSE X[Kernel][p]
  <2>1. /\ X[Kernel][p] = View(Last(mem, root[Kernel], p))
        /\ Y[Kernel][p] = View(Last(mem', root[Kernel], p))
        /\ X[Kernel][p] = Unmapped <=> Last(mem, root[Kernel], p).kind = "none"
        /\ Y[Kernel][p] = Block <=> Last(mem', root[Kernel], p).kind = "block"
    BY <1>3, <1>4, <1>5 DEF Shows
  <2>2. \/ Last(mem', root[Kernel], p) = Last(mem, root[Kernel], p)
        \/ Last(mem, root[Kernel], p) = None /\ Last(mem', root[Kernel], p) = Huge
    BY PagesTyped DEF SetsBlocks
  <2>3. CASE Last(mem', root[Kernel], p) = Last(mem, root[Kernel], p)
    BY <1>6, <2>1, <2>3
  <2>4. CASE Last(mem, root[Kernel], p) = None /\ Last(mem', root[Kernel], p) = Huge
    <3>1. X[Kernel][p] = Unmapped /\ Y[Kernel][p] = Block
      BY <2>1, <2>4, EntryMade
    <3> QED BY <1>6, <3>1
  <2> QED BY <2>2, <2>3, <2>4
<1>8. Y[Kernel] = [p \in Pages |-> IF p \in P THEN Block ELSE X[Kernel][p]]
  <2>1. Y[Kernel] = [p \in Pages |-> Y[Kernel][p]]
    BY <1>5 DEF SpaceMap
  <2> QED BY <1>7, <2>1
<1>9. Y = [X EXCEPT ![Kernel] = [p \in Pages |-> IF p \in P THEN Block ELSE X[Kernel][p]]]
  BY <1>2, <1>5, <1>8
<1>10. Y = [X EXCEPT ![Kernel] = [p \in Pages |-> IF p \in P THEN Block ELSE @[p]]]
  BY <1>9
<1>11. P \in SUBSET {p \in Pages : X[Kernel][p] = Unmapped}
  BY <1>6
<1>12. A!Live = {Kernel}
  BY SameLive
<1>13. \E Q \in SUBSET {p \in Pages : X[Kernel][p] = Unmapped} :
         Y = [X EXCEPT ![Kernel] = [p \in Pages |-> IF p \in Q THEN Block ELSE @[p]]]
  BY <1>10, <1>11
<1>14. \E Q \in SUBSET {p \in Pages : SpaceMaps(mem, root)[Kernel][p] = Unmapped} :
         SpaceMaps(mem', root') =
           [SpaceMaps(mem, root) EXCEPT ![Kernel] =
              [p \in Pages |-> IF p \in Q THEN Block ELSE @[p]]]
  BY <1>13 DEF X, Y
<1> QED BY <1>12, <1>14, Zenon DEF A!BlockMap, SpaceMaps, SpaceMap

\* Every operation is a step of AddrSpace, or changes no page.
LEMMA SpacesNext ==
    ASSUME VmmInv, VmmNext, free' # {}
    PROVE  A!SpaceNext \/ UNCHANGED A!as
<1>0. mmu' = mmu
  BY DEF VmmNext
<1>1. ASSUME root' = root, cr3' = cr3, mem' = mem PROVE UNCHANGED A!as
  BY <1>1 DEF A!as, Look, Walk
<1>2. ASSUME NEW page \in Pages, paging_identity_map(page)
      PROVE  A!SpaceNext
  <2>1. SetsBlocks
    BY <1>0, <1>2, BlockEffect
  <2>2. root' = root /\ cr3' = cr3 /\ Live = {Kernel}
    BY <1>2 DEF paging_identity_map
  <2> QED BY <2>1, <2>2, BlockStep DEF A!SpaceNext
<1>3. ASSUME NEW page \in Pages, TlbFill(page)
      PROVE  UNCHANGED A!as
  BY <1>1, <1>3 DEF TlbFill
<1>4. ASSUME NEW page \in Pages, NEW s \in Spaces, vmm_unmap(s, page)
      PROVE  A!SpaceNext \/ UNCHANGED A!as
  <2>1. root' = root /\ cr3' = cr3 /\ root[s] # NoRoot
    BY <1>4 DEF vmm_unmap, Live
  <2>2. CASE mem' = mem
    BY <1>1, <2>1, <2>2
  <2>3. CASE SetsPage(s, page, None) /\ Last(mem, root[s], page).kind # "block"
    <3>1. PICK e \in Entry : e = None /\ e.kind = "none"
      BY EntryMade
    <3>2. e.kind # "table" /\ SetsPage(s, page, e) /\ View(e) = Unmapped
      BY <2>3, <3>1 DEF View
    <3>3. A!Set(s, page, Unmapped)
      BY <2>1, <2>3, <3>2, SetStep
    <3> QED BY <3>3 DEF A!SpaceNext
  <2> QED BY <1>0, <1>4, <2>2, <2>3, UnmapEffect
<1>5. ASSUME NEW page \in Pages, NEW s \in Spaces, NEW x \in Phys, NEW u \in BOOLEAN,
             s \in Unloaded, vmm_map(s, page, x, u)
      PROVE  A!SpaceNext
  <2>1. root' = root /\ cr3' = cr3 /\ root[s] # NoRoot
    BY <1>5 DEF vmm_map, Live
  <2>2. PICK l : l = Last(mem, root[s], page)
    OBVIOUS
  <2>3. l \in Entry /\ l.kind # "table"
    <3>1. PICK lv, own : Forest(mmu, mem, free, root, lv, own)
      BY InvFacts
    <3>2. page \in PageSet
      BY PagesTyped
    <3> QED BY <2>1, <2>2, <3>1, <3>2, LastKinds
  <2>4. PICK v : v = [phys |-> x, user |-> u]
    OBVIOUS
  <2>5. PICK e \in Entry : e = IF l.kind = "block" THEN l ELSE Page(x, u)
    BY <2>3, EntryMade
  <2>6. SetsPage(s, page, e)
    BY <1>0, <1>5, <2>2, <2>5, MapEffect
  <2>7. /\ e.kind # "table"
        /\ \/ l.kind = "block" /\ e = l
           \/ l.kind # "block" /\ View(e) = v
    BY <2>3, <2>4, <2>5, EntryMade DEF View
  <2>8. A!Set(s, page, v)
    BY <2>1, <2>2, <2>6, <2>7, SetStep
  <2> QED BY <2>4, <2>8 DEF A!SpaceNext
<1>6. ASSUME NEW s \in Spaces, vmm_create_address_space(s)
      PROVE  A!SpaceNext
  <2>1. CreatesSpace(s)
    BY <1>0, <1>6, CreateEffect
  <2>2. root[s] = NoRoot /\ cr3' = cr3
    BY <1>6 DEF vmm_create_address_space
  <2> QED BY <2>1, <2>2, CreateStepAbs DEF A!SpaceNext
<1>7. ASSUME NEW s \in Spaces, s \in Unloaded, vmm_destroy_address_space(s)
      PROVE  A!SpaceNext
  <2>1. /\ s \in A!Live \ {Kernel, cr3} /\ cr3' = cr3 /\ mem' = mem
        /\ root' = [root EXCEPT ![s] = NoRoot]
    BY <1>7, SameLive DEF vmm_destroy_address_space, Unloaded
  <2>2. SpaceMaps(mem', root') = [SpaceMaps(mem, root) EXCEPT ![s] = NoSpace]
    <3>1. root \in [Spaces -> TableFrames \cup {NoRoot}]
      BY InvFacts
    <3> QED BY <2>1, <3>1 DEF SpaceMaps
  <2>3. A!Destroy(s)
    BY <2>1, <2>2 DEF A!Destroy, SpaceMaps, SpaceMap
  <2> QED BY <2>3 DEF A!SpaceNext
<1>8. ASSUME NEW s \in Spaces, vmm_switch(s)
      PROVE  A!SpaceNext
  <2>1. s \in A!Live /\ cr3' = s /\ mem' = mem /\ root' = root
    BY <1>8, SameLive DEF vmm_switch
  <2>2. SpaceMaps(mem', root') = SpaceMaps(mem, root)
    BY <2>1
  <2>3. A!Switch(s)
    BY <2>1, <2>2 DEF A!Switch, SpaceMaps, SpaceMap
  <2> QED BY <2>3 DEF A!SpaceNext
<1> QED BY <1>2, <1>3, <1>4, <1>5, <1>6, <1>7, <1>8 DEF VmmNext, Operation, Unloaded, Live

-----------------------------------------------------------------------------
(* The theorems.  No allocation of a table is checked by the code: they    *)
(* hold for the behaviours in which the PMM always has a frame left.       *)

FramesLeft == free # {}

\* Every step of a behaviour that leaves a frame keeps the invariant.
LEMMA VmmInvStep ==
    VmmInv /\ [VmmNext]_vmm_vars /\ FramesLeft' => VmmInv'
<1> SUFFICES ASSUME VmmInv, [VmmNext]_vmm_vars, FramesLeft' PROVE VmmInv'
  OBVIOUS
<1>1. CASE VmmNext
  BY <1>1, VmmInvNext DEF FramesLeft
<1>2. CASE UNCHANGED vmm_vars
  BY <1>2 DEF vmm_vars, VmmInv, TablesForest, Live, TlbFresh, vmm_translate
<1> QED BY <1>1, <1>2

\* Every table of every live space is on a frame of its own and no frame leaks,
\* whatever spaces were created, mapped into and destroyed (vmm.c).
THEOREM VmmTablesPrivate == VmmSpec /\ []FramesLeft => []TablesPrivate
<1>1. VmmInv => TablesPrivate
  BY InvPrivate
<1> QED BY VmmInvInit, VmmInvStep, <1>1, PTL DEF VmmSpec

\* A page that was mapped for user mode is open to it on every level, whichever
\* kernel or user mappings made and shared the tables above it (table_entry).
THEOREM VmmUserPathOpen == VmmSpec /\ []FramesLeft => []UserPathOpen
<1>1. VmmInv => UserPathOpen
  BY InvOpen
<1> QED BY VmmInvInit, VmmInvStep, <1>1, PTL DEF VmmSpec

\* No cached translation outlives the table entry it came from: vmm_unmap and
\* vmm_switch drop what they change, the other operations change nothing that
\* the loaded space can have cached.
THEOREM VmmTlbFresh == VmmSpec /\ []FramesLeft => []TlbFresh
<1>1. VmmInv => TlbFresh
  BY DEF VmmInv
<1> QED BY VmmInvInit, VmmInvStep, <1>1, PTL DEF VmmSpec

\* The page tables implement separate address spaces: every operation changes
\* the pages it names in the space it names and no page of any other.
THEOREM VmmRefines == VmmSpec /\ []FramesLeft => ImplementsSpaces
<1>1. VmmInit => A!SpaceInit
  BY SpacesInit
<1>2. VmmInv /\ [VmmNext]_vmm_vars /\ FramesLeft' => [A!SpaceNext]_(A!as)
  <2> SUFFICES ASSUME VmmInv, [VmmNext]_vmm_vars, FramesLeft' PROVE [A!SpaceNext]_(A!as)
    OBVIOUS
  <2>1. CASE VmmNext
    BY <2>1, SpacesNext DEF FramesLeft
  <2>2. CASE UNCHANGED vmm_vars
    BY <2>2 DEF vmm_vars, A!as, Look, Walk
  <2> QED BY <2>1, <2>2
<1> QED BY VmmInvInit, VmmInvStep, <1>1, <1>2, PTL DEF VmmSpec, ImplementsSpaces, A!SpaceSpec

=============================================================================
