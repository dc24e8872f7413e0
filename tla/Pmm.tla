-------------------------------- MODULE Pmm --------------------------------
(***************************************************************************)
(* The physical frame allocator (mm/pmm.c) together with the architecture  *)
(* code that feeds it the memory map (arch/x86_64/mm/multiboot2.c and      *)
(* arch_mm_init of arch/aarch64/arch.c).                                   *)
(*                                                                         *)
(* The bitmap is kept as the set `used' of frames whose bit is 1.  Because *)
(* the bitmap lives in ordinary RAM, a frame that holds part of it and is  *)
(* handed out lets its holder overwrite bits: that is zeroed_table below.  *)
(***************************************************************************)
EXTENDS Integers, Sequences, FiniteSets

CONSTANTS
    PMM_FRAME_SIZE,      \* bytes of a frame (4096)
    BITMAP_ALIGN,        \* alignment of the bitmap's address (8)
    BITS,                \* bits of a bitmap byte (8)
    LOW_MEM_RESERVED,    \* nothing below it is used on x86_64 (1 MB)
    IDENTITY_MAP_LIMIT,  \* nothing above it is used on x86_64 (1 GB)
    MAX_REGIONS,         \* ARRAY_SIZE(regions) in x86_64_mm_init (64)
    MemoryMaps,          \* multiboot2 memory maps the firmware may report
    RAM_BASE, RAM_SIZE,  \* the fixed region of aarch64
    KernelImages,        \* possible <<_kernel_start, _kernel_end>>
    Counts               \* run lengths callers ask of pmm_alloc_frames

ASSUME GeometryAssumption ==
    /\ PMM_FRAME_SIZE \in Nat \ {0}
    /\ BITMAP_ALIGN \in Nat \ {0}
    /\ BITS \in Nat \ {0}
    /\ MAX_REGIONS \in Nat
    /\ Counts \subseteq Nat

\* Region bases are frame aligned, and no region reaches below frame 1.
ASSUME MapAssumption ==
    /\ LOW_MEM_RESERVED \in Nat /\ LOW_MEM_RESERVED >= PMM_FRAME_SIZE
    /\ LOW_MEM_RESERVED % PMM_FRAME_SIZE = 0
    /\ IDENTITY_MAP_LIMIT \in Nat
    /\ RAM_BASE \in Nat /\ RAM_BASE >= PMM_FRAME_SIZE
    /\ RAM_BASE % PMM_FRAME_SIZE = 0
    /\ RAM_SIZE \in Nat
    /\ \A m \in MemoryMaps :
         /\ m \in Seq([addr : Nat, len : Nat, available : BOOLEAN])
         /\ \A i \in 1..Len(m) : m[i].addr >= LOW_MEM_RESERVED
                                    => m[i].addr % PMM_FRAME_SIZE = 0

ASSUME KernelAssumption ==
    \A k \in KernelImages : k \in Nat \X Nat /\ k[1] <= k[2]

VARIABLES
    arch,          \* the architecture this kernel was built for
    boot,          \* how far memory initialisation has come
    mmap,          \* memory map entries x86_64_mm_init has still to read
    regions,       \* the list handed to pmm_init; pmm_init consumes it
    reserved,      \* <<reserved_start, reserved_end>>
    total_frames,
    used,          \* frames whose bitmap bit is 1
    free_frames,
    held,          \* history: frames some caller owns
    shared,        \* history: frames handed out while already owned
    ram,           \* history: usable extents <<lo, hi>> that were reported
    clobbered      \* history: an owner has written over part of the bitmap

vars == <<arch, boot, mmap, regions, reserved, total_frames, used, free_frames,
          held, shared, ram, clobbered>>

-----------------------------------------------------------------------------
ALIGN_UP(x, a)   == ((x + a - 1) \div a) * a
ALIGN_DOWN(x, a) == (x \div a) * a
Frame(addr)      == addr \div PMM_FRAME_SIZE
Frames           == 0 .. total_frames - 1
Top(r)           == r.base + r.length

bitmap_bytes == (total_frames + BITS - 1) \div BITS
bitmap       == ALIGN_UP(reserved[2], BITMAP_ALIGN)
bitmap_end   == bitmap + bitmap_bytes

\* The frames mark_range(start, end, ...) visits: whole frames of the range.
mark_range(start, end) ==
    { f \in Frames : /\ Frame(start) <= f
                     /\ f < Frame(ALIGN_DOWN(end, PMM_FRAME_SIZE)) }

\* The frames whose bits are stored inside frame f.
BitsIn(f) == { g \in Frames : Frame(bitmap + (g \div BITS)) = f }

-----------------------------------------------------------------------------
Init ==
    /\ arch \in {"x86_64", "aarch64"}
    /\ boot = "scan"
    /\ mmap \in MemoryMaps
    /\ regions = << >>
    /\ reserved \in KernelImages
    /\ total_frames = 0
    /\ used = {}
    /\ free_frames = 0
    /\ held = {}
    /\ shared = {}
    /\ ram = {}
    /\ clobbered = FALSE

\* Mutant of ScanEntry: entries are not clamped from below.
ScanUnclamped ==
    /\ arch = "x86_64"
    /\ boot = "scan"
    /\ mmap # << >>
    /\ Len(regions) < MAX_REGIONS
    /\ LET e  == Head(mmap)
           hi == IF e.addr + e.len > IDENTITY_MAP_LIMIT
                 THEN IDENTITY_MAP_LIMIT ELSE e.addr + e.len
       IN  IF e.available /\ e.addr < hi
           THEN /\ regions' = Append(regions, [base |-> e.addr, length |-> hi - e.addr])
                /\ ram' = ram \cup {<<e.addr, e.addr + e.len>>}
           ELSE UNCHANGED <<regions, ram>>
    /\ mmap' = Tail(mmap)
    /\ UNCHANGED <<arch, boot, reserved, total_frames, used, free_frames, held, shared, clobbered>>

\* One entry of the multiboot2 map: available RAM, clamped to the part that
\* is above the BIOS area and inside the identity mapping.
ScanEntry ==
    /\ arch = "x86_64"
    /\ boot = "scan"
    /\ mmap # << >>
    /\ Len(regions) < MAX_REGIONS
    /\ LET e  == Head(mmap)
           lo == IF e.addr < LOW_MEM_RESERVED THEN LOW_MEM_RESERVED ELSE e.addr
           hi == IF e.addr + e.len > IDENTITY_MAP_LIMIT
                 THEN IDENTITY_MAP_LIMIT ELSE e.addr + e.len
       IN  IF e.available /\ lo < hi
           THEN /\ regions' = Append(regions, [base |-> lo, length |-> hi - lo])
                /\ ram' = ram \cup {<<e.addr, e.addr + e.len>>}
           ELSE UNCHANGED <<regions, ram>>
    /\ mmap' = Tail(mmap)
    /\ UNCHANGED <<arch, boot, reserved, total_frames, used, free_frames, held, shared, clobbered>>

\* x86_64_mm_init calls pmm_init once the map is read or the array is full.
ScanDone ==
    /\ arch = "x86_64"
    /\ boot = "scan"
    /\ mmap = << >> \/ Len(regions) = MAX_REGIONS
    /\ boot' = "size"
    /\ UNCHANGED <<arch, mmap, regions, reserved, total_frames, used, free_frames,
                   held, shared, ram, clobbered>>

\* aarch64 does not parse the device tree: one fixed region.
arch_mm_init ==
    /\ arch = "aarch64"
    /\ boot = "scan"
    /\ regions' = <<[base |-> RAM_BASE, length |-> RAM_SIZE]>>
    /\ ram' = {<<RAM_BASE, RAM_BASE + RAM_SIZE>>}
    /\ boot' = "size"
    /\ UNCHANGED <<arch, mmap, reserved, total_frames, used, free_frames, held, shared, clobbered>>

\* First half of pmm_init: size the bitmap by the highest top of a region and
\* set every bit.
PmmSize ==
    /\ boot = "size"
    /\ \E highest \in {0} \cup {Top(regions[i]) : i \in 1..Len(regions)} :
         /\ \A i \in 1..Len(regions) : Top(regions[i]) <= highest
         /\ total_frames' = Frame(highest)
    /\ used' = 0 .. total_frames' - 1
    /\ free_frames' = 0
    /\ boot' = "mark"
    /\ UNCHANGED <<arch, mmap, regions, reserved, held, shared, ram, clobbered>>

\* Mutant of MarkRegion: bits that are already clear are counted again.
MarkCountsTwice ==
    /\ boot = "mark"
    /\ regions # << >>
    /\ LET r == mark_range(Head(regions).base, Top(Head(regions)))
       IN  /\ used' = used \ r
           /\ free_frames' = free_frames + Cardinality(r)
    /\ regions' = Tail(regions)
    /\ UNCHANGED <<arch, boot, mmap, reserved, total_frames, held, shared, ram, clobbered>>

\* One iteration of pmm_init's second loop: free the frames of a region,
\* counting only the bits that were still set (regions may overlap).
MarkRegion ==
    /\ boot = "mark"
    /\ regions # << >>
    /\ LET r == mark_range(Head(regions).base, Top(Head(regions)))
       IN  /\ used' = used \ r
           /\ free_frames' = free_frames + Cardinality(r \cap used)
    /\ regions' = Tail(regions)
    /\ UNCHANGED <<arch, boot, mmap, reserved, total_frames, held, shared, ram, clobbered>>

\* Mutant of MarkReserved: the kernel image is reserved, the bitmap is not.
MarkKernelOnly ==
    /\ boot = "mark"
    /\ regions = << >>
    /\ LET r == mark_range(reserved[1], reserved[2])
       IN  /\ used' = used \cup r
           /\ free_frames' = free_frames - Cardinality(r \ used)
    /\ boot' = "ready"
    /\ UNCHANGED <<arch, mmap, regions, reserved, total_frames, held, shared, ram, clobbered>>

\* The end of pmm_init: the kernel image and the bitmap are taken back.
MarkReserved ==
    /\ boot = "mark"
    /\ regions = << >>
    /\ LET r == mark_range(reserved[1], bitmap_end)
       IN  /\ used' = used \cup r
           /\ free_frames' = free_frames - Cardinality(r \ used)
    /\ boot' = "ready"
    /\ UNCHANGED <<arch, mmap, regions, reserved, total_frames, held, shared, ram, clobbered>>

-----------------------------------------------------------------------------
\* Mutant of Grant: the loop that sets the bits stops one frame early.
GrantShort(G) ==
    /\ used' = used \cup {f \in G : f + 1 \in G}
    /\ free_frames' = free_frames - Cardinality(G)
    /\ held' = held \cup G
    /\ shared' = shared \cup (held \cap G)
    /\ UNCHANGED <<arch, boot, mmap, regions, reserved, total_frames, ram, clobbered>>

\* Hand the frames of G to a caller (the bits set, the count reduced).
Grant(G) ==
    /\ used' = used \cup G
    /\ free_frames' = free_frames - Cardinality(G)
    /\ held' = held \cup G
    /\ shared' = shared \cup (held \cap G)
    /\ UNCHANGED <<arch, boot, mmap, regions, reserved, total_frames, ram, clobbered>>

\* Lowest free frame; with every bit set the call returns 0 and changes nothing.
pmm_alloc_frame ==
    /\ boot = "ready"
    /\ \E f \in Frames \ used :
         /\ \A g \in Frames \ used : f <= g
         /\ Grant({f})

\* Lowest run of `count' free frames (PmmScan models the loop that finds it).
pmm_alloc_frames(count) ==
    /\ boot = "ready"
    /\ count # 0
    /\ \E f \in Frames :
         /\ f .. f + count - 1 \subseteq Frames \ used
         /\ \A g \in Frames : g .. g + count - 1 \subseteq Frames \ used => f <= g
         /\ Grant(f .. f + count - 1)

\* Clear the set bits of F; frames whose bit is clear are skipped.
Release(F) ==
    /\ used' = used \ F
    /\ free_frames' = free_frames + Cardinality(F \cap used)
    /\ held' = held \ F
    /\ UNCHANGED <<arch, boot, mmap, regions, reserved, total_frames, shared, ram, clobbered>>

\* A caller frees a frame it owns, or one that is free or out of range (the
\* early return).
pmm_free_frame(f) ==
    /\ boot = "ready"
    /\ f \in held \/ f \notin used
    /\ Release({f} \cap Frames)

pmm_free_frames(f, count) ==
    /\ boot = "ready"
    /\ \A g \in f .. f + count - 1 : g \in held \/ g \notin used
    /\ Release((f .. f + count - 1) \cap Frames)

\* The owner of a frame clears it before use as a page table (or as the page
\* of a program); bits of the bitmap stored in that frame become 0.
zeroed_table(f) ==
    /\ boot = "ready"
    /\ f \in held
    /\ used' = used \ BitsIn(f)
    /\ clobbered' = (clobbered \/ BitsIn(f) # {})
    /\ UNCHANGED <<arch, boot, mmap, regions, reserved, total_frames, free_frames,
                   held, shared, ram>>

Next ==
    \/ ScanEntry
    \/ ScanDone
    \/ arch_mm_init
    \/ PmmSize
    \/ MarkRegion
    \/ MarkReserved
    \/ pmm_alloc_frame
    \/ \E count \in Counts : pmm_alloc_frames(count)
    \/ \E f \in 0 .. total_frames : pmm_free_frame(f)
    \/ \E f \in 0 .. total_frames, count \in Counts : pmm_free_frames(f, count)
    \/ \E f \in held : zeroed_table(f)

Spec == Init /\ [][Next]_vars

-----------------------------------------------------------------------------
TypeOK ==
    /\ arch \in {"x86_64", "aarch64"}
    /\ boot \in {"scan", "size", "mark", "ready"}
    /\ mmap \in Seq([addr : Nat, len : Nat, available : BOOLEAN])
    /\ regions \in Seq([base : Nat, length : Nat])
    /\ reserved \in Nat \X Nat
    /\ total_frames \in Nat
    /\ used \subseteq Frames
    /\ free_frames \in Int
    /\ held \subseteq Frames
    /\ shared \subseteq Frames
    /\ ram \subseteq Nat \X Nat
    /\ clobbered \in BOOLEAN

\* pmm_free_frame_count() is the number of clear bits, whatever the regions
\* overlap and whatever is freed twice, until an owner of the frame the bitmap
\* ends in writes over the bitmap (OnlyTailLost says when that can happen).
FreeCountExact == clobbered \/ free_frames = Cardinality(Frames \ used)

\* No frame is handed to two owners (pmm_alloc_frame, pmm_alloc_frames), until
\* an owner writes over the bitmap.
NoSharedFrame == clobbered \/ shared = {}

\* A frame handed out lies inside RAM the firmware reported as usable and is
\* never frame 0, which callers read as failure ("0 is never a valid
\* handed-out frame", mm/pmm.c:81); on x86_64 it is also above the BIOS area
\* and inside the identity mapping, so that the kernel can dereference it.
UsableFrame(f) ==
    /\ f # 0
    /\ \E r \in ram : /\ r[1] <= f * PMM_FRAME_SIZE
                      /\ (f + 1) * PMM_FRAME_SIZE <= r[2]
    /\ arch = "x86_64" => /\ LOW_MEM_RESERVED <= f * PMM_FRAME_SIZE
                          /\ (f + 1) * PMM_FRAME_SIZE <= IDENTITY_MAP_LIMIT

\* Every frame handed out is usable in that sense, until an owner writes over
\* the bitmap (the bits of frames outside RAM are cleared with it).
HeldIsRam == clobbered \/ \A f \in held : UsableFrame(f)

\* The frame contains a byte of the kernel image or of the bitmap.
Overlaps(f) ==
    /\ reserved[1] < (f + 1) * PMM_FRAME_SIZE
    /\ f * PMM_FRAME_SIZE < bitmap_end

\* mark_range rounds the end of the reservation down (mm/pmm.c:33), and this
\* is all that is lost by it: of the frames that hold the kernel image and the
\* bitmap only the one the bitmap ends in is ever handed out, and its owner
\* can write over bits only if the bitmap does not end on a frame boundary.
OnlyTailLost ==
    /\ clobbered => bitmap_end % PMM_FRAME_SIZE # 0
    /\ clobbered \/ \A f \in held : Overlaps(f) => f = Frame(bitmap_end)

\* What the comment in pmm_init says of the bitmap, it "is itself part of the
\* reservation" (mm/pmm.c:57-58): no frame handed out contains a byte of it or
\* of the kernel image.
ReservationKept == \A f \in held : ~Overlaps(f)
=============================================================================
