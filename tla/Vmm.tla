-------------------------------- MODULE Vmm --------------------------------
(***************************************************************************)
(* The virtual memory managers (arch/*/mm/vmm.c) and the boot identity map *)
(* (arch/x86_64/mm/paging.c): page tables in frames of the PMM.  Levels    *)
(* are numbered from the root, as on aarch64: 1 is the root (PML4, L1),    *)
(* Levels holds the pages; a block is a huge page.  An address is its      *)
(* index at every level.  The code runs in one thread, so an operation is  *)
(* one step.  Every caller passes VMM_PRESENT; whether a page is writable  *)
(* makes no difference to the walks and is left out.                       *)
(***************************************************************************)
EXTENDS Integers, FiniteSetsExt

CONSTANTS
    Levels,       \* 4 on x86_64, 3 on aarch64
    Entries,      \* entries of a table, 512
    TableFrames,  \* frames the PMM has to give, and those of the boot tables
    BootTables,   \* pml4_table, pdp_table, pd_table; boot_l1_table is the first
    L1Blocks,     \* entries of boot_l1_table that aarch64 fills, 0 and 1
    Spaces, Kernel, NoSpace,
    Pages,        \* pages callers map: their index at each level
    Phys,         \* data addresses callers map
    Unmapped, Block

Mapped == [phys : Phys, user : BOOLEAN]

ASSUME VmmAssumption ==
    /\ Levels \in Nat \ {0, 1} /\ Entries \in Nat \ {0}
    /\ TableFrames \subseteq Nat \ {0}
    /\ BootTables \in [1 .. Levels - 1 -> TableFrames]
    /\ \A j, k \in 1 .. Levels - 1 : BootTables[j] = BootTables[k] => j = k
    /\ L1Blocks \subseteq 0 .. Entries - 1
    /\ Kernel \in Spaces
    /\ Pages \subseteq [1 .. Levels -> 0 .. Entries - 1]
    /\ Unmapped # Block /\ Unmapped \notin Mapped /\ Block \notin Mapped
    /\ NoSpace \notin [Pages -> {Unmapped, Block} \cup Mapped]

VARIABLES
    mmu,    \* "x86_64" or "aarch64", fixed
    mem,    \* frame -> table; frame 0 is what a failed allocation returns
    free,   \* frames whose bit in the PMM is clear
    root,   \* space -> frame of its root table, NoRoot when there is none
    cr3,    \* the space that is loaded
    tlb     \* translations the CPU may hold: pairs <<page, entry>>

vmm_vars == <<mmu, mem, free, root, cr3, tlb>>

NoRoot == -1
NULL   == -1
Idx    == 0 .. Entries - 1
Places == TableFrames \cup {0}

None        == [kind |-> "none", addr |-> 0, user |-> FALSE]
Table(f, u) == [kind |-> "table", addr |-> f, user |-> u]
Huge        == [kind |-> "block", addr |-> 0, user |-> FALSE]
Page(a, u)  == [kind |-> "page", addr |-> a, user |-> u]

Entry ==
    {None, Huge} \cup [kind : {"table"}, addr : Places, user : BOOLEAN]
                 \cup [kind : {"page"}, addr : Phys, user : BOOLEAN]

Zeroed == [i \in Idx |-> None]

-----------------------------------------------------------------------------
(* Every operation maps st = [mem, free] to a new one.                     *)

TableState == [mem : [Places -> [Idx -> Entry]], free : SUBSET TableFrames]

st0 == [mem |-> mem, free |-> free]

\* pmm_alloc_frame and zeroed_table: the lowest frame, or frame 0 when there
\* is none, which no caller here looks at.
alloc_table(st) ==
    LET f == IF st.free = {} THEN 0 ELSE Min(st.free)
    IN  [st |-> [mem |-> [st.mem EXCEPT ![f] = Zeroed], free |-> st.free \ {f}], t |-> f]

\* Mutant of x86_table: an existing table is not widened.
NotWidened(e, f, user) == IF e.kind = "none" THEN Table(f, user) ELSE e

\* x86_64: a table entry carries VMM_USER, widened when a user page needs it.
x86_table(e, f, user) ==
    IF e.kind = "none" THEN Table(f, user) ELSE [e EXCEPT !.user = @ \/ user]

\* aarch64: table entries carry no permissions, the page alone decides.
aarch64_table(e, f, user) == IF e.kind = "none" THEN Table(f, TRUE) ELSE e

table_entry(e, f, user) ==
    IF mmu = "x86_64" THEN x86_table(e, f, user) ELSE aarch64_table(e, f, user)

\* The child table, made if need be; NULL when the entry is a block.
get_or_create_table(st, parent, i, user) ==
    LET e == st.mem[parent][i]
        r == IF e.kind = "none" THEN alloc_table(st) ELSE [st |-> st, t |-> e.addr]
    IN  IF e.kind = "block" THEN [st |-> st, t |-> NULL]
        ELSE [st |-> [r.st EXCEPT !.mem[parent][i] = table_entry(e, r.t, user)], t |-> r.t]

\* vmm_map: the table of the last level, through the ones above it, and the page.
MapWalk(st, r, page, leaf) ==
    LET walk[k \in 0 .. Levels - 1] ==
          IF k = 0 THEN [st |-> st, t |-> r]
          ELSE LET w == walk[k - 1]
               IN  IF w.t = NULL THEN w
                   ELSE get_or_create_table(w.st, w.t, page[k], leaf.user)
        pt == walk[Levels - 1]
    IN  IF pt.t = NULL THEN pt.st ELSE [pt.st EXCEPT !.mem[pt.t][page[Levels]] = leaf]

\* The entries a walk of the tables reads, level by level; it stays at one that
\* is absent or a block.
Walk(m, r, page) ==
    LET entry[k \in 1 .. Levels] ==
          IF k = 1 THEN m[r][page[1]]
          ELSE LET e == entry[k - 1]
               IN  IF e.kind = "table" THEN m[e.addr][page[k]] ELSE e
    IN  entry

\* The walk of vmm_unmap and vmm_translate: the table of the last level, or NULL
\* when an entry on the way is absent or a block.
PtOf(m, r, page) ==
    LET e == Walk(m, r, page)[Levels - 1] IN IF e.kind = "table" THEN e.addr ELSE NULL

\* Mutant of clone_leaf: child tables are shared with the source.
CloneAliases(e, level) == TRUE

\* An entry that clone_table_level copies as it is.
clone_leaf(e, level) == level = Levels \/ e.kind # "table"

\* A call of clone_table_level: the first n entries of src, a table of this
\* level, go to dst, the frame that was allocated for its copy.
CloneCall ==
    [level : 1 .. Levels, n : 0 .. Entries, st : TableState, src : Places, dst : Places]

\* st after the call: new frames for the tables below, the same leaves.
clone_table_level[x \in CloneCall] ==
    IF x.n = 0 THEN x.st
    ELSE LET i   == x.n - 1
             r   == clone_table_level[[x EXCEPT !.n = i]]
             e   == r.mem[x.src][i]
             new == alloc_table(r)
             c   == clone_table_level[[level |-> x.level + 1, n |-> Entries,
                                       st |-> new.st, src |-> e.addr, dst |-> new.t]]
         IN  IF e.kind = "none" THEN r
             ELSE IF clone_leaf(e, x.level) THEN [r EXCEPT !.mem[x.dst][i] = e]
             ELSE [c EXCEPT !.mem[x.dst][i] = Table(new.t, e.user)]

\* Mutant of has_table: the tables of the last level are not freed.
has_upper_table(e, level) == level < Levels - 1 /\ e.kind = "table"

\* An entry that free_table_level follows.
has_table(e, level) == level < Levels /\ e.kind = "table"

\* The frames free_table_level gives back: every table, no leaf.
free_table_level(m, r) ==
    LET at[k \in 1 .. Levels] ==
          IF k = 1 THEN {r}
          ELSE {m[x[1]][x[2]].addr :
                  x \in {y \in at[k - 1] \X Idx : has_table(m[y[1]][y[2]], k - 1)}}
    IN  UNION {at[k] : k \in 1 .. Levels}

-----------------------------------------------------------------------------
\* The boot maps.  x86_64: a table at each level but the last, each the first
\* entry of the one above, the lowest full of blocks.  aarch64: blocks in the root.
setup_page_tables ==
    [f \in Places |->
       IF \E k \in 1 .. Levels - 1 : BootTables[k] = f
       THEN LET k == CHOOSE k \in 1 .. Levels - 1 : BootTables[k] = f
            IN  IF k = Levels - 1 THEN [i \in Idx |-> Huge]
                ELSE [Zeroed EXCEPT ![0] = Table(BootTables[k + 1], FALSE)]
       ELSE Zeroed]

aarch64_mmu_init ==
    [f \in Places |-> [i \in Idx |-> IF f = BootTables[1] /\ i \in L1Blocks THEN Huge ELSE None]]

VmmInit ==
    /\ \/ /\ mmu = "x86_64" /\ mem = setup_page_tables
          /\ free = TableFrames \ {BootTables[k] : k \in 1 .. Levels - 1}
       \/ /\ mmu = "aarch64" /\ mem = aarch64_mmu_init
          /\ free = TableFrames \ {BootTables[1]}
    /\ root = [s \in Spaces |-> IF s = Kernel THEN BootTables[1] ELSE NoRoot]
    /\ cr3 = Kernel
    /\ tlb = {}

Live == {s \in Spaces : root[s] # NoRoot}

SetMem(st) == mem' = st.mem /\ free' = st.free

ensure_table(st, parent, i) ==
    LET e == st.mem[parent][i]
        r == alloc_table(st)
    IN  IF e.kind # "none" THEN [st |-> st, t |-> e.addr]
        ELSE [st |-> [r.st EXCEPT !.mem[parent][i] = Table(r.t, FALSE)], t |-> r.t]

\* One block: the tables above it are made, a mapped block is left alone.
BlockWalk(st, r, page) ==
    LET walk[k \in 0 .. Levels - 2] ==
          IF k = 0 THEN [st |-> st, t |-> r]
          ELSE LET w == walk[k - 1] IN ensure_table(w.st, w.t, page[k])
        pd == walk[Levels - 2]
        i  == page[Levels - 1]
    IN  IF pd.st.mem[pd.t][i].kind # "none" THEN pd.st
        ELSE [pd.st EXCEPT !.mem[pd.t][i] = Huge]

\* x86_64, for the framebuffer, before any other space exists.
paging_identity_map(page) ==
    /\ mmu = "x86_64"
    /\ Live = {Kernel}
    /\ SetMem(BlockWalk(st0, root[Kernel], page))
    /\ tlb' = {}
    /\ UNCHANGED <<root, cr3>>

vmm_create_address_space(s) ==
    /\ root[s] = NoRoot
    /\ LET new == alloc_table(st0)
       IN  /\ SetMem(clone_table_level[[level |-> 1, n |-> Entries, st |-> new.st,
                                        src |-> root[Kernel], dst |-> new.t]])
           /\ root' = [root EXCEPT ![s] = new.t]
    /\ UNCHANGED <<cr3, tlb>>

\* The kernel's own space is left alone.
vmm_destroy_address_space(s) ==
    /\ s \in Live \ {Kernel}
    /\ free' = free \cup free_table_level(mem, root[s])
    /\ root' = [root EXCEPT ![s] = NoRoot]
    /\ UNCHANGED <<mem, cr3, tlb>>

\* No translation is dropped here: there is no invlpg.
vmm_map(s, page, phys, user) ==
    /\ s \in Live
    /\ SetMem(MapWalk(st0, root[s], page, Page(phys, user)))
    /\ UNCHANGED <<root, cr3, tlb>>

\* Mutant of vmm_unmap: the cached translation survives.
UnmapNoInvlpg(s, page) ==
    /\ s \in Live
    /\ LET pt == PtOf(mem, root[s], page)
       IN  mem' = IF pt = NULL THEN mem ELSE [mem EXCEPT ![pt][page[Levels]] = None]
    /\ UNCHANGED <<free, root, cr3, tlb>>

vmm_unmap(s, page) ==
    /\ s \in Live
    /\ LET pt == PtOf(mem, root[s], page)
       IN  IF pt = NULL THEN UNCHANGED <<mem, tlb>>
           ELSE /\ mem' = [mem EXCEPT ![pt][page[Levels]] = None]
                /\ tlb' = {x \in tlb : x[1] # page}
    /\ UNCHANGED <<free, root, cr3>>

\* vmm_translate: the entry of a page, None when it is not mapped.
vmm_translate(s, page) ==
    LET pt == PtOf(mem, root[s], page)
    IN  IF pt = NULL THEN None ELSE mem[pt][page[Levels]]

vmm_switch(s) ==
    /\ s \in Live
    /\ cr3' = s
    /\ tlb' = {}
    /\ UNCHANGED <<mem, free, root>>

\* The CPU walks the loaded tables for a page and keeps the result.
TlbFill(page) ==
    /\ vmm_translate(cr3, page) # None
    /\ tlb' = tlb \cup {<<page, vmm_translate(cr3, page)>>}
    /\ UNCHANGED <<mem, free, root, cr3>>

\* What the callers of vmm_map and vmm_destroy_address_space keep to, process_run
\* and vmm_selftest: they map into a space before they switch to it and destroy
\* it after they have switched back to the kernel's.  vmm.c does not check it.
Unloaded == Live \ {Kernel, cr3}

Operation ==
    \/ \E page \in Pages :
         \/ paging_identity_map(page) \/ TlbFill(page)
         \/ \E s \in Spaces : vmm_unmap(s, page)
         \/ \E s \in Unloaded, a \in Phys, u \in BOOLEAN : vmm_map(s, page, a, u)
    \/ \E s \in Spaces : vmm_create_address_space(s) \/ vmm_switch(s)
    \/ \E s \in Unloaded : vmm_destroy_address_space(s)

VmmNext == Operation /\ UNCHANGED mmu

VmmSpec == VmmInit /\ [][VmmNext]_vmm_vars

-----------------------------------------------------------------------------
\* Entries that refer to a table: <<table, index>> pairs of live trees.
Tables(s) == free_table_level(mem, root[s])

Referrers(f) ==
    {x \in (UNION {Tables(s) : s \in Live}) \X Idx :
       mem[x[1]][x[2]].kind = "table" /\ mem[x[1]][x[2]].addr = f}

\* Every table sits on a frame of its own, reached from one entry or one root,
\* and every frame is either free or a table of a live space: a clone shares no
\* table with its source and destroying a space leaks none, frees no other's and
\* no page, and leaves the CPU with a space that exists.
TablesPrivate ==
    /\ free \subseteq TableFrames /\ cr3 \in Live
    /\ TableFrames \ free = UNION {Tables(s) : s \in Live}
    /\ \A s, t \in Live : s # t => Tables(s) \cap Tables(t) = {}
    /\ \A f \in TableFrames \ free :
         Cardinality(Referrers(f)) = IF \E s \in Live : root[s] = f THEN 0 ELSE 1

\* A page mapped for user mode can be reached in user mode: every entry on the
\* path allows it, whichever mapping made the tables.
UserPathOpen ==
    \A s \in Live, p \in Pages : vmm_translate(s, p).user =>
      \A k \in 1 .. Levels : Walk(mem, root[s], p)[k].user

\* The CPU never uses a translation that the loaded tables no longer hold.
TlbFresh == \A x \in tlb : vmm_translate(cr3, x[1]) = x[2]

\* What a page of a space is to its users.
Look(m, r, page) ==
    LET e == Walk(m, r, page)[Levels]
    IN  IF e.kind = "none" THEN Unmapped
        ELSE IF e.kind = "block" THEN Block
        ELSE [phys |-> e.addr, user |-> e.user]

A == INSTANCE AddrSpace WITH
       active <- cr3,
       maps <- [s \in Spaces |->
                  IF root[s] = NoRoot THEN NoSpace
                  ELSE [p \in Pages |-> Look(mem, root[s], p)]]

\* The tables implement separate address spaces: an operation on one changes
\* what its pages are and nothing in any other, the kernel's included.
ImplementsSpaces == A!SpaceSpec
=============================================================================
