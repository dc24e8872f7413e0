# MegKer in TLA+

A verification project kept beside MegKer, a small preemptive kernel for x86_64
and aarch64 written in C and assembly. The modules model the kernel's own logic
(memory, scheduling, address spaces, processes, drivers, filesystem, windows);
TLC checks them on small instances, and TLAPS proves every safety property
for every value of the constants. Paths below are relative to the root of the repository.

## 1. The system and its parts

`kernel_main` (kernel/kernel.c) brings the parts up in a fixed order: console,
memory map and PMM, heap, interrupts **on**, timer at 100 Hz, late drivers and a
user program (`process_run`), filesystem, GUI, and only then `sched_init` and
the first `thread_create`. After that one idle loop calls `gui_update`, or the
keyboard when there is no framebuffer, and the timer preempts it. There is one
CPU. Concurrency comes from interrupts (timer, keyboard, mouse), from threads
the timer switches between, and from devices that write memory on their own
(virtio rings, ATA registers, fw_cfg).

| part | state | operations | talks to | what is hard | what makes it correct |
|---|---|---|---|---|---|
| physical memory, `mm/pmm.c`, `multiboot2.c`, `arch_mm_init` | bitmap, `free_frames`, regions | read the map, `pmm_init`, alloc/free of one frame and of runs | everyone | rounding and clamping at the ends of regions; the bitmap lies in the RAM it describes | a frame has one owner, is RAM, is not the kernel or the bitmap (which the code keeps but for one frame); the count is exact |
| heap, `mm/heap.c` | arenas and block lists inside frames | `heap_init`, `kmalloc`, `kfree` | PMM | splitting, merging, growing at odd sizes | blocks tile their arenas; live allocations are disjoint |
| scheduler, `kernel/sched.c`, context switch, interrupt stubs | `current`, ring of `thread_t`, saved stack pointers, interrupt flag | `sched_init`, `thread_create`, tick, switch, trampoline, `thread_exit` and `sched_yield` (offered; nobody in the kernel calls them yet) | timer, heap | the timer strikes between any two accesses | a context belongs to its thread; nobody runs with interrupts off for ever; the ring is whole; everyone runs |
| keyboard, `keyboard.c` | ring buffer, shift | IRQ handler, `keyboard_getchar` | idle loop | handler against reader, buffer full | a bounded queue that drops when full |
| mouse, `mouse.c` | pointer, packet, dirty flag | IRQ handler, `mouse_get_state` | GUI | handler against reader | no change goes unreported |
| windows and drawing, `gui/gui.c`, `framebuffer.c`, the blinker thread | window list, drag, cursor, pixels | `gui_init`, `gui_update`, rectangles, characters, strings | mouse, framebuffer, ticks, second thread | indices that move, signed against unsigned | windows are kept, the grabbed one follows, nothing is drawn outside |
| page tables, `mm/vmm.c` of both architectures, `paging.c` | table trees, CR3/TTBR0, TLB | create, destroy, map, unmap, translate, switch, identity map | PMM, processes | aliasing of tables, stale translations | spaces are independent maps |
| processes, `process.c`, `syscall.c`, traps | image, launch stack, saved kernel stack | `process_run`, system calls, exit | VMM, heap, PMM | an exit that abandons its trap | the image is loaded; the CPU stays on live memory; interrupts come back (`IrqsServed`) |
| virtio, `virtio.c`, `virtio_input.c` | rings, claims, key buffer, pointer | probe, publish, poll, both polled reads | device, GUI | the device works concurrently, indices wrap | a buffer has one owner; events come once, in order, all of them |
| disk, `ata.c`, `virtio_blk.c` | driver and device registers | `read_sector` | filesystem | failures, late answers | success means the sector that was asked for (after a read that was given up, it may be the sector of that one) |
| filesystem, `fs/vfs.c`, `tools/mkfs.py` | superblock | `vfs_init`, `vfs_read_file` | disk | two programs that agree on a format only | the right bytes, or a failure that means something |
| text console, `console.c`, `drivers/console.c` | cursor, 25 rows of cells | print, wrap, tab, newline, scroll | idle loop | wrap and scroll at the corner | the screen is the end of what was printed |
| interrupt controllers and timer, `idt.c`, `gic.c`, `pit.c`, `timer.c` | handlers, masks, lines raised and in service | install, unmask, dispatch, EOI | every driver | drivers install handlers with interrupts on; two EOIs for the second PIC | no line open without a handler; every interrupt is served |
| ramfb, `arch/aarch64/drivers/framebuffer.c` | picture, DMA request | find, take frames, hand over | fw_cfg, PMM | answers in the other byte order while the driver polls | the device shows what the kernel draws |
| kernel entry, `kernel/kernel.c`, `arch.c` | where boot is | `kernel_main`, `arch_late_init`, self-test, `kernel_panic` | all | order, interrupts, one step failing | boot ends in the idle loop or in the panic |
| UART, fonts, early boot code, user programs | device registers, tables | output | all | | not modelled, see section 8 |

`PROJECT.json` lists the components, every hazard at its line, and the lines each
definition models.

## 2. Modules

State variables and actions carry the names of the C variables and functions
where TLA+ allows it. A handler that runs with interrupts off is one action;
code that runs with interrupts on is cut at its accesses to shared state.
`Mutant of X` definitions are plausible wrong versions of X; replacing X by one
of them must make the run fail, which shows that the property is about the code.

| module | models |
|---|---|
| `Pmm` | both readers of the memory map (`ScanEntry`, `ScanDone`, `arch_mm_init`), `pmm_init` in its steps (`PmmSize`, `MarkRegion`, `MarkReserved`), the four calls, and `zeroed_table`: a caller that clears the frame it got, bitmap bits included if the frame holds them; `clobbered` records that this has happened |
| `PmmScan` | the bit-by-bit loop of `pmm_alloc_frames`, which `Pmm` takes as one step |
| `PmmAlloc` | the composition (EXTENDS both): a call of `pmm_alloc_frames` runs the loop on the allocator's bitmap and returns; every other call is a step of `Pmm` |
| `Heap` | `grow_heap`, `alloc_from_block`, `kmalloc`, `kfree` over frames that others take and give back too |
| `Sched` | `sched_init`, `thread_create`, the tick, `arch_context_switch`, the trampoline, interrupt entry, dispatch (`Eoi` before the tick) and return. `running` is the stack the CPU is on, `current` the C variable. `sp[t]` is the stack the saved pointer names, `None` once that frame is popped |
| `SchedExit` | `Sched` with `thread_exit` and `sched_yield` called by a thread, one access to shared state per step |
| `Fifo` | abstract: a bounded queue with drop, used for the keyboard and for the event rings |
| `Keyboard` | `keyboard_irq` as one step, `keyboard_getchar` in three |
| `Console` | the VGA text console as functions on its state: `arch_console_putc`, `console_puts`, newline, `scroll` |
| `Terminal` | the idle loop without graphics: EXTENDS `Keyboard` and `Console`; the character read is echoed while the interrupt goes on typing |
| `Mouse` | `mouse_irq` as one step, `mouse_get_state` in five |
| `Gui` | `gui_update` with click, raise, drag, redraw; rectangles, characters and strings with unsigned arithmetic modulo `U32`; window titles, the text shown at boot, and `blinker_thread` drawing between any two updates |
| `AddrSpace` | abstract: each space is a map from pages to frames |
| `Vmm` | table trees in frames, both architectures (`mmu` is chosen in `VmmInit`, which has the tables each boot path builds: `setup_page_tables`, `aarch64_mmu_init`), a TLB that may cache any page of the loaded tree. Levels are numbered from the root, an address is its index at every level; the two recursive procedures of `vmm.c` are functions: `clone_table_level` of a call's arguments, `free_table_level` level by level. A step of `paging_identity_map` is one block of its loop |
| `Virtqueue` | the rings of one event queue and the device, one shared access per step |
| `VirtioInput` | `virtio_input.c` on top of it (EXTENDS `Virtqueue`): decoding, key buffer, pointer, the two calls of the idle loop |
| `VirtioProbe` | slot scan, probe with failing allocations, which driver claims which device; steps of `Boot` |
| `Ramfb` | the fw_cfg directory, the frames of the picture, the DMA request in bytes of either order, and the device that serves or refuses it; steps of `Boot` |
| `Disk` | abstract: one request at a time, answered with that sector or with failure; `late` is the sector of a request that was given up and that the drive still has, the only other one an answer may contain |
| `Ata`, `VirtioBlk` | the two drivers and their devices |
| `Vfs` | the image layout of `mkfs.py` and the reader `vfs.c` over the interface of `Disk`, with the 32-bit `sectors_needed`. A data sector that is taken for a directory (after a late answer) has any entries of `Junk`; `stale` records that the disk has given a sector that was not asked for |
| `Storage` | the composition: `Vfs` over `Ata` (x86_64) or over `VirtioBlk` (aarch64), by INSTANCE with the drivers' `pc` and `buf` renamed |
| `Process` | `process_run` from the ELF check to teardown, launch stack, traps, dispatch of system calls and exit, both architectures; steps of `Boot` |
| `Boot` | `kernel_main` from `arch_interrupts_init` to the idle loop, composed of `Process` and `Ramfb` (EXTENDS) and `VirtioProbe` (INSTANCE, its `pc` and `i` renamed), with the PIC or the GIC: lines are raised, taken, acknowledged between any two steps |
| `MemoryProofs` (of `Pmm`, `PmmScan`, `PmmAlloc` and `Vmm`), `HeapProofs`, `SchedProofs`, `TerminalProofs` (also of `Keyboard` and `Console`), `GuiProofs`, `VirtioInputProofs` (also of `Virtqueue`), `StorageProofs` (with `Vfs`, `Ata`, `VirtioBlk`), `BootProofs` (with `Process`, `VirtioProbe`, `Ramfb`) | theorems and proofs |
| `MC*` | instances for TLC |

## 3. Runs

| run | instance | shows |
|---|---|---|
| `pmm` | 16 frames of 4 bytes, three memory maps (overlap, hole, clamp, too many entries, no whole frame), both architectures, four kernels: the bitmap ends on a frame boundary or inside a frame | `FreeCountExact`, `NoSharedFrame`, `HeldIsRam`, `OnlyTailLost` over every order of allocations and releases of 0 to 3 frames; the search of each call bit by bit, which finds the lowest run (`FirstRunFound`) and ends (`Returns`) |
| `pmm_tail` | the same | **violated**: `ReservationKept`. The frame in which the bitmap ends is free after `pmm_init` and is handed out |
| `sched` | 4 threads, each may create; up to 2 nested frames are allowed so that `TypeOK` can fail | contexts (`ContextsOwn`: a saved pointer is its thread's own and no switch loads a void one), interrupt flag (`BodyPreemptible`), ring (`RingWhole`), progress (`EveryThreadRuns`) |
| `heap` | 6 frames of 8 bytes, headers of 2, sizes 0, 1, 4, 9, 13, at most 3 live | `Tiling`, `LiveIsPrivate`: sizes that split, do not split, need a larger arena, and do not fit at all |
| `terminal` | ring of 3, letters, tab, newline and shift, at most 5 keys typed, screen of 2 rows of 4 | `ImplementsFifo` (refinement), `Delivers`, `ScreenShowsTail`: the screen against the same text on endless paper |
| `gui` | 3 x 2 screen, two windows of 2 x 2 with titles, glyphs of one pixel, redraw after 1 tick, blink after 2, integers modulo 16 | `WindowsKept`, `GrabHeld`, `DrawnInside`, over every cursor position and button, with the blinker interleaved |
| `vmm` | 4 levels of 3 entries, 15 frames, kernel and one process space, 4 pages | `TablesPrivate`, `UserPathOpen`, `TlbFresh`, `ImplementsSpaces` (refinement) |
| `virtio_input` | queue of 2, indices modulo 4, 4 events, key buffer of 3, 3 x 2 screen | `BuffersOwned`, `ImplementsFifo`, `Delivers`, `TextExact`, `FalseMeansNothingNew` |
| `storage` | up to 3 files of 0, 3 or 7 bytes, sectors of 2 bytes and 2 entries, buffers of 2 and 4 bytes, integers modulo 8, any read may fail, the ATA driver polls twice and gives up, both drivers, repeated calls | `ReadRight`, `MissMeansMissing`, `ImplementsDisk` (refinement), `FileReturns` |
| `boot` | both architectures; images of two segments with every alignment and size on pages of 2 bytes, or a bad one; 6 frames or none for the program; 3 virtio slots with any devices, at most one of them faulty; 2, 7 or 14 frames left for devices; a picture of 3 x 2 on frames of 16 bytes, bytes of 8 values | `ImageLoaded`, `CpuOnLive`, `NoStrayIrq`, `IrqsServed`, `DisplayMatches`, `ClaimsAttached`, `ScanFinds`, `BootGoesOn` |
| `thread_exit` | 3 threads | **violated**: `NeverPickedAgain`. A tick between the store to `current` and the switch saves the dead thread's stack as the next thread's, and the next switch to that one resumes the dead thread |
| `mouse_lost` | 3 x 3 screen, 4 byte values | **violated**: `FalseMeansNothingNew`. A packet that arrives between the copy of the state and `state_dirty = false` is not reported by the next call |

Why the bounds are enough to be interesting: the ring of the keyboard fills and
wraps, the virtio indices wrap (modulo 4 with a queue of 2, as 65536 with 8),
three files need a second and half-full directory sector, the heap needs a
second arena, 5 keys on 8 cells wrap, scroll and meet a full ring, 14 frames
suffice for every device, 7 run out while the keyboard is probed and 2 with the disk,
four threads allow a creation inside an interrupted creation, and
the pages of `vmm` cover a block of both boot maps, a block of aarch64 only, and two
pages with all tables in common; 15 frames are enough for two full trees. A file
of 3 bytes leaves a partial sector and does not fit a buffer of 2, which ends with a
sector; 7 bytes are the size at which `size + SECTOR - 1` wraps modulo 8. Drives that
answer after two polls, with the next read under way or not, are all in `storage`.

`pmm` stops at states in which an owner has written over the bitmap (`Intact`):
of such states nothing but `OnlyTailLost` and the search is claimed. The search does
not read what tells them apart from others, and `ScanCorrect` (section 5) is about
every bitmap.

A picture of 24 bytes is no whole number of frames of 16. The faulty devices of
`boot` come one at a time because the scan ends at the first.

`boot` may end in `kernel_panic` and switches deadlock checking off. All other
passing runs check that the system never stops.

## 4. Fairness

* `Sched`: the timer is periodic and the CPU takes an unmasked interrupt, so
  weak fairness of its steps. A time slice is 10 ms, long against an
  instruction: a thread that gets the CPU again and again makes progress, hence
  strong fairness of each thread's own steps. Only `EveryThreadRuns` uses it.
* `Terminal`, `VirtioInput`: the idle loop polls for ever (kernel.c:123), so weak
  fairness of the reader; a virtio device completes what it has started. Keys
  and events themselves are not fair: nobody has to type.
* `Storage`: weak fairness of the kernel's one thread of control, of the drive (it
  does not stay busy for ever) and of the virtio device. Nobody has to call
  `vfs_read_file`. The drive's fairness is needed: `ata_wait_bsy_clear` has no limit
  (ata.c:37-40), and with a drive that stays busy `vfs_read_file` does not return.
* `Boot`: weak fairness of the kernel's own steps (one thread, handlers return) and of
  fw_cfg, which answers every request, if only with an error. Strong fairness of
  each interrupt line: the CPU looks for interrupts before every instruction, so a
  line that stays raised is taken if the kernel lets interrupts in again and again. No fairness of the program, of keys or of ticks: `BootGoesOn` allows a program that
  runs for ever, and `IrqsServed` speaks of interrupts that were raised.
* `PmmAlloc`: a loop with nothing to wait for, once it is entered; no fairness of the
  callers.

## 5. Proofs

Each theorem follows from an inductive invariant (named in the second column),
which holds initially, is kept by every action, and implies the property. The proof
modules have one lemma per action, or per group of actions that leave the same
things alone.

| theorem | inductive invariant and argument |
|---|---|
| `MemoryProofs!PmmSafety`, `CountSafe`, `OwnersSafe`, `RamSafe`: `Spec` implies `TypeOK`, `FreeCountExact`, `NoSharedFrame`, `HeldIsRam`, `OnlyTailLost` | `IInv` adds that regions still to be marked consist of whole RAM frames (`RegionsUsable`), that the count and the bitmap agree at every stage of `pmm_init` (`BootOrder`), that what is free is usable, that what is held is marked, and that the reservation but for its last frame overlaps only marked frames. The first three invariants are claimed until an owner of the last frame of the bitmap writes over it; that frame is the only one whose owner can |
| `MemoryProofs!ScanCorrect`: `AllocSpec => [](FirstRunFound /\ OnlyRunMarked)` | `LoopInv`: while scanning, the last `run_len` frames are free, cannot be extended downwards, and no run lies wholly below `scan_f`; while marking, the run is free, lowest and marked up to `scan_i` |
| `MemoryProofs!AllocImplementsPmm`: `AllocSpec => Spec` | the bitmap does not change during a call, so the run the loop has found and marked is the one `Pmm` takes when it returns |
| `MemoryProofs!VmmTablesPrivate`, `VmmUserPathOpen`, `VmmTlbFresh`: `VmmSpec /\ []FramesLeft` implies `TablesPrivate`, `UserPathOpen`, `TlbFresh` | `VmmInv`: every table has a level and an owner such that an entry's table is in use, one level down and its owner's, no two entries name one table, each is its space's root or referred to, pages are at the last level and blocks above it, and below an entry closed to user mode all are closed (`TablesForest`, which hides level and owner behind an existential). `CloneCopies` says that a clone is a disjoint copy of what the source reaches, `FreeIs` that what is freed are the owner's tables and nothing else |
| `MemoryProofs!VmmRefines`: `VmmSpec /\ []FramesLeft` implies `ImplementsSpaces` | `VmmInv` and `Last`, the entry that ends the walk of a page: each operation changes it for its own page of its own space, and a clone has the same one for every page |
| `SchedProofs!SchedSafety`, `SchedTypes`, `SchedPreemptible`: `TypeOK`, `ContextsOwn`, `BodyPreemptible` | `SchedInv`. `ContextsOwn` is not inductive: one must know that a saved pointer names its owner's stack only (`ContextInv`), that `next` leads to threads already prepared even in the middle of `thread_create` (`RingInv`, `CreateInv`), and that interrupts are off exactly in a handler or a trampoline (`IrqInv`) |
| `SchedProofs!RingSafe`: `RingWhole` | `CycleInv`: the `next` pointers of the ring form one cycle, stated as "no proper part of the ring is closed under `next`", and whoever is creating a thread (`MakingInv`) still has the successor it read, or the insertion would cut the cycle |
| `HeapProofs!TilingSafe`, `LiveSafe`: `Tiling`, `LiveIsPrivate` | `HeapInv`: the blocks of an arena are apart and each one's `next` is where it ends (`Shape`), allocations are the blocks in use (`Held`), frames of others are no arena's. Splitting, merging and growing each keep the shape |
| `TerminalProofs!KeyboardIsFifo`: `Keyboard` and `Terminal` refine the safety part of `Fifo` | the queue is read off the ring; a reader between load and advance still owns its slot (`ReaderOwns`), so a push in between never touches it |
| `TerminalProofs!ScreenSafe`: `ScreenShowsTail` | `ShowInv`: beside the property, nothing was ever printed below the row of the cursor (`NothingBelow`), which is why the row that a scroll brings in is blank on paper too. `PutcIs` says what one character does to a screen, `PlaceGrows` and `PrintedGrows` what it does to the paper |
| `GuiProofs!WindowsSafe`, `GrabSafe`, `DrawingSafe`: `WindowsKept`, `GrabHeld`, `DrawnInside` | `IInv`: the offset of a grab is the one of this grab and lies in the title bar, and the window is where cursor and offset put it (`GrabInv`); clipping by unsigned comparison keeps every pixel on the screen, whatever the wrap |
| `VirtioInputProofs!BuffersSafe`, `QueueIsFifo`: `BuffersOwned`, and `VirtioInput` refines the safety part of `Fifo` | `QueueInv`: every descriptor is posted, taken, done or held, in one of them once (`Places`), posted in order at first (`Seeding`), a ring entry is written before its index (`Written`), and buffers on their way hold an event (`Filled`). The rings as sequences are shown to grow at one end and shrink at the other across the wrap of the indices |
| `VirtioInputProofs!MouseSafe`: `FalseMeansNothingNew` | `Reported`: with the flag clear, the last answer is the state |
| `VirtioInputProofs!TextSafe`: `TextExact` | `TextInv`: the events not handled yet are the end of all events (`IsRest`), and returned, waiting and still to be typed text make up the text of all events (`KeysTyped`); `ReadingSplit` cuts the reading of a sequence in two, shift included |
| `StorageProofs!DriversImplementDisk`: `Storage` refines `Disk` | `DriverInv`: what the drive holds is the answer to the command it took last, which is the driver's own unless the drive held the answer to one given up (`AtaInv`); at most one virtio request is published and the ring holds its answer (`BlkInv`). `late` is mapped to the sector the drive is busy with or holds, if it is not the one asked for |
| `StorageProofs!ReadSafe`, `MissSafe`: `ReadRight`, `MissMeansMissing` | `ReaderInv`: a sector is asked for only while it is wanted (`AskInv`), counts are numbers whatever was read (`NumberInv`) and nothing after the bytes copied is written (`BufInv`); unless `stale`, the entries passed do not have the name (`DirInv`), and the bytes copied are those of the first file that has it (`FoundInv`) |
| `BootProofs!BootIrqSafe`: `NoStrayIrq` | `IrqInv`: the order of vectors, handlers and masks; before `gic_init`, no line of the GIC is enabled |
| `BootProofs!CpuSafe`: `CpuOnLive` | `CpuInv`, `LoopInv`: space, stack and saved stack pointer at each place of `process_run` |
| `BootProofs!ClaimsSafe`, `ScanSafe`: `ClaimsAttached`, `ScanFinds` | `ProbeInv`: what is claimed is attached and was passed, and no keyboard or mouse that was passed is missing. Which slot the n-th input device has is a cardinality, so the scan meets each exactly once |
| `BootProofs!ImageSafe`: `Spec /\ LayoutKnown /\ []MemoryLasts => []ImageLoaded` | `LoadInv`: mapped pages have frames of their own, the pages of the segment being mapped are zero, and earlier segments are loaded |
| `BootProofs!PictureSafe`: `DisplayMatches` | `FbInv`: the request is open, refused, or carried out with the picture's address decoded (`Handshake`); a swapped word that fits its field is read back as it was (`SwappedIsRead`), and a word that is loaded and swapped is what the device reads (`SwappedLoad`) |

What recursive definitions compute (texts, places on paper, words, rings) is proved
by induction all the same, through the least element of a set of natural numbers
(lemmas `LeastNat` and `UpTo`); that a recursive function exists at all is
proved the same way (`IterationExists`). `clone_table_level` recurs on a record, in
two directions (fewer entries, a deeper level); `FixpointExists` gets it by iterating
its body as often as a measure of the call says, and `CallInduction` is the induction
over that measure.

Assumptions. The named ASSUMEs of the modules say what constants are: sizes are
positive, alignments divide, index widths are multiples of the queue size, fields are
wide enough for what is stored in them, images, files and windows are well-typed,
`MapAssumption` that entries of the memory map start on a frame boundary above the
low megabyte. Three hypotheses are stated in the theorems, because the code does not
ensure them (section 6 has what happens otherwise):

* `LayoutKnown` (`Process`): segments and stack of a program have pages of their own,
  as ld's default layout with the Makefile's `-Wl,-Ttext=` gives them;
* `MemoryLasts` (`Process`): frames do not run out while a program is loaded;
* `FramesLeft` (`Vmm`): the PMM never gives out its last frame. A little stronger than
  "no allocation of a table fails", which cannot be read off a state; it holds in
  every state of the run `vmm`.

Two contracts are in the models and not in the code. `Unloaded` (`Vmm`): pages are
mapped only into spaces that are not loaded, and only such are destroyed, as
`process_run` and `vmm_selftest` do; `vmm_map` and `vmm_destroy_address_space`
themselves accept any space. And in `Boot` the GIC starts from reset with no line
enabled, since QEMU starts the aarch64 kernel itself: `gic_init` disables nothing.

Only model-checked: liveness everywhere (`EveryThreadRuns`, `Returns`, `Delivers`,
`FileReturns`, `IrqsServed`, `BootGoesOn`), which needs fairness and ENABLED, out of
the prover's reach. Every invariant and every refinement of a passing run is
proved; of the refinements of `Fifo` the safety part.

## 6. Disagreements between code and comments

`pmm_tail`, `mouse_lost` and `thread_exit` are runs of their own. The others were seen while modelling; where a
module can show one, the change that does is given.

* `mm/pmm.c:33` rounds the end of a range down, so when the bitmap ends inside a
  frame that frame stays free and is handed out over the bitmap (run `pmm_tail`),
  against pmm.c:57-58 ("is itself part of the reservation"). Neither linker script
  aligns `_kernel_end` (x86_64 line 48, aarch64 line 44), so this is the usual case.
  `OnlyTailLost` has the extent of it: that one frame, and no other.
* `arch/x86_64/drivers/ata.c:51` gives up while the command is still running, and the
  next read may take its late answer with success (ata.h:14, "Reads one 512-byte
  sector into buf", promises the sector). `Disk` therefore has a variable `late`; with
  `{ask}` for `{ask, late}` in its `Answer`, `ImplementsDisk` fails.
* `fs/vfs.c:92`: `size + SECTOR_SIZE - 1` is a u32 and wraps for sizes above
  2^32 - 512; such a file needs no sectors then, and the read succeeds with the size and
  not a byte copied. mkfs.py accepts the size. `ReadRight` claims the bytes only where
  the sum does not wrap.
* `arch/x86_64/mm/vmm.c:116`: `vmm_map` does not invalidate, so that mapping a page of
  the loaded space anew would leave the old translation usable. No caller does it. With
  `Live` for `Unloaded` at `vmm_map` in `Vmm`, `TlbFresh` fails.
* `arch/aarch64/drivers/gic.c:33`: `gic_init` writes no disable register, unlike
  `idt_init`, which masks every line; a line left enabled would have no handler.
* `arch/x86_64/mm/vmm.c:45` does not check the frame of a cloned table; when frames
  run out, frame 0 becomes a table of several parents, against vmm.c:37-40.
  Eleven `TableFrames` in `MCVmm.cfg`: `TablesPrivate` fails. The theorems about `Vmm`
  have the hypothesis `FramesLeft`.
* `kernel/sched.c:87`, `thread_exit`: interrupts are on between the store to `current`
  and the switch (run `thread_exit`), against sched.c:80 ("so it's never picked
  again"). The trampoline calls it when an entry returns; the one thread there is
  never does.
* `kernel/sched.c:59`: `sched_yield` called by a thread neither saves nor restores the
  interrupt flag; a thread that yielded may be resumed with interrupts off and is
  then not preempted (sched.h:2, 35). Nothing calls it. In `SchedExit`, checked for
  `BodyPreemptible` instead, TLC finds it in a few steps.
* `keyboard.c:78`: the byte after an 0xE0 prefix is decoded like any other, against
  keyboard.c:2-3 ("Extended ... keys ... are ignored").
* `gui/gui.c:60`: a press on a window's body starts a drag too, with the offset of
  an earlier one; README.md:87 speaks of "click-to-recolor".
* `gui/gui.c:67`: a window over the left or top edge has a negative coordinate, which
  becomes a huge unsigned one, and nothing of it is drawn; framebuffer.c:44 says
  "Clip once".
* `arch/aarch64/boot/exceptions.S:89`: every synchronous exception of EL0 goes to the
  system calls, against exceptions.S:8-10 (faults "still" halt). `UserFault` of
  `Process` models it: a fault is any system call its registers happen to name.
* `arch.c` of both architectures shows an exit code below 0 as a load failure: -1 from
  `process_run` and -1 from the program are not told apart.
* `kernel/kernel.c`, `blinker_thread`: its square lies under whatever the GUI thread
  redraws, so it vanishes until the next blink; both threads draw without a lock,
  and nothing but pixels is shared.
* `arch/x86_64/process.c:124`: an image without a PT_LOAD segment is entered, against
  process.h:18-19.

## 7. Plan

1. Done: memory (`Pmm`, `PmmScan`, `PmmAlloc`, `Heap`), scheduling (`Sched`, `SchedExit`), address
   spaces (`Vmm`), input (`Keyboard`, `Mouse`, `Virtqueue`, `VirtioInput`), text
   (`Console`, `Terminal`), windows (`Gui`), storage (`Storage` over `Vfs`, `Ata`,
   `VirtioBlk`), and boot (`Boot` over `Process`, `VirtioProbe`, `Ramfb`).
2. Could be modelled further: frame accounting across `Process`, `Vmm` and `Pmm`; the
   dialogue of `mouse_init` with the i8042, once what an empty port gives is known.
3. Proved: every safety property of a passing run. Left: the liveness properties,
   should a prover handle fairness; and weaker hypotheses, such as `FramesLeft` by a
   variable that records a failed allocation.

## 8. Not modelled

* UART and fonts: a register that bytes are written to, and tables of glyphs; which
  pixels a glyph may touch is in `Gui`. `console_put_dec` and `put_dec` format
  numbers nothing depends on.
* `fb_draw_line` and `fb_clear`: offered, never called.
* The i8042 dialogue of `mouse_init`: the keyboard's interrupt is on meanwhile and may
  take the byte that is waited for; what a read of an empty port then gives is the
  hardware's business. `Boot` has the end of it, the installed handler.
* What the printing system calls read and draw; `Process` has their control flow.
* Early boot assembly, GDT, the contents of IDT gates: constant tables, written once
  before any state of a model exists. The page tables they leave are `Vmm`'s `VmmInit`.
* The heap under concurrency: `kmalloc` has no lock, and only the boot thread
  allocates once threads run; `Heap` takes a call as one step.
* User programs: `Process` lets a program make any system call or fault.
* Compiler effects: the Makefile sets no optimisation level, so the ring indices
  that are polled through a pointer without `volatile` (virtio.c:186) are read
  from memory every time; the model has what that build does.
* Two segments of a program on one page (the Makefile links programs with
  `-Wl,-Ttext=` and ld's default layout, which keeps segments of different access
  apart), memory-map entries that start inside a frame, sector numbers beyond 28
  bits, allocation sizes near 2^64.
