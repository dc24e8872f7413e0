------------------------------- MODULE Process -------------------------------
(***************************************************************************)
(* Loading and running a user program: process_run, the launch stack and   *)
(* trampoline, the system calls and process_syscall_exit, on both          *)
(* architectures.  process_run is called during boot, before sched_init,   *)
(* so no other thread exists; the timer only counts.  Byte off of segment  *)
(* k of the image is <<k, off>>.  Boot runs these steps.                   *)
(***************************************************************************)
EXTENDS Integers, Sequences, FiniteSets, FiniteSetsExt

CONSTANTS
    Elfs,           \* images: [valid, segs], segs a sequence of
                    \* [load, vaddr, memsz, filesz]
    PAGE_SIZE,
    STACK_PAGE,     \* the first page of the user stack
    USER_STACK_PAGES,
    Frames,         \* frames the PMM has to give
    Codes           \* exit codes

ASSUME ProcessAssumption ==
    /\ PAGE_SIZE \in Nat \ {0}
    /\ STACK_PAGE \in Nat /\ USER_STACK_PAGES \in Nat
    /\ Frames \subseteq Nat \ {0}
    /\ Codes \subseteq Int
    /\ Elfs \subseteq [valid : BOOLEAN,
                      segs  : Seq([load : BOOLEAN, vaddr : Nat, memsz : Nat, filesz : Nat])]

VARIABLES
    arch,           \* "x86_64" or "aarch64"
    elf,
    pc, seg, va,    \* process_run: its place, the segment and the page
    space,          \* page -> frame of the process's space, or NoSpace
    mem,            \* frame -> its bytes; 0 is what a failed allocation gives
    free,
    cr3,            \* "kernel" or "process"
    stack,          \* the stack the CPU is on: "boot", "launch", "rsp0", "user"
    launch,         \* the launch stack is allocated
    return_sp,      \* kernel_return_sp: the stack it points into
    iflag,
    exit_code, result

image   == <<elf, space, mem, free>>
cpu     == <<cr3, stack, iflag>>
process == <<image, cpu, pc, seg, va, launch, return_sp, exit_code, result>>

NoSpace == [p \in {-1} |-> 0]       \* pages are 0 and up
NoImage == [valid |-> FALSE, segs |-> << >>]
Garbage == <<"any">>
Zero    == << >>
Offs    == 0 .. PAGE_SIZE - 1

Unwritten == [f \in Frames \cup {0} |-> [b \in Offs |-> Garbage]]

ALIGN_DOWN(x) == x \div PAGE_SIZE       \* as a page number
ALIGN_UP(x)   == (x + PAGE_SIZE - 1) \div PAGE_SIZE

\* How much memory is left, whether interrupts are on, and which image it is,
\* is the caller's.
ProcessInit ==
    /\ elf = NoImage
    /\ pc = "run" /\ seg = 1 /\ va = 0
    /\ space = NoSpace
    /\ mem = Unwritten
    /\ cr3 = "kernel" /\ stack = "boot"
    /\ launch = FALSE /\ return_sp = "none"
    /\ exit_code = 0 /\ result = 0

-----------------------------------------------------------------------------
(* process_run up to the launch.                                           *)

\* Size, magic, class and machine of the header.
elf_valid == elf.valid

Refuse ==
    /\ pc = "run"
    /\ ~elf_valid
    /\ result' = -1
    /\ pc' = "done"
    /\ UNCHANGED <<image, cpu, seg, va, launch, return_sp, exit_code>>

CreateSpace ==
    /\ pc = "run"
    /\ elf_valid
    /\ space' = << >>
    /\ pc' = "segment"
    /\ UNCHANGED <<elf, mem, free, cpu, seg, va, launch, return_sp, exit_code, result>>

Segment == elf.segs[seg]

\* The head of the loop over the program headers.
NextSegment ==
    /\ pc = "segment"
    /\ IF seg > Len(elf.segs) THEN pc' = "stack" /\ va' = 0 /\ UNCHANGED seg
       ELSE IF ~Segment.load THEN seg' = seg + 1 /\ UNCHANGED <<pc, va>>
       ELSE pc' = "map" /\ va' = ALIGN_DOWN(Segment.vaddr) /\ UNCHANGED seg
    /\ UNCHANGED <<image, cpu, launch, return_sp, exit_code, result>>

\* pmm_alloc_frame: the lowest frame, 0 when there is none, unchecked.
Alloc == IF free = {} THEN 0 ELSE Min(free)

MapTo(page, f) ==
    space' = [p \in DOMAIN space \cup {page} |-> IF p = page THEN f ELSE space[p]]

\* Mutant of SegmentEnd: the end is rounded with the segment's size alone.
SegmentEndShort(s) == ALIGN_DOWN(s.vaddr) + ALIGN_UP(s.memsz)

SegmentEnd(s) == ALIGN_UP(s.vaddr + s.memsz)

\* One page of a segment: a zeroed frame.
MapPage ==
    /\ pc = "map"
    /\ va < SegmentEnd(Segment)
    /\ free' = free \ {Alloc}
    /\ mem' = [mem EXCEPT ![Alloc] = [b \in Offs |-> Zero]]
    /\ MapTo(va, Alloc)
    /\ va' = va + 1
    /\ UNCHANGED <<elf, pc, seg, cpu, launch, return_sp, exit_code, result>>

\* The file's bytes, written through vmm_translate; an address that is not
\* mapped translates to 0.
CopySegment ==
    /\ pc = "map"
    /\ va >= SegmentEnd(Segment)
    /\ mem' = [f \in DOMAIN mem |-> [b \in Offs |->
                 LET Here == {o \in 0 .. Segment.filesz - 1 :
                                /\ (Segment.vaddr + o) % PAGE_SIZE = b
                                /\ LET p == ALIGN_DOWN(Segment.vaddr + o)
                                   IN  f = IF p \in DOMAIN space THEN space[p] ELSE 0}
                 IN  IF Here = {} THEN mem[f][b] ELSE <<seg, Max(Here)>>]]
    /\ seg' = seg + 1
    /\ pc' = "segment"
    /\ UNCHANGED <<elf, space, free, va, cpu, launch, return_sp, exit_code, result>>

\* The user stack's pages from the top down, not zeroed.
MapStack ==
    /\ pc = "stack"
    /\ va < USER_STACK_PAGES
    /\ free' = free \ {Alloc}
    /\ MapTo(STACK_PAGE + USER_STACK_PAGES - 1 - va, Alloc)
    /\ va' = va + 1
    /\ UNCHANGED <<elf, pc, seg, mem, cpu, launch, return_sp, exit_code, result>>

\* A stack from kmalloc whose frame "returns" into process_trampoline.
build_launch_stack == launch' = TRUE

\* Then vmm_switch.
PrepareLaunch ==
    /\ pc = "stack"
    /\ va = USER_STACK_PAGES
    /\ build_launch_stack
    /\ cr3' = "process"
    /\ pc' = "launch"
    /\ UNCHANGED <<image, seg, va, stack, iflag, return_sp, exit_code, result>>

\* arch_context_switch(&kernel_return_sp, launch_sp): onto the launch stack,
\* where the return address is process_trampoline.
Launch ==
    /\ pc = "launch"
    /\ return_sp' = stack
    /\ stack' = "launch"
    /\ pc' = "trampoline"
    /\ UNCHANGED <<image, seg, va, cr3, iflag, launch, exit_code, result>>

\* iretq / eret to user mode, on its own stack with interrupts on.
ToUser ==
    /\ stack' = "user"
    /\ iflag' = TRUE
    /\ pc' = "user"

\* process_trampoline and enter_usermode.
EnterUsermode ==
    /\ pc = "trampoline"
    /\ ToUser
    /\ UNCHANGED <<image, seg, va, cr3, launch, return_sp, exit_code, result>>

-----------------------------------------------------------------------------
(* Leaving user mode.  The stack is the TSS's on x86_64, and whatever      *)
(* SP_EL1 was left at, the launch stack, on aarch64.                       *)

Trap ==
    /\ pc = "user"
    /\ stack' = IF arch = "x86_64" THEN "rsp0" ELSE "launch"
    /\ iflag' = FALSE

Syscall ==
    /\ Trap
    /\ pc' = "dispatch"
    /\ UNCHANGED <<image, seg, va, cr3, launch, return_sp, exit_code, result>>

\* A fault in user mode.  isr_handler panics; the aarch64 vector table has one
\* entry for every synchronous exception of EL0, which goes to the system
\* calls.
UserFault ==
    /\ Trap
    /\ pc' = IF arch = "x86_64" THEN "panic" ELSE "dispatch"
    /\ UNCHANGED <<image, seg, va, cr3, launch, return_sp, exit_code, result>>

\* The system calls that print, and unknown numbers, set the return register and
\* go back to user mode.
SysReturn ==
    /\ pc = "dispatch"
    /\ ToUser
    /\ UNCHANGED <<image, seg, va, cr3, launch, return_sp, exit_code, result>>

\* process_syscall_exit: back to process_run's stack; the trap is abandoned.
SysExit(code) ==
    /\ pc = "dispatch"
    /\ exit_code' = code
    /\ stack' = return_sp
    /\ pc' = "resumed"
    /\ UNCHANGED <<image, seg, va, cr3, iflag, launch, return_sp, result>>

syscall_dispatch ==
    /\ arch = "x86_64"
    /\ SysReturn \/ \E code \in Codes : SysExit(code)

aarch64_svc_handler ==
    /\ arch = "aarch64"
    /\ SysReturn \/ \E code \in Codes : SysExit(code)

-----------------------------------------------------------------------------
(* process_run after the program has exited.                               *)

Sti ==
    /\ pc = "resumed"
    /\ iflag' = TRUE
    /\ pc' = "switch_back"
    /\ UNCHANGED <<image, cr3, stack, seg, va, launch, return_sp, exit_code, result>>

\* Mutant of SwitchBack: the process's space stays loaded.
NoSwitchBack ==
    /\ pc = "switch_back"
    /\ pc' = "destroy"
    /\ UNCHANGED <<image, cpu, seg, va, launch, return_sp, exit_code, result>>

SwitchBack ==
    /\ pc = "switch_back"
    /\ cr3' = "kernel"
    /\ pc' = "destroy"
    /\ UNCHANGED <<image, stack, iflag, seg, va, launch, return_sp, exit_code, result>>

\* vmm_destroy_address_space and kfree of the launch stack.
Destroy ==
    /\ pc = "destroy"
    /\ space' = NoSpace
    /\ launch' = FALSE
    /\ result' = exit_code
    /\ pc' = "done"
    /\ UNCHANGED <<elf, mem, free, cpu, seg, va, return_sp, exit_code>>

-----------------------------------------------------------------------------
\* The kernel's steps; a step of the program is a system call or a fault.
process_run ==
    \/ Refuse \/ CreateSpace \/ NextSegment \/ MapPage \/ CopySegment \/ MapStack
    \/ PrepareLaunch \/ Launch \/ EnterUsermode
    \/ syscall_dispatch \/ aarch64_svc_handler
    \/ Sti \/ SwitchBack \/ Destroy

-----------------------------------------------------------------------------
\* The pages of a segment and of the stack, and an image as the linker lays it
\* out: each on pages of its own, no more in the file than in memory.
Pages(s)   == ALIGN_DOWN(s.vaddr) .. SegmentEnd(s) - 1
StackPages == STACK_PAGE .. STACK_PAGE + USER_STACK_PAGES - 1

LaidOut(e) ==
    \A k \in DOMAIN e.segs : e.segs[k].load =>
      /\ e.segs[k].filesz <= e.segs[k].memsz
      /\ Pages(e.segs[k]) \cap StackPages = {}
      /\ \A l \in DOMAIN e.segs \ {k} :
           e.segs[l].load => Pages(e.segs[k]) \cap Pages(e.segs[l]) = {}

\* No allocation of process_run fails: the code does not check them.
MemoryLasts ==
    (\/ pc = "map" /\ va < SegmentEnd(Segment)
     \/ pc = "stack" /\ va < USER_STACK_PAGES) => free # {}

ByteAt(v) == mem[space[ALIGN_DOWN(v)]][v % PAGE_SIZE]

\* When the program is entered, every segment is in memory at its address: the
\* file's bytes, then zeros up to memsz, whatever the alignment.
ImageLoaded ==
    pc = "user" =>
      \A k \in DOMAIN elf.segs : elf.segs[k].load =>
        \A o \in 0 .. elf.segs[k].memsz - 1 :
          /\ ALIGN_DOWN(elf.segs[k].vaddr + o) \in DOMAIN space
          /\ ByteAt(elf.segs[k].vaddr + o) = IF o < elf.segs[k].filesz THEN <<k, o>> ELSE Zero

\* The CPU never works with a space that is destroyed or on a stack that is
\* freed, and process_run resumes on the stack it was called on.
CpuOnLive ==
    /\ cr3 = "process" => space # NoSpace
    /\ stack = "launch" => launch
    /\ pc \in {"run", "resumed", "switch_back", "destroy", "done"} => stack = "boot"
=============================================================================
