----------------------------- MODULE BootProofs -----------------------------
(***************************************************************************)
(* What holds during boot for every image, every machine and every amount  *)
(* of memory.  Each invariant has an inductive invariant of its own; they  *)
(* are proved one after the other:                                         *)
(*   - IrqInv: the order in which vectors, handlers and masks are set up;  *)
(*   - CpuInv: the space, the stack and the interrupt state at each place  *)
(*     of process_run;                                                     *)
(*   - ProbeInv: what the scan for devices has seen and claimed so far;    *)
(*   - LoadInv: what is in memory of the image so far.                     *)
(***************************************************************************)
EXTENDS Boot, TLAPS, FiniteSetTheorems, SequenceTheorems, WellFoundedInduction

-----------------------------------------------------------------------------
(* Interrupts.                                                             *)

IrqInv ==
    IF stage = "interrupts" THEN ~iflag /\ (arch = "aarch64" => unmasked = {})
    ELSE /\ vectors
         /\ unmasked \ {CASCADE} \subseteq handlers
         /\ arch = "aarch64" => Timer \in handlers

\* The three steps of irq_install_handler, in their order.
LEMMA InstallKeepsOrder ==
    ASSUME NEW l, NEW then, then # "interrupts", stage # "interrupts", IrqInv,
           irq_install_handler(l, then), UNCHANGED arch
    PROVE  IrqInv'
<1>1. stage' # "interrupts" /\ vectors'
  BY DEF irq_install_handler, IrqInv, Goto
<1>2. handlers \subseteq handlers'
  BY DEF irq_install_handler
<1>3. unmasked' \ {CASCADE} \subseteq handlers'
  BY DEF irq_install_handler, IrqInv
<1> QED BY <1>1, <1>2, <1>3 DEF IrqInv, Timer

LEMMA IrqPreserved == IrqInv /\ [Next]_vars => IrqInv'
<1> SUFFICES ASSUME IrqInv, [Next]_vars PROVE IrqInv'
  OBVIOUS
<1> USE DEF Goto
<1>1. CASE arch_interrupts_init /\ UNCHANGED arch
  BY <1>1 DEF arch_interrupts_init, idt_init, gic_init, IrqInv, Timer
<1>2. CASE arch_interrupts_enable /\ UNCHANGED arch
  BY <1>2 DEF arch_interrupts_enable, irqs, IrqInv, Timer
<1>3. CASE (pit_init \/ keyboard_init \/ mouse_init) /\ UNCHANGED arch
  BY <1>3, InstallKeepsOrder DEF pit_init, keyboard_init, mouse_init
<1>4. CASE generic_timer_init /\ UNCHANGED arch
  BY <1>4 DEF generic_timer_init, gic_enable_irq, IrqInv, Timer
<1>5. CASE (SelfTest \/ RunProgram \/ Exception \/ ReportX86 \/ ReportAarch64
            \/ Devices \/ fb_init_x86 \/ virtio_blk_init \/ RamfbStep \/ virtio_input_init)
           /\ UNCHANGED arch
  BY <1>5 DEF SelfTest, RunProgram, Exception, ReportX86, ReportAarch64, Report, Devices,
              fb_init_x86, virtio_blk_init, RamfbStep, virtio_input_init, kernel_panic,
              irqs, IrqInv, Timer
<1>6. CASE UserProgram \/ FwCfg
  BY <1>6 DEF UserProgram, FwCfg, irqs, process, cpu, IrqInv, Timer
<1>7. CASE \E l \in Lines : Raise(l) \/ Irq(l)
  BY <1>7 DEF Raise, Irq, isr_handler, aarch64_irq_handler, process, cpu, IrqInv, Timer
<1>8. CASE UNCHANGED vars
  BY <1>8 DEF vars, irqs, process, cpu, IrqInv, Timer
<1> QED BY <1>1, <1>2, <1>3, <1>4, <1>5, <1>6, <1>7, <1>8 DEF Next, kernel_main

\* At no point of the boot are interrupts on without vectors, and no line is let
\* through the controller before its handler is installed: on x86_64 although the
\* PIC starts with what the firmware left unmasked, on aarch64 given that the GIC
\* starts from its reset state.
THEOREM BootIrqSafe == Spec => []NoStrayIrq
<1>1. Init => IrqInv
  BY DEF Init, IrqInv
<1>2. IrqInv => NoStrayIrq
  BY DEF IrqInv, NoStrayIrq
<1> QED BY <1>1, <1>2, IrqPreserved, PTL DEF Spec

-----------------------------------------------------------------------------
(* The CPU while a program is loaded, runs and is removed.                 *)

SegType == [load : BOOLEAN, vaddr : Nat, memsz : Nat, filesz : Nat]
ElfType == [valid : BOOLEAN, segs : Seq(SegType)]

\* The loops of process_run work on a segment of the image and on a page.
LoopInv == elf \in ElfType /\ seg \in Nat \ {0} /\ va \in Nat

\* From CreateSpace to Destroy.
HasSpace == pc \notin {"run", "done"}

\* The places where the CPU is on the boot stack in the kernel's space, on the
\* boot stack in the process's, and away from the boot stack.
InKernel == {"run", "segment", "map", "stack", "destroy", "done"}
InSpace  == {"launch", "resumed", "switch_back"}
Away     == {"trampoline", "user", "dispatch", "panic"}

CpuInv ==
    /\ pc \in InKernel \cup InSpace \cup Away
    /\ HasSpace => DOMAIN space \subseteq Nat
    /\ pc \in InKernel => cr3 = "kernel"
    /\ pc \in InKernel \cup InSpace => stack = "boot"
    /\ pc \in Away => launch /\ return_sp = "boot"
    /\ pc = "launch" => launch

LEMMA ElfsTyped == Elfs \subseteq ElfType /\ NoImage \in ElfType
<1>1. Elfs \subseteq ElfType
  BY ProcessAssumption DEF ElfType, SegType
<1>2. << >> \in Seq(SegType)
  BY EmptySeq
<1> QED BY <1>1, <1>2 DEF NoImage, ElfType

LEMMA DivNat == ASSUME NEW x \in Nat PROVE ALIGN_DOWN(x) \in Nat
BY ProcessAssumption DEF ALIGN_DOWN

LEMMA LoopPreserved == LoopInv /\ [Next]_vars => LoopInv'
<1> SUFFICES ASSUME LoopInv, [Next]_vars PROVE LoopInv'
  OBVIOUS
<1>1. CASE SelfTest
  BY <1>1, ElfsTyped DEF SelfTest, LoopInv
<1>2. CASE ReportX86 \/ ReportAarch64
  BY <1>2, ElfsTyped DEF ReportX86, ReportAarch64, Report, LoopInv
<1>3. CASE RunProgram
  <2>1. CASE NextSegment
    <3>1. seg <= Len(elf.segs) => Segment \in SegType
      BY DEF LoopInv, ElfType, Segment
    <3>2. seg <= Len(elf.segs) => ALIGN_DOWN(Segment.vaddr) \in Nat
      BY <3>1, DivNat DEF SegType
    <3>3. Len(elf.segs) \in Nat
      BY DEF LoopInv, ElfType
    <3> QED BY <2>1, <3>2, <3>3 DEF NextSegment, LoopInv, image
  <2>2. CASE Refuse \/ CreateSpace \/ MapPage \/ CopySegment \/ MapStack
             \/ PrepareLaunch \/ Launch \/ EnterUsermode
             \/ syscall_dispatch \/ aarch64_svc_handler
             \/ Sti \/ SwitchBack \/ Destroy
    BY <2>2 DEF Refuse, CreateSpace, MapPage, CopySegment, MapStack, PrepareLaunch, Launch,
                EnterUsermode, syscall_dispatch, aarch64_svc_handler, SysReturn, SysExit,
                Sti, SwitchBack, Destroy, image, LoopInv
  <2> QED BY <1>3, <2>1, <2>2 DEF RunProgram, process_run
<1>4. CASE UserProgram
  BY <1>4 DEF UserProgram, Syscall, UserFault, image, LoopInv
<1>5. CASE \/ arch_interrupts_init \/ pit_init \/ generic_timer_init \/ keyboard_init
           \/ mouse_init \/ fb_init_x86 \/ Devices \/ virtio_blk_init \/ RamfbStep
           \/ virtio_input_init \/ FwCfg \/ (\E l \in Lines : Raise(l) \/ Irq(l))
           \/ UNCHANGED vars
  <2>1. UNCHANGED process
    BY <1>5 DEF arch_interrupts_init, pit_init, generic_timer_init, keyboard_init, mouse_init,
                irq_install_handler, fb_init_x86, Devices, virtio_blk_init, RamfbStep,
                virtio_input_init, FwCfg, Raise, Irq, isr_handler, aarch64_irq_handler, vars
  <2> QED BY <2>1 DEF process, image, LoopInv
<1>6. CASE arch_interrupts_enable \/ Exception
  BY <1>6 DEF arch_interrupts_enable, Exception, image, LoopInv
<1> QED BY <1>1, <1>2, <1>3, <1>4, <1>5, <1>6 DEF Next, kernel_main

\* What a step outside of process_run and the program leaves alone.
LEMMA OthersLeaveProcess ==
    ASSUME [Next]_vars, ~RunProgram, ~UserProgram
    PROVE  UNCHANGED <<pc, space, cr3, stack, launch>> /\ (return_sp' = return_sp \/ pc = "done")
<1>1. CASE \/ arch_interrupts_init \/ pit_init \/ generic_timer_init \/ keyboard_init
           \/ mouse_init \/ fb_init_x86 \/ Devices \/ virtio_blk_init \/ RamfbStep
           \/ virtio_input_init \/ FwCfg \/ (\E l \in Lines : Raise(l) \/ Irq(l))
           \/ UNCHANGED vars
  <2>1. UNCHANGED process
    BY <1>1 DEF arch_interrupts_init, pit_init, generic_timer_init, keyboard_init, mouse_init,
                irq_install_handler, fb_init_x86, Devices, virtio_blk_init, RamfbStep,
                virtio_input_init, FwCfg, Raise, Irq, isr_handler, aarch64_irq_handler, vars
  <2> QED BY <2>1 DEF process, image, cpu
<1>2. CASE arch_interrupts_enable \/ SelfTest \/ Exception \/ ReportX86 \/ ReportAarch64
  BY <1>2 DEF arch_interrupts_enable, SelfTest, Exception, ReportX86, ReportAarch64, Report,
              image, cpu
<1> QED BY <1>1, <1>2 DEF Next, kernel_main

LEMMA CpuPreserved == CpuInv /\ LoopInv /\ [Next]_vars => CpuInv'
<1> SUFFICES ASSUME CpuInv, LoopInv, [Next]_vars PROVE CpuInv'
  OBVIOUS
<1> USE DEF InKernel, InSpace, Away, HasSpace
<1>1. CASE process_run
  <2>1. CASE Refuse \/ NextSegment
    BY <2>1 DEF Refuse, NextSegment, CpuInv, image, cpu
  <2>2. CASE CreateSpace
    <3>1. DOMAIN space' = {}
      BY <2>2 DEF CreateSpace
    <3> QED BY <2>2, <3>1 DEF CreateSpace, CpuInv, cpu
  <2>3. CASE MapPage
    <3>1. DOMAIN space' = DOMAIN space \cup {va}
      BY <2>3 DEF MapPage, MapTo
    <3>2. DOMAIN space' \subseteq Nat
      BY <2>3, <3>1 DEF MapPage, CpuInv, LoopInv
    <3> QED BY <2>3, <3>2 DEF MapPage, CpuInv, cpu
  <2>4. CASE CopySegment
    BY <2>4 DEF CopySegment, CpuInv, cpu
  <2>5. CASE MapStack
    <3>1. DOMAIN space' = DOMAIN space \cup {STACK_PAGE + USER_STACK_PAGES - 1 - va}
      BY <2>5 DEF MapStack, MapTo
    <3>2. STACK_PAGE + USER_STACK_PAGES - 1 - va \in Nat
      BY <2>5, ProcessAssumption DEF MapStack, LoopInv
    <3>3. DOMAIN space' \subseteq Nat
      BY <2>5, <3>1, <3>2 DEF MapStack, CpuInv
    <3> QED BY <2>5, <3>3 DEF MapStack, CpuInv, cpu
  <2>6. CASE PrepareLaunch \/ Launch \/ EnterUsermode
    BY <2>6 DEF PrepareLaunch, build_launch_stack, Launch, EnterUsermode, ToUser, CpuInv, image
  <2>7. CASE syscall_dispatch \/ aarch64_svc_handler
    BY <2>7 DEF syscall_dispatch, aarch64_svc_handler, SysReturn, ToUser, SysExit, CpuInv, image
  <2>8. CASE Sti \/ SwitchBack \/ Destroy
    BY <2>8 DEF Sti, SwitchBack, Destroy, CpuInv, image, cpu
  <2> QED BY <1>1, <2>1, <2>2, <2>3, <2>4, <2>5, <2>6, <2>7, <2>8 DEF process_run
<1>2. CASE UserProgram
  BY <1>2 DEF UserProgram, Syscall, UserFault, Trap, CpuInv, image
<1>3. CASE ~RunProgram /\ ~UserProgram
  BY <1>3, OthersLeaveProcess DEF CpuInv
<1> QED BY <1>1, <1>2, <1>3 DEF RunProgram

\* From the load of a program to the return of process_run the CPU has a live
\* address space and a live stack, and process_run resumes on the stack it was
\* called on, wherever the program traps or faults.
THEOREM CpuSafe == Spec => []CpuOnLive
<1>1. Init => CpuInv
  BY DEF Init, ProcessInit, CpuInv, InKernel, InSpace, Away, HasSpace
<1>2. Init => LoopInv
  BY ElfsTyped DEF Init, ProcessInit, LoopInv
<1>3. CpuInv => CpuOnLive
  <2> SUFFICES ASSUME CpuInv PROVE CpuOnLive
    OBVIOUS
  <2>1. DOMAIN space \subseteq Nat => space # NoSpace
    BY DEF NoSpace
  <2> QED BY <2>1 DEF CpuInv, CpuOnLive, InKernel, InSpace, Away, HasSpace
<1> QED BY <1>1, <1>2, <1>3, CpuPreserved, LoopPreserved, PTL DEF Spec

-----------------------------------------------------------------------------
(* Numbers.                                                                *)

\* Every set of natural numbers that is not empty has a least element.
LEMMA LeastNat ==
    ASSUME NEW T \in SUBSET Nat, T # {}
    PROVE  \E m \in T : \A n \in T : m <= n
<1>1. PICK m \in T : \A n \in T : <<n, m>> \notin OpToRel(<, Nat)
  BY NatLessThanWellFounded, WFMin
<1>2. ASSUME NEW n \in T, n < m
      PROVE  <<n, m>> \in OpToRel(<, Nat)
  <2>1. <<n, m>> \in Nat \X Nat
    OBVIOUS
  <2>2. <<n, m>>[1] < <<n, m>>[2]
    BY <1>2
  <2> QED BY <2>1, <2>2 DEF OpToRel
<1>3. \A n \in T : ~(n < m)
  BY <1>1, <1>2
<1> QED BY <1>3

LEMMA MinInSet == ASSUME NEW T \in SUBSET Nat, T # {} PROVE Min(T) \in T
BY LeastNat DEF Min

\* And a greatest one, if it is bounded.
LEMMA GreatestNat ==
    ASSUME NEW T \in SUBSET Nat, T # {}, NEW b \in Nat, \A n \in T : n <= b
    PROVE  \E m \in T : \A n \in T : n <= m
<1> DEFINE U == {b - n : n \in T}
<1>1. U \in SUBSET Nat /\ U # {}
  <2>1. \A n \in T : n \in Nat /\ b - n \in Nat
    OBVIOUS
  <2> QED BY <2>1
<1>2. PICK u \in U : \A v \in U : u <= v
  BY <1>1, LeastNat
<1>3. PICK m \in T : u = b - m
  OBVIOUS
<1>4. ASSUME NEW n \in T PROVE n <= m
  <2>1. b - n \in U
    OBVIOUS
  <2>2. b - m <= b - n
    BY <1>2, <1>3, <2>1
  <2> QED BY <2>2
<1> QED BY <1>4

-----------------------------------------------------------------------------
(* The slots, in the order the probe counts the input devices.             *)

Input(s)  == D!Matches(s, FALSE)
Before(s) == {t \in D!Slots : t < s /\ Input(t)}
Nth(s)    == Cardinality(Before(s))

LEMMA SlotsNat == D!Slots \subseteq Nat /\ D!NoSlot \notin D!Slots /\ IsFiniteSet(D!Slots)
BY BootAssumption, FS_Interval DEF D!Slots, D!NoSlot

LEMMA NthNat == \A s : IsFiniteSet(Before(s)) /\ Nth(s) \in Nat
BY SlotsNat, FS_Subset, FS_CardinalityType DEF Before, Nth

LEMMA NthGrows ==
    ASSUME NEW s \in D!Slots, NEW t \in D!Slots, s < t, Input(s)
    PROVE  Nth(s) < Nth(t)
<1>1. Before(s) \cup {s} \subseteq Before(t) /\ s \notin Before(s)
  <2>1. s \in Nat /\ t \in Nat
    BY SlotsNat
  <2>2. \A r \in D!Slots : r < s => r < t
    BY <2>1, SlotsNat
  <2>3. \A r \in Before(s) : r \in Before(t)
    BY <2>2 DEF Before
  <2>4. s \in Before(t) /\ s \notin Before(s)
    BY <2>1 DEF Before
  <2> QED BY <2>3, <2>4
<1>2. Cardinality(Before(s) \cup {s}) = Nth(s) + 1
  BY <1>1, NthNat, FS_AddElement DEF Nth
<1>3. Cardinality(Before(s) \cup {s}) <= Nth(t)
  BY <1>1, NthNat, FS_Subset DEF Nth
<1> QED BY <1>2, <1>3, NthNat

\* No number is left out: when no input device is the n-th, all come before.
LEMMA NthGap ==
    ASSUME NEW n \in Nat, \A s \in D!Slots : Input(s) => Nth(s) # n
    PROVE  \A s \in D!Slots : Input(s) => Nth(s) < n
<1> DEFINE T == {s \in D!Slots : Input(s) /\ Nth(s) > n}
<1>1. SUFFICES T = {}
  BY NthNat
<1>2. SUFFICES ASSUME T # {} PROVE FALSE
  OBVIOUS
<1>3. PICK s \in T : \A t \in T : s <= t
  BY <1>2, SlotsNat, LeastNat
<1>4. s \in Nat /\ Before(s) \subseteq Nat
  BY <1>3, SlotsNat DEF Before
<1>5. Before(s) # {}
  <2>1. Nth(s) > 0
    BY <1>3, NthNat
  <2> QED BY <2>1, FS_EmptySet DEF Nth
<1>6. PICK u \in Before(s) : \A t \in Before(s) : t <= u
  <2>1. \A t \in Before(s) : t <= s
    BY <1>4 DEF Before
  <2> QED BY <1>4, <1>5, <2>1, GreatestNat
<1>7. u \in D!Slots /\ u < s /\ Input(u) /\ u \in Nat
  BY <1>4, <1>6 DEF Before
<1>8. Before(s) = Before(u) \cup {u} /\ u \notin Before(u)
  <2>1. \A r \in D!Slots : r < u => r < s
    BY <1>4, <1>7, SlotsNat
  <2>2. \A r \in Before(s) : r \in Before(u) \cup {u}
    BY <1>4, <1>6, <1>7 DEF Before
  <2>3. \A r \in Before(u) \cup {u} : r \in Before(s)
    BY <1>7, <2>1 DEF Before
  <2>4. u \notin Before(u)
    BY <1>7 DEF Before
  <2> QED BY <2>2, <2>3, <2>4
<1>9. Nth(s) = Nth(u) + 1
  BY <1>8, NthNat, FS_AddElement DEF Nth
<1>10. u \in T
  BY <1>3, <1>7, <1>9, NthNat
<1> QED BY <1>3, <1>4, <1>7, <1>10

LEMMA NthSame == UNCHANGED machine => \A s : Nth(s)' = Nth(s) /\ Input(s)' = Input(s)
BY DEF Nth, Before, Input, D!Matches

\* VirtioProbe counts and chooses with the same operators.
LEMMA SameCardinality == \A S : D!Cardinality(S) = Cardinality(S)
BY DEF D!Cardinality, Cardinality

LEMMA SameMin == \A S : D!Min(S) = Min(S)
BY DEF D!Min, Min

LEMMA FindInput ==
    ASSUME NEW n \in Nat, NEW s, s = D!find_slot(FALSE, n)
    PROVE  IF s = D!NoSlot THEN \A t \in D!Slots : Input(t) => Nth(t) # n
           ELSE s \in D!Slots /\ Input(s) /\ Nth(s) = n
<1> DEFINE T == {t \in D!Slots : D!Matches(t, FALSE) /\
                   D!Cardinality({r \in D!Slots : r < t /\ D!Matches(r, FALSE)}) = n}
<1>1. s = IF T = {} THEN D!NoSlot ELSE D!Min(T)
  BY DEF D!find_slot
<1>2. \A t \in D!Slots : t \in T <=> Input(t) /\ Nth(t) = n
  BY SameCardinality DEF Nth, Before, Input
<1>3. T # {} => D!Min(T) \in T
  BY SlotsNat, MinInSet, SameMin
<1> HIDE DEF T
<1>4. T \subseteq D!Slots
  BY DEF T
<1> QED BY <1>1, <1>2, <1>3, <1>4, SlotsNat

LEMMA FindBlock ==
    ASSUME NEW s, s = D!find_slot(TRUE, 0)
    PROVE  s = D!NoSlot \/ (s \in D!Slots /\ machine[s].kind = "blk")
<1> DEFINE T == {t \in D!Slots : D!Matches(t, TRUE) /\
                   D!Cardinality({r \in D!Slots : r < t /\ D!Matches(r, TRUE)}) = 0}
<1>1. s = IF T = {} THEN D!NoSlot ELSE D!Min(T)
  BY DEF D!find_slot
<1>2. T # {} => D!Min(T) \in T
  BY SlotsNat, MinInSet, SameMin
<1> QED BY <1>1, <1>2 DEF D!Matches

-----------------------------------------------------------------------------
(* Probing.                                                                *)

ProbeTypes ==
    /\ machine \in [D!Slots -> [kind : D!Kinds, fault : D!Faults]]
    /\ probes \in Nat /\ di \in Nat
    /\ rings \in [D!Slots -> Nat]

\* The scan runs once, after everything else on aarch64.
ScanOrder ==
    /\ dpc # "blk" => stage \in {"ramfb", "input", "running"}
    /\ dpc = "done" => stage = "running"
    /\ dpc = "blk" => /\ blk = D!Absent /\ kbd = D!Absent /\ mouse = D!Absent
                      /\ di = 0

\* A device that is claimed is of the right kind and still has its rings; an
\* input device is one the scan has passed.
Attached(d, kind) ==
    D!Present(d) => d.slot \in D!Slots /\ machine[d.slot].kind = kind /\ rings[d.slot] = d.rings

Passed(d) == D!Present(d) => Nth(d.slot) < di

\* A keyboard or mouse the scan has passed was claimed, if none was before.
NoneMissed(d, kind) ==
    \A s \in D!Slots : Nth(s) < di /\ machine[s].kind = kind => D!Present(d)

ProbeInv ==
    /\ ProbeTypes /\ ScanOrder
    /\ Attached(blk, "blk")
    /\ Attached(kbd, "Keyboard") /\ Passed(kbd) /\ NoneMissed(kbd, "Keyboard")
    /\ Attached(mouse, "Mouse") /\ Passed(mouse) /\ NoneMissed(mouse, "Mouse")
    /\ ScanFinds

\* virtio_mmio_probe_nth touches the rings of its slot alone.
LEMMA ProbeEffect ==
    ASSUME ProbeTypes, NEW s \in D!Slots \cup {D!NoSlot}, D!probe(s)
    PROVE  /\ probes' \in Nat /\ rings' \in [D!Slots -> Nat]
           /\ \A t \in D!Slots : t # s => rings'[t] = rings[t]
           /\ D!Probed => s \in D!Slots /\ rings'[s] = probes'
           /\ ~D!Probed /\ s # D!NoSlot /\ machine[s].fault = "ok" => frames' = 0
<1> DEFINE asks == s # D!NoSlot /\ machine[s].fault = "ok"
           ok   == asks /\ frames >= 3
<1>1. CASE ok
  <2>1. s \in D!Slots /\ probes' = probes + 1 /\ rings' = [rings EXCEPT ![s] = probes']
    BY <1>1 DEF D!probe
  <2> QED BY <2>1 DEF ProbeTypes, D!Probed
<1>2. CASE ~ok
  <2>1. /\ probes' = probes
        /\ rings' = rings \/ (s # D!NoSlot /\ rings' = [rings EXCEPT ![s] = 0])
        /\ asks => frames' = 0
    BY <1>2 DEF D!probe
  <2> QED BY <2>1 DEF ProbeTypes, D!Probed
<1> QED BY <1>1, <1>2

\* What the probe of another slot leaves attached.
LEMMA AttachedStays ==
    ASSUME NEW d, NEW kind, NEW s, Attached(d, kind), UNCHANGED machine,
           \A t \in D!Slots : t # s => rings'[t] = rings[t],
           D!Present(d) => d.slot # s
    PROVE  D!Present(d) => d.slot \in D!Slots /\ machine'[d.slot].kind = kind
                           /\ rings'[d.slot] = d.rings
BY DEF Attached

LEMMA BlkInitPreserves ==
    ASSUME ProbeInv, virtio_blk_init
    PROVE  ProbeInv'
<1> DEFINE s == D!find_slot(TRUE, 0)
<1>1. dpc = "blk" /\ dpc' = "scan" /\ stage' = "ramfb" /\ UNCHANGED <<machine, kbd, mouse, di>>
  BY DEF virtio_blk_init, D!virtio_blk_init, Goto
<1>2. D!probe(s) /\ blk' = IF D!Probed THEN [slot |-> s, rings |-> probes'] ELSE blk
  BY DEF virtio_blk_init, D!virtio_blk_init
<1>3. s = D!NoSlot \/ (s \in D!Slots /\ machine[s].kind = "blk")
  BY FindBlock
<1> HIDE DEF s
<1>4. blk = D!Absent /\ kbd = D!Absent /\ mouse = D!Absent /\ di = 0
  BY <1>1 DEF ProbeInv, ScanOrder
<1>5. /\ probes' \in Nat /\ rings' \in [D!Slots -> Nat]
      /\ D!Probed => s \in D!Slots /\ rings'[s] = probes'
  BY <1>2, <1>3, ProbeEffect DEF ProbeInv
<1>6. ProbeTypes' /\ ScanOrder'
  BY <1>1, <1>5 DEF ProbeInv, ProbeTypes, ScanOrder
<1>7. Attached(blk, "blk")'
  BY <1>1, <1>2, <1>3, <1>4, <1>5, SlotsNat DEF Attached, D!Present, D!Absent
<1>8. ~D!Present(kbd)' /\ ~D!Present(mouse)' /\ di' = 0
  BY <1>1, <1>4 DEF D!Present, D!Absent
<1>9. \A t : ~(Nth(t)' < 0)
  BY <1>1, NthNat, NthSame
<1>10. Attached(kbd, "Keyboard")' /\ Passed(kbd)' /\ NoneMissed(kbd, "Keyboard")'
  BY <1>8, <1>9 DEF Attached, Passed, NoneMissed
<1>11. Attached(mouse, "Mouse")' /\ Passed(mouse)' /\ NoneMissed(mouse, "Mouse")'
  BY <1>8, <1>9 DEF Attached, Passed, NoneMissed
<1>12. ScanFinds'
  BY <1>1 DEF ScanFinds, D!ScanFinds
<1> QED BY <1>6, <1>7, <1>10, <1>11, <1>12 DEF ProbeInv

\* A claim of the scan: the first device of its kind, probed just now.
LEMMA ClaimPreserves ==
    ASSUME NEW d, NEW e, NEW kind \in {"Keyboard", "Mouse"}, NEW s \in D!Slots \cup {D!NoSlot},
           NEW claims \in BOOLEAN,
           ProbeTypes, ProbeTypes', UNCHANGED machine,
           Attached(d, kind), Passed(d), NoneMissed(d, kind),
           IF s = D!NoSlot THEN \A t \in D!Slots : Input(t) => Nth(t) # di
           ELSE s \in D!Slots /\ Input(s) /\ Nth(s) = di,
           \A t \in D!Slots : t # s => rings'[t] = rings[t],
           D!Probed => s \in D!Slots /\ rings'[s] = probes',
           claims <=> D!Probed /\ ~D!Present(d) /\ machine[s].kind = kind,
           e = IF claims THEN [slot |-> s, rings |-> probes'] ELSE d,
           di' = IF D!Probed THEN di + 1 ELSE di
    PROVE  /\ D!Present(e) => /\ e.slot \in D!Slots /\ machine'[e.slot].kind = kind
                              /\ rings'[e.slot] = e.rings /\ Nth(e.slot) < di'
           /\ \A t \in D!Slots : Nth(t) < di' /\ machine'[t].kind = kind => D!Present(e)
<1>1. \A t : Nth(t) \in Nat
  BY NthNat
<1>2. di \in Nat /\ di' \in Nat /\ di <= di'
  BY DEF ProbeTypes
<1>3. CASE claims
  <2>1. s \in D!Slots /\ e = [slot |-> s, rings |-> probes'] /\ D!Present(e)
    BY <1>3, SlotsNat DEF D!Present
  <2>2. rings'[s] = probes' /\ machine'[s].kind = kind /\ Nth(s) = di /\ di' = di + 1
    BY <1>3, <2>1, SlotsNat
  <2> QED BY <1>1, <1>2, <2>1, <2>2
<1>4. CASE ~claims
  <2>1. e = d
    BY <1>4
  <2>2. D!Present(d) => /\ d.slot \in D!Slots /\ machine'[d.slot].kind = kind
                        /\ rings'[d.slot] = d.rings /\ Nth(d.slot) < di'
    <3>1. D!Present(d) => d.slot # s
      BY <1>1, <1>2, SlotsNat DEF Attached, Passed
    <3> QED BY <1>1, <1>2, <3>1 DEF Attached, Passed
  <2>3. ASSUME NEW t \in D!Slots, Nth(t) < di', machine[t].kind = kind
        PROVE  D!Present(d)
    <3>1. CASE Nth(t) < di
      BY <2>3, <3>1 DEF NoneMissed
    <3>2. CASE ~(Nth(t) < di)
      <4>1. Nth(t) = di /\ D!Probed /\ s \in D!Slots
        BY <1>1, <1>2, <2>3, <3>2
      <4>2. Input(t) /\ Input(s) /\ Nth(s) = di
        BY <2>3, <4>1, SlotsNat DEF Input, D!Matches
      <4>3. t = s
        <5>1. ~(t < s) /\ ~(s < t)
          BY <4>1, <4>2, <1>2, NthGrows
        <5>2. t \in Nat /\ s \in Nat
          BY <4>1, SlotsNat
        <5> QED BY <5>1, <5>2
      <4> QED BY <1>4, <2>3, <4>1, <4>3
    <3> QED BY <3>1, <3>2
  <2> QED BY <1>1, <2>1, <2>2, <2>3
<1> QED BY <1>3, <1>4

LEMMA ScanPreserves ==
    ASSUME ProbeInv, D!Scan, stage' = IF dpc' = "done" THEN "running" ELSE stage,
           stage = "input"
    PROVE  ProbeInv'
<1> DEFINE s == D!find_slot(FALSE, di)
           isKbd == D!Probed /\ ~D!Present(kbd) /\ machine[s].kind = "Keyboard"
           isMouse == D!Probed /\ ~D!Present(mouse) /\ machine[s].kind = "Mouse"
<1>1. /\ dpc = "scan" /\ dpc' = (IF D!Probed THEN "scan" ELSE "done")
      /\ di' = (IF D!Probed THEN di + 1 ELSE di)
      /\ UNCHANGED <<machine, blk>> /\ D!probe(s)
      /\ kbd' = (IF isKbd THEN [slot |-> s, rings |-> probes'] ELSE kbd)
      /\ mouse' = (IF isMouse THEN [slot |-> s, rings |-> probes'] ELSE mouse)
  BY DEF D!Scan
<1>2. di \in Nat /\ ProbeTypes
  BY DEF ProbeInv, ProbeTypes
<1>3. IF s = D!NoSlot THEN \A t \in D!Slots : Input(t) => Nth(t) # di
      ELSE s \in D!Slots /\ Input(s) /\ Nth(s) = di
  BY <1>2, FindInput
<1> HIDE DEF s
<1>4. s \in D!Slots \cup {D!NoSlot}
  BY <1>3
<1>5. /\ probes' \in Nat /\ rings' \in [D!Slots -> Nat]
      /\ \A t \in D!Slots : t # s => rings'[t] = rings[t]
      /\ D!Probed => s \in D!Slots /\ rings'[s] = probes'
      /\ ~D!Probed /\ s # D!NoSlot /\ machine[s].fault = "ok" => frames' = 0
  BY <1>1, <1>2, <1>4, ProbeEffect
<1>6. ProbeTypes'
  BY <1>1, <1>2, <1>5 DEF ProbeTypes
<1>7. ScanOrder'
  BY <1>1 DEF ProbeInv, ScanOrder
<1>8. Attached(blk, "blk")'
  <2>1. D!Present(blk) => blk.slot # s
    BY <1>3, SlotsNat DEF ProbeInv, Attached, Input, D!Matches
  <2> QED BY <1>1, <1>5, <2>1 DEF ProbeInv, Attached, D!Present
<1>9. Attached(kbd, "Keyboard")' /\ Passed(kbd)' /\ NoneMissed(kbd, "Keyboard")'
  <2>1. /\ D!Present(kbd') => /\ kbd'.slot \in D!Slots /\ machine'[kbd'.slot].kind = "Keyboard"
                              /\ rings'[kbd'.slot] = kbd'.rings /\ Nth(kbd'.slot) < di'
        /\ \A t \in D!Slots : Nth(t) < di' /\ machine'[t].kind = "Keyboard" => D!Present(kbd')
    <3> HIDE DEF isKbd
    <3>1. isKbd \in BOOLEAN
      BY DEF isKbd
    <3>2. isKbd <=> D!Probed /\ ~D!Present(kbd) /\ machine[s].kind = "Keyboard"
      BY DEF isKbd
    <3>3. Attached(kbd, "Keyboard") /\ Passed(kbd) /\ NoneMissed(kbd, "Keyboard")
      BY DEF ProbeInv
    <3> QED BY <1>1, <1>2, <1>3, <1>4, <1>5, <1>6, <3>1, <3>2, <3>3, ClaimPreserves
  <2>2. Attached(kbd, "Keyboard")'
    BY <2>1 DEF Attached, D!Present
  <2>3. Passed(kbd)'
    BY <1>1, <2>1 DEF Passed, D!Present, Nth, Before, Input, D!Matches
  <2>4. NoneMissed(kbd, "Keyboard")'
    BY <1>1, <2>1, NthSame DEF NoneMissed, D!Present
  <2> QED BY <2>2, <2>3, <2>4
<1>10. Attached(mouse, "Mouse")' /\ Passed(mouse)' /\ NoneMissed(mouse, "Mouse")'
  <2>1. /\ D!Present(mouse') => /\ mouse'.slot \in D!Slots /\ machine'[mouse'.slot].kind = "Mouse"
                                /\ rings'[mouse'.slot] = mouse'.rings /\ Nth(mouse'.slot) < di'
        /\ \A t \in D!Slots : Nth(t) < di' /\ machine'[t].kind = "Mouse" => D!Present(mouse')
    <3> HIDE DEF isMouse
    <3>1. isMouse \in BOOLEAN
      BY DEF isMouse
    <3>2. isMouse <=> D!Probed /\ ~D!Present(mouse) /\ machine[s].kind = "Mouse"
      BY DEF isMouse
    <3>3. Attached(mouse, "Mouse") /\ Passed(mouse) /\ NoneMissed(mouse, "Mouse")
      BY DEF ProbeInv
    <3> QED BY <1>1, <1>2, <1>3, <1>4, <1>5, <1>6, <3>1, <3>2, <3>3, ClaimPreserves
  <2>2. Attached(mouse, "Mouse")'
    BY <2>1 DEF Attached, D!Present
  <2>3. Passed(mouse)'
    BY <1>1, <2>1 DEF Passed, D!Present, Nth, Before, Input, D!Matches
  <2>4. NoneMissed(mouse, "Mouse")'
    BY <1>1, <2>1, NthSame DEF NoneMissed, D!Present
  <2> QED BY <2>2, <2>3, <2>4
<1>11. ScanFinds'
  <2>1. SUFFICES ASSUME dpc' = "done", \A t \in D!Slots : machine'[t].fault = "ok", frames' >= 3,
                        NEW d, NEW kind \in {"Keyboard", "Mouse"},
                        Attached(d, kind)', NoneMissed(d, kind)'
                 PROVE  D!Present(d)' <=> \E t \in D!Slots : machine'[t].kind = kind
    BY <1>9, <1>10 DEF ScanFinds, D!ScanFinds
  <2>2. s = D!NoSlot /\ di' = di
    BY <1>1, <1>4, <1>5, <2>1
  <2>3. \A t \in D!Slots : Input(t) => Nth(t) < di
    BY <1>2, <1>3, <2>2, NthGap
  <2>4. \A t \in D!Slots : machine[t].kind = kind => Input(t)
    BY DEF Input, D!Matches
  <2>5. \A t \in D!Slots : machine'[t].kind = kind => Nth(t)' < di'
    BY <1>1, <2>2, <2>3, <2>4, NthSame
  <2> QED BY <2>1, <2>5 DEF Attached, NoneMissed
<1> QED BY <1>6, <1>7, <1>8, <1>9, <1>10, <1>11 DEF ProbeInv

\* Before the devices are looked for there is nothing to keep.
LEMMA UnprobedInv ==
    ASSUME ProbeTypes', ScanOrder', dpc' = "blk"
    PROVE  ProbeInv'
<1>1. ~D!Present(blk)' /\ ~D!Present(kbd)' /\ ~D!Present(mouse)' /\ di' = 0
  BY DEF ScanOrder, D!Present, D!Absent
<1>2. \A t : ~(Nth(t)' < 0)
  <2>1. D!Slots' = D!Slots
    BY DEF D!Slots
  <2>2. \A t : Nth(t)' \in Nat
    BY <2>1, SlotsNat, FS_Subset, FS_CardinalityType DEF Nth, Before
  <2> QED BY <2>2
<1> QED BY <1>1, <1>2 DEF ProbeInv, Attached, Passed, NoneMissed, ScanFinds, D!ScanFinds

LEMMA ProbePreserved == ProbeInv /\ [Next]_vars => ProbeInv'
<1> SUFFICES ASSUME ProbeInv, [Next]_vars PROVE ProbeInv'
  OBVIOUS
<1>1. CASE virtio_blk_init
  BY <1>1, BlkInitPreserves
<1>2. CASE virtio_input_init
  <2>1. /\ stage = "input" /\ D!virtio_input_init
        /\ stage' = IF dpc' = "done" THEN "running" ELSE stage
    BY <1>2 DEF virtio_input_init, Goto
  <2>2. CASE D!Scan
    BY <2>1, <2>2, ScanPreserves
  <2>3. CASE D!ScanEnds
    <3>1. /\ dpc = "scan" /\ dpc' = "done" /\ D!Present(kbd) /\ D!Present(mouse)
          /\ UNCHANGED <<machine, frames, probes, rings, blk, kbd, mouse, di>>
      BY <2>3 DEF D!ScanEnds
    <3>2. ProbeTypes' /\ ScanOrder'
      BY <2>1, <3>1 DEF ProbeInv, ProbeTypes, ScanOrder
    <3>3. /\ Attached(blk, "blk")' /\ Attached(kbd, "Keyboard")' /\ Attached(mouse, "Mouse")'
      BY <3>1 DEF ProbeInv, Attached, D!Present
    <3>4. /\ Passed(kbd)' /\ NoneMissed(kbd, "Keyboard")'
          /\ Passed(mouse)' /\ NoneMissed(mouse, "Mouse")'
      BY <3>1, NthSame DEF ProbeInv, Passed, NoneMissed, D!Present, Nth, Before, Input, D!Matches
    <3>5. ScanFinds'
      BY <3>1, <3>3 DEF ScanFinds, D!ScanFinds, Attached, D!Present
    <3> QED BY <3>2, <3>3, <3>4, <3>5 DEF ProbeInv
  <2> QED BY <2>1, <2>2, <2>3 DEF D!virtio_input_init
<1>3. CASE Devices /\ UNCHANGED devices
  <2>1. stage = "devices" /\ machine' \in Machines /\ stage' = "blk" /\ UNCHANGED devices
    BY <1>3 DEF Devices, Goto
  <2>2. dpc = "blk"
    BY <2>1 DEF ProbeInv, ScanOrder
  <2>3. ProbeTypes' /\ ScanOrder' /\ dpc' = "blk"
    BY <2>1, <2>2, BootAssumption DEF devices, ProbeInv, ProbeTypes, ScanOrder
  <2> QED BY <2>3, UnprobedInv
<1>4. CASE UNCHANGED virtio /\ (stage' = stage \/ stage \notin {"ramfb", "input", "running"}
                                \/ (stage = "ramfb" /\ stage' = "input"))
           /\ (frames' = frames \/ stage = "ramfb")
  <2>1. UNCHANGED <<machine, probes, rings, blk, kbd, mouse, dpc, di>>
    BY <1>4 DEF virtio, devices
  <2>2. ProbeTypes' /\ ScanOrder'
    BY <1>4, <2>1 DEF ProbeInv, ProbeTypes, ScanOrder
  <2>3. /\ Attached(blk, "blk")' /\ Attached(kbd, "Keyboard")' /\ Attached(mouse, "Mouse")'
    BY <2>1 DEF ProbeInv, Attached, D!Present
  <2>4. /\ Passed(kbd)' /\ NoneMissed(kbd, "Keyboard")'
        /\ Passed(mouse)' /\ NoneMissed(mouse, "Mouse")'
    BY <2>1, NthSame DEF ProbeInv, Passed, NoneMissed, D!Present, Nth, Before, Input, D!Matches
  <2>5. ScanFinds'
    BY <1>4, <2>1 DEF ProbeInv, ScanOrder, ScanFinds, D!ScanFinds, D!Present
  <2> QED BY <2>2, <2>3, <2>4, <2>5 DEF ProbeInv
<1>5. CASE /\ \/ arch_interrupts_init \/ arch_interrupts_enable \/ pit_init
              \/ generic_timer_init \/ keyboard_init \/ mouse_init \/ SelfTest \/ RunProgram
              \/ Exception \/ ReportX86 \/ ReportAarch64 \/ fb_init_x86
           /\ UNCHANGED <<frames, virtio>>
  <2>1. stage' = stage \/ stage \notin {"ramfb", "input", "running"}
    BY <1>5 DEF arch_interrupts_init, arch_interrupts_enable, pit_init, generic_timer_init,
                keyboard_init, mouse_init, irq_install_handler, SelfTest, RunProgram, Exception,
                ReportX86, ReportAarch64, Report, fb_init_x86
  <2> QED BY <1>4, <1>5, <2>1
<1>6. CASE RamfbStep
  BY <1>4, <1>6 DEF RamfbStep, Goto
<1>7. CASE UserProgram \/ FwCfg \/ (\E l \in Lines : Raise(l) \/ Irq(l)) \/ UNCHANGED vars
  <2>1. UNCHANGED <<stage, frames, virtio>>
    BY <1>7 DEF UserProgram, FwCfg, DmaServe, DmaFails, Raise, Irq, isr_handler,
                aarch64_irq_handler, vars
  <2> QED BY <1>4, <2>1
<1> QED BY <1>1, <1>2, <1>3, <1>5, <1>6, <1>7 DEF Next, kernel_main

LEMMA ProbeInvHolds == Spec => []ProbeInv
<1>1. Init => ProbeInv
  <2> SUFFICES ASSUME Init PROVE ProbeInv
    OBVIOUS
  <2>1. ProbeTypes
    BY DEF Init, D!ProbeInit, ProbeTypes, D!Kinds, D!Faults
  <2>2. dpc = "blk" /\ di = 0 /\ blk = D!Absent /\ kbd = D!Absent /\ mouse = D!Absent
    BY DEF Init, D!ProbeInit
  <2>3. ~D!Present(blk) /\ ~D!Present(kbd) /\ ~D!Present(mouse)
    BY <2>2 DEF D!Present, D!Absent
  <2>4. \A t : ~(Nth(t) < 0)
    BY NthNat
  <2> QED BY <2>1, <2>2, <2>3, <2>4
          DEF ProbeInv, ScanOrder, Attached, Passed, NoneMissed, ScanFinds, D!ScanFinds
<1> QED BY <1>1, ProbePreserved, PTL DEF Spec

\* On every machine, with any number of slots and any amount of memory, no
\* virtio_device_t is left pointing to rings its device has forgotten: the scan
\* never probes a claimed device again.
THEOREM ClaimsSafe == Spec => []ClaimsAttached
<1>1. ProbeInv => ClaimsAttached
  BY DEF ProbeInv, Attached, ClaimsAttached, D!ClaimsAttached
<1> QED BY <1>1, ProbeInvHolds, PTL

\* On every machine whose devices all come up and with memory to spare, the scan
\* of virtio_input_init ends with the keyboard and the mouse, each if there is
\* one, in whatever slots and however many other devices there are.
THEOREM ScanSafe == Spec => []ScanFinds
<1>1. ProbeInv => ScanFinds
  BY DEF ProbeInv
<1> QED BY <1>1, ProbeInvHolds, PTL

-----------------------------------------------------------------------------
(* Loading the image.                                                      *)

\* Segment k is in memory.
Loaded(k) ==
    \A o \in 0 .. elf.segs[k].memsz - 1 :
      /\ ALIGN_DOWN(elf.segs[k].vaddr + o) \in DOMAIN space
      /\ ByteAt(elf.segs[k].vaddr + o) = IF o < elf.segs[k].filesz THEN <<k, o>> ELSE Zero

\* The program has not been looked for before stage "process".
NotYet == {"interrupts", "enable", "timer", "keyboard", "fb", "mouse", "selftest"}

ImageOrder ==
    /\ LaidOut(elf) /\ elf \in ElfType
    /\ stage \in NotYet => pc = "run"
    /\ pc = "run" => seg = 1
    /\ pc = "map" => seg \in DOMAIN elf.segs /\ Segment.load
    /\ HasSpace /\ pc \notin {"segment", "map"} => seg > Len(elf.segs)

\* The mapped pages have frames of their own, which the PMM does not give again.
FramesOwn ==
    /\ free \subseteq Frames
    /\ DOMAIN mem = Frames \cup {0}
    /\ HasSpace => /\ \A p \in DOMAIN space : space[p] \in Frames \ free
                   /\ \A p, q \in DOMAIN space : space[p] = space[q] => p = q

\* The pages of the segment that is being mapped are zero so far.
PagesZeroed ==
    pc = "map" =>
      /\ ALIGN_DOWN(Segment.vaddr) <= va
      /\ \A p \in ALIGN_DOWN(Segment.vaddr) .. va - 1 :
           p \in DOMAIN space /\ \A b \in Offs : mem[space[p]][b] = Zero

SegmentsLoaded ==
    HasSpace => \A k \in DOMAIN elf.segs : k < seg /\ elf.segs[k].load => Loaded(k)

LoadInv == ImageOrder /\ FramesOwn /\ PagesZeroed /\ SegmentsLoaded

LEMMA DivMod ==
    ASSUME NEW x \in Nat
    PROVE  ALIGN_DOWN(x) \in Nat /\ x % PAGE_SIZE \in Offs
BY ProcessAssumption DEF ALIGN_DOWN, Offs

\* A page and an offset name one byte.
LEMMA SamePlace ==
    ASSUME NEW x \in Nat, NEW y \in Nat,
           ALIGN_DOWN(x) = ALIGN_DOWN(y), x % PAGE_SIZE = y % PAGE_SIZE
    PROVE  x = y
<1>1. ASSUME NEW d \in Nat, d > 0, x \div d = y \div d, x % d = y % d PROVE x = y
  BY <1>1
<1> QED BY <1>1, ProcessAssumption DEF ALIGN_DOWN

LEMMA DownMonotone ==
    ASSUME NEW x \in Nat, NEW y \in Nat, x <= y
    PROVE  ALIGN_DOWN(x) <= ALIGN_DOWN(y)
<1>1. ASSUME NEW d \in Nat \ {0} PROVE x \div d <= y \div d
  BY SMTT(30)
<1> QED BY <1>1, ProcessAssumption DEF ALIGN_DOWN

LEMMA UpIsPastDown ==
    ASSUME NEW x \in Nat, NEW y \in Nat, x < y
    PROVE  ALIGN_DOWN(x) < ALIGN_UP(y) /\ ALIGN_UP(y) \in Nat
<1>1. ALIGN_UP(y) = ALIGN_DOWN(y + PAGE_SIZE - 1) /\ y + PAGE_SIZE - 1 \in Nat
  BY ProcessAssumption DEF ALIGN_UP, ALIGN_DOWN
<1>2. x + PAGE_SIZE \in Nat /\ x + PAGE_SIZE <= y + PAGE_SIZE - 1
  BY ProcessAssumption
<1>3. ALIGN_DOWN(x + PAGE_SIZE) = ALIGN_DOWN(x) + 1
  BY ProcessAssumption DEF ALIGN_DOWN
<1>4. ALIGN_DOWN(x + PAGE_SIZE) <= ALIGN_UP(y)
  BY <1>1, <1>2, DownMonotone
<1> QED BY <1>1, <1>3, <1>4, DivMod

\* Every byte of a segment is on one of its pages.
LEMMA InPages ==
    ASSUME NEW s \in SegType, NEW o \in 0 .. s.memsz - 1
    PROVE  /\ ALIGN_DOWN(s.vaddr + o) \in Pages(s) /\ s.vaddr + o \in Nat
           /\ (s.vaddr + o) % PAGE_SIZE \in Offs
<1>1. s.vaddr \in Nat /\ s.memsz \in Nat /\ o \in Nat /\ s.vaddr + o \in Nat
      /\ s.vaddr + o < s.vaddr + s.memsz /\ s.vaddr <= s.vaddr + o /\ s.vaddr + s.memsz \in Nat
  BY DEF SegType
<1>2. ALIGN_DOWN(s.vaddr) <= ALIGN_DOWN(s.vaddr + o)
  BY <1>1, DownMonotone
<1>3. ALIGN_DOWN(s.vaddr + o) < SegmentEnd(s) /\ SegmentEnd(s) \in Nat
  BY <1>1, UpIsPastDown DEF SegmentEnd
<1>4. ALIGN_DOWN(s.vaddr) \in Nat /\ ALIGN_DOWN(s.vaddr + o) \in Nat
      /\ (s.vaddr + o) % PAGE_SIZE \in Offs
  BY <1>1, DivMod
<1> QED BY <1>1, <1>2, <1>3, <1>4 DEF Pages

LEMMA AllocIsFree == ASSUME FramesOwn, free # {} PROVE Alloc \in free
<1>1. free \in SUBSET Nat
  BY ProcessAssumption DEF FramesOwn
<1> QED BY <1>1, MinInSet DEF Alloc

\* A page that gets a new frame disturbs no other page.
LEMMA NewPage ==
    ASSUME FramesOwn, HasSpace, NEW page, NEW f \in free,
           MapTo(page, f), free' = free \ {f},
           DOMAIN mem' = DOMAIN mem, \A g \in DOMAIN mem : g # f => mem'[g] = mem[g]
    PROVE  /\ FramesOwn'
           /\ page \in DOMAIN space' /\ space'[page] = f
           /\ \A p \in DOMAIN space : p \in DOMAIN space'
           /\ \A p \in DOMAIN space : p # page => mem'[space'[p]] = mem[space[p]]
<1>1. /\ DOMAIN space' = DOMAIN space \cup {page} /\ space'[page] = f
      /\ \A p \in DOMAIN space : p # page => space'[p] = space[p]
  BY DEF MapTo
<1>2. /\ free \subseteq Frames /\ DOMAIN mem = Frames \cup {0}
      /\ \A p \in DOMAIN space : space[p] \in Frames \ free
      /\ \A p, q \in DOMAIN space : space[p] = space[q] => p = q
  BY DEF FramesOwn
<1>3. \A p \in DOMAIN space' : space'[p] \in Frames \ free'
  BY <1>1, <1>2
<1>4. \A p, q \in DOMAIN space' : space'[p] = space'[q] => p = q
  BY <1>1, <1>2
<1>5. \A p \in DOMAIN space : p # page => mem'[space'[p]] = mem[space[p]]
  BY <1>1, <1>2
<1>6. FramesOwn'
  BY <1>2, <1>3, <1>4 DEF FramesOwn
<1> QED BY <1>1, <1>5, <1>6

LEMMA LoadedStays ==
    ASSUME NEW k, elf.segs[k] \in SegType, elf' = elf, Loaded(k),
           \A p \in DOMAIN space : p \in DOMAIN space',
           \A p \in DOMAIN space :
             p \in Pages(elf.segs[k]) => mem'[space'[p]] = mem[space[p]]
    PROVE  Loaded(k)'
<1> SUFFICES ASSUME NEW o \in 0 .. elf.segs[k].memsz - 1
             PROVE  /\ ALIGN_DOWN(elf.segs[k].vaddr + o) \in DOMAIN space'
                    /\ mem'[space'[ALIGN_DOWN(elf.segs[k].vaddr + o)]][(elf.segs[k].vaddr + o) % PAGE_SIZE]
                         = IF o < elf.segs[k].filesz THEN <<k, o>> ELSE Zero
  BY DEF Loaded, ByteAt, ALIGN_DOWN, Zero
<1> DEFINE v == elf.segs[k].vaddr + o
<1>1. ALIGN_DOWN(v) \in DOMAIN space
      /\ mem[space[ALIGN_DOWN(v)]][v % PAGE_SIZE] = IF o < elf.segs[k].filesz THEN <<k, o>> ELSE Zero
  BY DEF Loaded, ByteAt
<1>2. ALIGN_DOWN(v) \in Pages(elf.segs[k])
  BY InPages
<1> HIDE DEF v
<1>3. mem'[space'[ALIGN_DOWN(v)]] = mem[space[ALIGN_DOWN(v)]]
  BY <1>1, <1>2
<1> QED BY <1>1, <1>3 DEF v

\* MapPage and MapStack keep what is loaded: their page is not the segment's.
LEMMA SegmentsStay ==
    ASSUME SegmentsLoaded, ImageOrder, UNCHANGED <<elf, seg>>, HasSpace,
           NEW page, \A k \in DOMAIN elf.segs :
                       k < seg /\ elf.segs[k].load => page \notin Pages(elf.segs[k]),
           \A p \in DOMAIN space : p \in DOMAIN space',
           \A p \in DOMAIN space : p # page => mem'[space'[p]] = mem[space[p]]
    PROVE  SegmentsLoaded'
<1>1. ASSUME NEW k \in DOMAIN elf.segs, k < seg, elf.segs[k].load
      PROVE  Loaded(k)'
  <2>1. elf.segs[k] \in SegType
    BY DEF ImageOrder, ElfType
  <2>2. Loaded(k)
    BY <1>1 DEF SegmentsLoaded
  <2>3. page \notin Pages(elf.segs[k])
    BY <1>1
  <2> QED BY <2>1, <2>2, <2>3, LoadedStays
<1> QED BY <1>1 DEF SegmentsLoaded

LEMMA MapPagePreserves ==
    ASSUME LoadInv, LoopInv, MemoryLasts, MapPage, UNCHANGED stage
    PROVE  LoadInv'
<1> DEFINE f == Alloc
<1>1. /\ pc = "map" /\ va < SegmentEnd(Segment) /\ free' = free \ {f}
      /\ mem' = [mem EXCEPT ![f] = [b \in Offs |-> Zero]]
      /\ MapTo(va, f) /\ va' = va + 1 /\ UNCHANGED <<elf, pc, seg>>
  BY DEF MapPage
<1>2. HasSpace /\ free # {}
  BY <1>1 DEF HasSpace, MemoryLasts
<1>3. f \in free
  BY <1>2, AllocIsFree DEF LoadInv
<1> HIDE DEF f
<1>4. DOMAIN mem' = DOMAIN mem /\ \A g \in DOMAIN mem : g # f => mem'[g] = mem[g]
  BY <1>1
<1>5. \A b \in Offs : mem'[f][b] = Zero
  BY <1>1, <1>3 DEF LoadInv, FramesOwn
<1>6. /\ FramesOwn' /\ va \in DOMAIN space' /\ space'[va] = f
      /\ \A p \in DOMAIN space : p \in DOMAIN space'
      /\ \A p \in DOMAIN space : p # va => mem'[space'[p]] = mem[space[p]]
  BY <1>1, <1>2, <1>3, <1>4, NewPage DEF LoadInv
<1>7. Segment \in SegType /\ Segment' = Segment /\ seg \in DOMAIN elf.segs /\ Segment.load
  BY <1>1 DEF LoadInv, ImageOrder, ElfType, Segment
<1>8. ALIGN_DOWN(Segment.vaddr) \in Nat /\ va \in Nat /\ ALIGN_DOWN(Segment.vaddr) <= va
  BY <1>1, <1>7, DivMod DEF LoadInv, LoopInv, PagesZeroed, SegType
<1>9. ImageOrder'
  BY <1>1, <1>2 DEF LoadInv, ImageOrder, HasSpace, Segment
<1>10. PagesZeroed'
  <2>1. ALIGN_DOWN(Segment.vaddr) <= va + 1
    BY <1>8
  <2>2. ASSUME NEW p \in ALIGN_DOWN(Segment.vaddr) .. va
        PROVE  p \in DOMAIN space' /\ \A b \in Offs : mem'[space'[p]][b] = Zero
    <3>1. CASE p = va
      BY <1>5, <1>6, <3>1
    <3>2. CASE p # va
      <4>1. p \in ALIGN_DOWN(Segment.vaddr) .. va - 1
        BY <1>8, <3>2
      <4>2. p \in DOMAIN space /\ \A b \in Offs : mem[space[p]][b] = Zero
        BY <1>1, <4>1 DEF LoadInv, PagesZeroed
      <4> QED BY <1>6, <3>2, <4>2
    <3> QED BY <3>1, <3>2
  <2>3. va' - 1 = va
    BY <1>1, <1>8
  <2> QED BY <1>1, <1>7, <2>1, <2>2, <2>3 DEF PagesZeroed, ALIGN_DOWN, Offs, Zero
<1>11. SegmentsLoaded'
  <2>1. SegmentEnd(Segment) \in Int
    BY <1>7, ProcessAssumption DEF SegType, SegmentEnd, ALIGN_UP
  <2>2. va \in Pages(Segment)
    BY <1>1, <1>8, <2>1 DEF Pages
  <2>3. ASSUME NEW k \in DOMAIN elf.segs, k < seg, elf.segs[k].load
        PROVE  va \notin Pages(elf.segs[k])
    <3>1. k # seg
      BY <2>3 DEF LoopInv
    <3>2. Pages(elf.segs[k]) \cap Pages(elf.segs[seg]) = {}
      BY <1>7, <2>3, <3>1 DEF LoadInv, ImageOrder, LaidOut, Segment
    <3> QED BY <2>2, <3>2 DEF Segment
  <2> QED BY <1>1, <1>2, <1>6, <2>3, SegmentsStay DEF LoadInv
<1> QED BY <1>6, <1>9, <1>10, <1>11 DEF LoadInv

LEMMA MapStackPreserves ==
    ASSUME LoadInv, LoopInv, MemoryLasts, MapStack, UNCHANGED stage
    PROVE  LoadInv'
<1> DEFINE f == Alloc
           page == STACK_PAGE + USER_STACK_PAGES - 1 - va
<1>1. /\ pc = "stack" /\ va < USER_STACK_PAGES /\ free' = free \ {f}
      /\ MapTo(page, f) /\ UNCHANGED <<elf, pc, seg, mem>>
  BY DEF MapStack
<1>2. HasSpace /\ free # {}
  BY <1>1 DEF HasSpace, MemoryLasts
<1>3. f \in free
  BY <1>2, AllocIsFree DEF LoadInv
<1>4. page \in StackPages
  BY <1>1, ProcessAssumption DEF LoopInv, StackPages
<1> HIDE DEF f, page
<1>5. /\ FramesOwn' /\ \A p \in DOMAIN space : p \in DOMAIN space'
      /\ \A p \in DOMAIN space : p # page => mem'[space'[p]] = mem[space[p]]
  BY <1>1, <1>2, <1>3, NewPage DEF LoadInv
<1>6. \A k \in DOMAIN elf.segs : elf.segs[k].load => page \notin Pages(elf.segs[k])
  BY <1>4 DEF LoadInv, ImageOrder, LaidOut
<1>7. SegmentsLoaded'
  BY <1>1, <1>2, <1>5, <1>6, SegmentsStay DEF LoadInv
<1>8. ImageOrder' /\ PagesZeroed'
  BY <1>1 DEF LoadInv, ImageOrder, PagesZeroed, HasSpace
<1> QED BY <1>5, <1>7, <1>8 DEF LoadInv

\* The copy writes the file's bytes to their places and nothing else.
LEMMA CopyPreserves ==
    ASSUME LoadInv, LoopInv, CopySegment, UNCHANGED stage
    PROVE  LoadInv'
<1> DEFINE s == elf.segs[seg]
           Target(o) == LET p == ALIGN_DOWN(s.vaddr + o)
                        IN  IF p \in DOMAIN space THEN space[p] ELSE 0
           Here(f, b) == {o \in 0 .. s.filesz - 1 :
                            (s.vaddr + o) % PAGE_SIZE = b /\ f = Target(o)}
<1>1. /\ pc = "map" /\ va >= SegmentEnd(s) /\ seg' = seg + 1 /\ pc' = "segment"
      /\ UNCHANGED <<elf, space, free>>
  BY DEF CopySegment, Segment
<1>2. mem' = [f \in DOMAIN mem |-> [b \in Offs |->
                IF Here(f, b) = {} THEN mem[f][b] ELSE <<seg, Max(Here(f, b))>>]]
  BY DEF CopySegment, Segment
<1>3. /\ s \in SegType /\ seg \in DOMAIN elf.segs /\ s.load /\ seg \in Nat
      /\ s.filesz <= s.memsz /\ s.filesz \in Nat /\ s.memsz \in Nat /\ s.vaddr \in Nat
  <2>1. s \in SegType /\ seg \in DOMAIN elf.segs /\ s.load /\ seg \in Nat
    BY <1>1 DEF LoadInv, LoopInv, ImageOrder, ElfType, Segment
  <2>2. s.filesz <= s.memsz
    BY <2>1 DEF LoadInv, ImageOrder, LaidOut
  <2> HIDE DEF s
  <2> QED BY <2>1, <2>2 DEF SegType
<1>4. ASSUME NEW p \in Pages(s)
      PROVE  p \in DOMAIN space /\ \A b \in Offs : mem[space[p]][b] = Zero
  <2>1. SegmentEnd(s) \in Int
    <3> HIDE DEF s
    <3> QED BY <1>3, ProcessAssumption DEF SegmentEnd, ALIGN_UP
  <2>3. ALIGN_DOWN(s.vaddr) \in Nat /\ va \in Nat
    BY <1>3, DivMod DEF LoopInv
  <2>2. p \in ALIGN_DOWN(s.vaddr) .. va - 1
    BY <1>1, <2>1, <2>3 DEF Pages
  <2> QED BY <1>1, <2>2 DEF LoadInv, PagesZeroed, Segment
<1>5. ASSUME NEW o \in 0 .. s.filesz - 1
      PROVE  /\ ALIGN_DOWN(s.vaddr + o) \in Pages(s) /\ ALIGN_DOWN(s.vaddr + o) \in DOMAIN space
             /\ Target(o) = space[ALIGN_DOWN(s.vaddr + o)] /\ s.vaddr + o \in Nat
  <2>1. o \in 0 .. s.memsz - 1
    BY <1>3
  <2> QED BY <1>3, <1>4, <2>1, InPages
<1> HIDE DEF s, Target
<1>6. ASSUME NEW v \in Nat, ALIGN_DOWN(v) \in DOMAIN space
      PROVE  mem'[space[ALIGN_DOWN(v)]][v % PAGE_SIZE] =
               IF \E o \in 0 .. s.filesz - 1 : s.vaddr + o = v THEN <<seg, v - s.vaddr>>
               ELSE mem[space[ALIGN_DOWN(v)]][v % PAGE_SIZE]
  <2> DEFINE f == space[ALIGN_DOWN(v)]
             b == v % PAGE_SIZE
             H == Here(f, b)
  <2>1. f \in DOMAIN mem /\ b \in Offs
    BY <1>1, <1>6, DivMod DEF LoadInv, FramesOwn, HasSpace
  <2>2. mem'[f][b] = IF H = {} THEN mem[f][b] ELSE <<seg, Max(H)>>
    BY <1>2, <2>1
  <2>3. ASSUME NEW o \in H PROVE s.vaddr + o = v
    <3>1. /\ o \in 0 .. s.filesz - 1 /\ (s.vaddr + o) % PAGE_SIZE = v % PAGE_SIZE
          /\ f = Target(o)
      OBVIOUS
    <3>2. space[ALIGN_DOWN(s.vaddr + o)] = f /\ s.vaddr + o \in Nat
          /\ ALIGN_DOWN(s.vaddr + o) \in DOMAIN space
      BY <1>5, <3>1
    <3>3. ALIGN_DOWN(s.vaddr + o) = ALIGN_DOWN(v)
      BY <1>1, <1>6, <3>2 DEF LoadInv, FramesOwn, HasSpace
    <3> QED BY <1>6, <3>1, <3>2, <3>3, SamePlace
  <2>4. ASSUME NEW o \in 0 .. s.filesz - 1, s.vaddr + o = v PROVE o \in H
    BY <1>5, <2>4
  <2>5. CASE \E o \in 0 .. s.filesz - 1 : s.vaddr + o = v
    <3>1. PICK o \in 0 .. s.filesz - 1 : s.vaddr + o = v
      BY <2>5
    <3>2. o \in H /\ o = v - s.vaddr
      BY <1>3, <2>4, <3>1
    <3>3. \A n \in H : n = o
      <4>1. \A n \in H : n \in Int /\ s.vaddr + n = v
        BY <1>3, <2>3
      <4> HIDE DEF H
      <4> QED BY <1>3, <3>1, <4>1
    <3> HIDE DEF H
    <3>4. H = {o}
      BY <3>2, <3>3
    <3>5. Max(H) = o
      BY <3>1, <3>4 DEF Max
    <3> QED BY <2>2, <2>5, <3>2, <3>4, <3>5
  <2>6. CASE ~\E o \in 0 .. s.filesz - 1 : s.vaddr + o = v
    <3>1. H = {}
      BY <2>3, <2>6
    <3> HIDE DEF H
    <3> QED BY <2>2, <2>6, <3>1
  <2> QED BY <2>5, <2>6
<1> HIDE DEF Here
<1>7. ASSUME NEW k, k = seg PROVE Loaded(k)'
  <2>1. ASSUME NEW o \in 0 .. s.memsz - 1
        PROVE  /\ ALIGN_DOWN(s.vaddr + o) \in DOMAIN space
               /\ mem'[space[ALIGN_DOWN(s.vaddr + o)]][(s.vaddr + o) % PAGE_SIZE]
                    = IF o < s.filesz THEN <<k, o>> ELSE Zero
    <3>1. /\ ALIGN_DOWN(s.vaddr + o) \in Pages(s) /\ s.vaddr + o \in Nat
          /\ (s.vaddr + o) % PAGE_SIZE \in Offs
      BY <1>3, InPages
    <3>2. /\ ALIGN_DOWN(s.vaddr + o) \in DOMAIN space
          /\ mem[space[ALIGN_DOWN(s.vaddr + o)]][(s.vaddr + o) % PAGE_SIZE] = Zero
      BY <1>4, <3>1
    <3>3. PICK v \in Nat : v = s.vaddr + o
      BY <3>1
    <3>4. (\E n \in 0 .. s.filesz - 1 : s.vaddr + n = v) <=> o < s.filesz
      BY <1>3, <3>3
    <3>5. v - s.vaddr = o
      BY <1>3, <3>3
    <3>6. mem'[space[ALIGN_DOWN(v)]][v % PAGE_SIZE] = IF o < s.filesz THEN <<seg, o>> ELSE Zero
      BY <1>6, <3>2, <3>3, <3>4, <3>5
    <3> QED BY <1>7, <3>2, <3>3, <3>6
  <2> QED BY <1>1, <1>7, <2>1 DEF Loaded, ByteAt, s, ALIGN_DOWN, Zero
<1>8. ASSUME NEW k \in DOMAIN elf.segs, k < seg, elf.segs[k].load PROVE Loaded(k)'
  <2> DEFINE t == elf.segs[k]
  <2>1. t \in SegType /\ k # seg
    BY <1>3, <1>8 DEF LoadInv, ImageOrder, ElfType
  <2>2. Pages(t) \cap Pages(s) = {}
    BY <1>3, <1>8, <2>1 DEF LoadInv, ImageOrder, LaidOut, s
  <2>3. Loaded(k)
    BY <1>1, <1>8 DEF LoadInv, SegmentsLoaded, HasSpace
  <2>4. ASSUME NEW o \in 0 .. t.memsz - 1
        PROVE  /\ ALIGN_DOWN(t.vaddr + o) \in DOMAIN space
               /\ mem'[space[ALIGN_DOWN(t.vaddr + o)]][(t.vaddr + o) % PAGE_SIZE]
                    = IF o < t.filesz THEN <<k, o>> ELSE Zero
    <3>1. ALIGN_DOWN(t.vaddr + o) \in Pages(t) /\ t.vaddr + o \in Nat
      BY <2>1, InPages
    <3>2. /\ ALIGN_DOWN(t.vaddr + o) \in DOMAIN space
          /\ mem[space[ALIGN_DOWN(t.vaddr + o)]][(t.vaddr + o) % PAGE_SIZE]
               = IF o < t.filesz THEN <<k, o>> ELSE Zero
      BY <2>3 DEF Loaded, ByteAt
    <3> HIDE DEF t
    <3>3. ~\E n \in 0 .. s.filesz - 1 : s.vaddr + n = t.vaddr + o
      BY <1>5, <2>2, <3>1
    <3> QED BY <1>6, <3>1, <3>2, <3>3
  <2> QED BY <1>1, <2>4 DEF Loaded, ByteAt, ALIGN_DOWN, Zero
<1>9. SegmentsLoaded'
  <2>1. ASSUME NEW k \in DOMAIN elf.segs, k < seg + 1, elf.segs[k].load PROVE Loaded(k)'
    <3>1. k \in Int
      BY DEF LoadInv, ImageOrder, ElfType
    <3>2. k = seg \/ k < seg
      BY <1>3, <2>1, <3>1
    <3> QED BY <1>7, <1>8, <2>1, <3>2
  <2> QED BY <1>1, <2>1 DEF SegmentsLoaded
<1>10. FramesOwn'
  BY <1>1, <1>2 DEF LoadInv, FramesOwn, HasSpace
<1>11. ImageOrder' /\ PagesZeroed'
  BY <1>1 DEF LoadInv, ImageOrder, PagesZeroed, HasSpace
<1> QED BY <1>9, <1>10, <1>11 DEF LoadInv

LayoutKnown == \A e \in Elfs : LaidOut(e)

LEMMA NoImageLaidOut == LaidOut(NoImage) /\ Len(NoImage.segs) = 0
BY DEF LaidOut, NoImage

\* A step that leaves the image alone, or happens where none is loaded.
LEMMA ImageLeftAlone ==
    ASSUME LoadInv, UNCHANGED <<image, seg, va>>,
           HasSpace' => HasSpace /\ (pc' \in {"segment", "map"} <=> pc \in {"segment", "map"}),
           pc' = "map" => pc = "map", pc' = "run" => pc = "run",
           stage' \in NotYet => pc' = "run"
    PROVE  LoadInv'
<1>1. ImageOrder'
  BY DEF LoadInv, ImageOrder, image, Segment, LaidOut, Pages, SegmentEnd, ALIGN_DOWN, ALIGN_UP,
         StackPages
<1>2. FramesOwn'
  BY DEF LoadInv, FramesOwn, image
<1>3. PagesZeroed'
  BY DEF LoadInv, PagesZeroed, image, Segment
<1>4. SegmentsLoaded'
  BY DEF LoadInv, SegmentsLoaded, Loaded, ByteAt, image
<1> QED BY <1>1, <1>2, <1>3, <1>4 DEF LoadInv

LEMMA RunPreserves ==
    ASSUME LoadInv, LoopInv, CpuInv, MemoryLasts, RunProgram
    PROVE  LoadInv'
<1>1. stage = "process" /\ stage' = "process" /\ process_run
  BY DEF RunProgram
<1>2. CASE Refuse \/ PrepareLaunch \/ Launch \/ EnterUsermode \/ syscall_dispatch
           \/ aarch64_svc_handler \/ Sti \/ SwitchBack
  <2>1. /\ UNCHANGED <<image, seg, va>> /\ pc' \notin {"run", "segment", "map"}
        /\ HasSpace' => HasSpace /\ pc \notin {"segment", "map"}
    BY <1>2 DEF Refuse, PrepareLaunch, Launch, EnterUsermode, ToUser, syscall_dispatch,
                aarch64_svc_handler, SysReturn, SysExit, Sti, SwitchBack, HasSpace
  <2> QED BY <1>1, <2>1, ImageLeftAlone DEF NotYet
<1>3. CASE CreateSpace
  <2>1. /\ pc = "run" /\ pc' = "segment" /\ DOMAIN space' = {} /\ seg = 1
        /\ UNCHANGED <<elf, seg, free, mem>>
    BY <1>3 DEF CreateSpace, LoadInv, ImageOrder
  <2>2. ImageOrder' /\ FramesOwn' /\ PagesZeroed'
    BY <1>1, <2>1 DEF LoadInv, ImageOrder, FramesOwn, PagesZeroed, HasSpace, NotYet, LaidOut
  <2>3. \A k \in DOMAIN elf.segs : ~(k < seg)
    BY <2>1 DEF LoadInv, ImageOrder, ElfType
  <2>4. SegmentsLoaded'
    BY <2>1, <2>3 DEF SegmentsLoaded
  <2> QED BY <2>2, <2>4 DEF LoadInv
<1>4. CASE NextSegment
  <2>1. pc = "segment" /\ UNCHANGED image /\ HasSpace /\ HasSpace'
    BY <1>4 DEF NextSegment, HasSpace
  <2>2. FramesOwn'
    BY <2>1 DEF LoadInv, FramesOwn, image
  <2>3. UNCHANGED <<elf, space, mem, free>>
    BY <2>1 DEF image
  <2>4. LaidOut(elf)' /\ elf' \in ElfType
    BY <2>3 DEF LoadInv, ImageOrder, LaidOut, Pages, SegmentEnd, ALIGN_DOWN, ALIGN_UP, StackPages
  <2>5. \A k : Loaded(k)' <=> Loaded(k)
    BY <2>3 DEF Loaded, ByteAt
  <2>6. \A k \in DOMAIN elf.segs : k \in Nat /\ k <= Len(elf.segs)
    BY DEF LoadInv, ImageOrder, ElfType
  <2>7. seg \in Nat \ {0} /\ Len(elf.segs) \in Nat
    BY DEF LoopInv, ElfType
  <2>8. CASE seg > Len(elf.segs)
    <3>1. pc' = "stack" /\ UNCHANGED seg
      BY <1>4, <2>8 DEF NextSegment
    <3>2. ImageOrder' /\ PagesZeroed'
      BY <1>1, <2>3, <2>4, <2>8, <3>1 DEF ImageOrder, PagesZeroed, NotYet
    <3>3. SegmentsLoaded'
      BY <2>1, <2>3, <2>5, <3>1 DEF LoadInv, SegmentsLoaded
    <3> QED BY <2>2, <3>2, <3>3 DEF LoadInv
  <2>9. CASE ~(seg > Len(elf.segs)) /\ ~Segment.load
    <3>1. pc' = "segment" /\ seg' = seg + 1
      BY <1>4, <2>1, <2>9 DEF NextSegment
    <3>2. ImageOrder' /\ PagesZeroed'
      BY <1>1, <2>4, <3>1 DEF ImageOrder, PagesZeroed, NotYet
    <3>3. ASSUME NEW k \in DOMAIN elf.segs, k < seg + 1, elf.segs[k].load PROVE Loaded(k)
      <4>1. k # seg
        BY <2>9, <3>3 DEF Segment
      <4>2. k < seg
        BY <2>6, <2>7, <3>3, <4>1
      <4> QED BY <2>1, <3>3, <4>2 DEF LoadInv, SegmentsLoaded
    <3>4. SegmentsLoaded'
      BY <2>3, <2>5, <3>1, <3>3 DEF SegmentsLoaded
    <3> QED BY <2>2, <3>2, <3>4 DEF LoadInv
  <2>10. CASE ~(seg > Len(elf.segs)) /\ Segment.load
    <3>1. pc' = "map" /\ UNCHANGED seg /\ va' = ALIGN_DOWN(Segment.vaddr)
      BY <1>4, <2>10 DEF NextSegment
    <3>2. seg \in DOMAIN elf.segs /\ Segment' = Segment
      BY <2>3, <2>7, <2>10, <3>1 DEF LoopInv, ElfType, Segment
    <3>3. ImageOrder'
      BY <1>1, <2>3, <2>4, <2>10, <3>1, <3>2 DEF ImageOrder, NotYet
    <3>4. va' \in Nat
      <4>1. Segment \in SegType
        BY <3>2 DEF LoopInv, ElfType, Segment
      <4>2. Segment.vaddr \in Nat
        BY <4>1 DEF SegType
      <4> QED BY <3>1, <4>2, DivMod
    <3>5. va' .. va' - 1 = {} /\ va' <= va'
      <4>1. \A n \in Nat : n .. n - 1 = {} /\ n <= n
        OBVIOUS
      <4> QED BY <3>4, <4>1
    <3>6. PagesZeroed'
      BY <3>1, <3>2, <3>5 DEF PagesZeroed, ALIGN_DOWN
    <3>7. SegmentsLoaded'
      BY <2>1, <2>3, <2>5, <3>1 DEF LoadInv, SegmentsLoaded
    <3> QED BY <2>2, <3>3, <3>6, <3>7 DEF LoadInv
  <2> QED BY <2>8, <2>9, <2>10
<1>5. CASE Destroy
  <2>1. pc' = "done" /\ UNCHANGED <<elf, mem, free, seg>>
    BY <1>5 DEF Destroy
  <2> QED BY <1>1, <2>1
          DEF LoadInv, ImageOrder, FramesOwn, PagesZeroed, SegmentsLoaded, HasSpace, NotYet, LaidOut
<1> QED BY <1>1, <1>2, <1>3, <1>4, <1>5, MapPagePreserves, CopyPreserves, MapStackPreserves
        DEF process_run

LEMMA LoadPreserved ==
    LayoutKnown /\ LoadInv /\ LoopInv /\ CpuInv /\ MemoryLasts /\ [Next]_vars => LoadInv'
<1> SUFFICES ASSUME LayoutKnown, LoadInv, LoopInv, CpuInv, MemoryLasts, [Next]_vars
             PROVE  LoadInv'
  OBVIOUS
<1>1. CASE RunProgram
  BY <1>1, RunPreserves
<1>2. CASE UserProgram
  <2>1. /\ UNCHANGED <<image, seg, va, stage>> /\ pc = "user" /\ pc' \in {"dispatch", "panic"}
    BY <1>2 DEF UserProgram, Syscall, UserFault, Trap
  <2>2. stage \notin NotYet
    BY <2>1 DEF LoadInv, ImageOrder
  <2> QED BY <2>1, <2>2, ImageLeftAlone DEF HasSpace
<1>3. CASE SelfTest
  <2>1. /\ stage = "selftest" /\ UNCHANGED <<space, mem, free, pc, seg>>
        /\ (elf' \in Elfs /\ stage' = "process") \/ (elf' = elf /\ stage' = "panic")
    BY <1>3 DEF SelfTest, kernel_panic, Goto
  <2>2. pc = "run" /\ ~HasSpace'
    BY <2>1 DEF LoadInv, ImageOrder, NotYet, HasSpace
  <2>3. LaidOut(elf)' /\ elf' \in ElfType
    BY <2>1, ElfsTyped
       DEF LayoutKnown, LoadInv, ImageOrder, LaidOut, Pages, SegmentEnd, ALIGN_DOWN, ALIGN_UP,
           StackPages
  <2> QED BY <2>1, <2>2, <2>3
          DEF LoadInv, ImageOrder, FramesOwn, PagesZeroed, SegmentsLoaded, NotYet
<1>4. CASE ReportX86 \/ ReportAarch64
  <2>1. /\ pc = "done" /\ pc' = "done" /\ elf' = NoImage /\ mem' = Unwritten /\ free' = {}
        /\ stage' \in {"running", "devices"}
    BY <1>4 DEF ReportX86, ReportAarch64, Report, Goto
  <2>2. LaidOut(elf)' /\ elf' \in ElfType
    BY <2>1, ElfsTyped, NoImageLaidOut
       DEF LaidOut, Pages, SegmentEnd, ALIGN_DOWN, ALIGN_UP, StackPages, NoImage
  <2>3. DOMAIN mem' = Frames \cup {0}
    BY <2>1 DEF Unwritten
  <2> QED BY <2>1, <2>2, <2>3
          DEF LoadInv, ImageOrder, FramesOwn, PagesZeroed, SegmentsLoaded, NotYet, HasSpace
<1>5. CASE UNCHANGED <<image, seg, va, pc>> /\ (stage' \in NotYet => stage \in NotYet)
  <2>1. stage' \in NotYet => pc' = "run"
    BY <1>5 DEF LoadInv, ImageOrder
  <2> QED BY <1>5, <2>1, ImageLeftAlone DEF HasSpace
<1>6. CASE \/ arch_interrupts_init \/ arch_interrupts_enable \/ pit_init \/ generic_timer_init
           \/ keyboard_init \/ mouse_init \/ Exception \/ fb_init_x86 \/ Devices
           \/ virtio_blk_init \/ RamfbStep \/ virtio_input_init
  <2>1. UNCHANGED <<image, seg, va, pc>>
    BY <1>6 DEF arch_interrupts_init, arch_interrupts_enable, pit_init, generic_timer_init,
                keyboard_init, mouse_init, irq_install_handler, Exception, fb_init_x86, Devices,
                virtio_blk_init, RamfbStep, virtio_input_init, process
  <2>2. stage' \in NotYet => stage \in NotYet
    BY <1>6 DEF arch_interrupts_init, arch_interrupts_enable, pit_init, generic_timer_init,
                keyboard_init, mouse_init, irq_install_handler, Exception, kernel_panic,
                fb_init_x86, Devices, virtio_blk_init, RamfbStep, virtio_input_init, Goto, NotYet
  <2> QED BY <1>5, <2>1, <2>2
<1>7. CASE FwCfg \/ (\E l \in Lines : Raise(l) \/ Irq(l)) \/ UNCHANGED vars
  <2>1. UNCHANGED <<image, seg, va, pc, stage>>
    BY <1>7 DEF FwCfg, Raise, Irq, isr_handler, aarch64_irq_handler, vars, process
  <2> QED BY <1>5, <2>1
<1> QED BY <1>1, <1>2, <1>3, <1>4, <1>6, <1>7 DEF Next, kernel_main

\* Whatever the sizes and alignments of its segments, a program that is entered
\* finds its image in memory: every byte of the file at its address and zeros up
\* to memsz, provided its segments and its stack are on pages of their own and
\* no allocation of process_run fails, which the code does not check.
THEOREM ImageSafe == Spec /\ LayoutKnown /\ []MemoryLasts => []ImageLoaded
<1> SUFFICES ASSUME LayoutKnown PROVE Spec /\ []MemoryLasts => []ImageLoaded
  OBVIOUS
<1>1. Init => LoadInv
  <2> SUFFICES ASSUME Init PROVE LoadInv
    OBVIOUS
  <2>1. elf = NoImage /\ pc = "run" /\ seg = 1 /\ mem = Unwritten /\ free \in {Frames, {}}
    BY DEF Init, ProcessInit
  <2>2. LaidOut(elf) /\ elf \in ElfType
    BY <2>1, NoImageLaidOut, ElfsTyped
  <2>3. DOMAIN mem = Frames \cup {0} /\ free \subseteq Frames
    BY <2>1 DEF Unwritten
  <2> QED BY <2>1, <2>2, <2>3
          DEF LoadInv, ImageOrder, FramesOwn, PagesZeroed, SegmentsLoaded, HasSpace
<1>2. Init => CpuInv
  BY DEF Init, ProcessInit, CpuInv, InKernel, InSpace, Away, HasSpace
<1>3. Init => LoopInv
  BY ElfsTyped DEF Init, ProcessInit, LoopInv
<1>4. LoadInv /\ LoopInv => ImageLoaded
  <2> SUFFICES ASSUME LoadInv, LoopInv, pc = "user", NEW k \in DOMAIN elf.segs, elf.segs[k].load
               PROVE  Loaded(k)
    BY DEF ImageLoaded, Loaded
  <2>1. seg > Len(elf.segs) /\ HasSpace /\ k <= Len(elf.segs)
    BY DEF LoadInv, ImageOrder, HasSpace, ElfType
  <2>2. k < seg
    BY <2>1 DEF LoopInv, ElfType
  <2> QED BY <2>1, <2>2 DEF LoadInv, SegmentsLoaded
<1>5. LoadInv /\ LoopInv /\ CpuInv /\ MemoryLasts /\ [Next]_vars => LoadInv'
  BY LoadPreserved
<1> QED BY <1>1, <1>2, <1>3, <1>4, <1>5, LoopPreserved, CpuPreserved, PTL DEF Spec

-----------------------------------------------------------------------------
(* Words and bytes.                                                        *)

\* A set of numbers up to N with 0 and the successors of its members is full.
LEMMA UpTo ==
    ASSUME NEW N \in Nat, NEW G, 0 \in G, \A n \in 1 .. N : n - 1 \in G => n \in G
    PROVE  \A n \in 0 .. N : n \in G
<1> DEFINE T == {n \in 0 .. N : n \notin G}
<1> SUFFICES ASSUME T # {} PROVE FALSE
  OBVIOUS
<1>1. T \in SUBSET Nat
  OBVIOUS
<1> HIDE DEF T
<1>2. PICK m \in T : \A n \in T : m <= n
  BY <1>1, LeastNat
<1>3. m \in 0 .. N /\ m \notin G
  BY <1>2 DEF T
<1>4. m \in 1 .. N /\ m - 1 \in 0 .. N /\ ~(m <= m - 1)
  BY <1>3
<1>5. m - 1 \notin T
  BY <1>2, <1>4
<1>6. m - 1 \in G
  BY <1>4, <1>5 DEF T
<1> QED BY <1>3, <1>4, <1>6

\* f iterates the functions steps[1], steps[2], ... from x.
Iterates(N, X, steps, x, f) ==
    /\ f \in [0 .. N -> X] /\ f[0] = x
    /\ \A k \in 1 .. N : f[k] = steps[k][f[k - 1]]

LEMMA IterationExists ==
    ASSUME NEW N \in Nat, NEW X, NEW x \in X, NEW steps \in [1 .. N -> [X -> X]]
    PROVE  \E f : Iterates(N, X, steps, x, f)
<1> DEFINE G == {n \in 0 .. N : \E f : Iterates(n, X, steps, x, f)}
<1>1. 0 \in G
  <2>1. Iterates(0, X, steps, x, [k \in 0 .. 0 |-> x])
    BY DEF Iterates
  <2> QED BY <2>1
<1>2. ASSUME NEW n \in 1 .. N, n - 1 \in G PROVE n \in G
  <2>1. PICK g : Iterates(n - 1, X, steps, x, g)
    BY <1>2
  <2>2. g \in [0 .. n - 1 -> X] /\ g[0] = x /\ n - 1 \in 0 .. n - 1 /\ 0 \in 0 .. n - 1
    BY <2>1 DEF Iterates
  <2>3. PICK y \in X : y = steps[n][g[n - 1]]
    BY <2>2
  <2>4. PICK f : f = [k \in 0 .. n |-> IF k < n THEN g[k] ELSE y]
    OBVIOUS
  <2>5. f \in [0 .. n -> X] /\ f[n] = y /\ \A k \in 0 .. n - 1 : f[k] = g[k]
    BY <2>2, <2>4
  <2>6. ASSUME NEW k \in 1 .. n PROVE f[k] = steps[k][f[k - 1]]
    <3>1. k - 1 \in 0 .. n - 1 /\ f[k - 1] = g[k - 1]
      BY <2>5
    <3>2. CASE k = n
      BY <2>3, <2>5, <3>1, <3>2
    <3>3. CASE k # n
      <4>1. k \in 1 .. n - 1 /\ k \in 0 .. n - 1
        BY <3>3
      <4>2. g[k] = steps[k][g[k - 1]]
        BY <2>1, <4>1 DEF Iterates
      <4> QED BY <2>5, <3>1, <4>1, <4>2
    <3> QED BY <3>2, <3>3
  <2>7. f[0] = x
    BY <2>2, <2>5
  <2>8. Iterates(n, X, steps, x, f)
    BY <2>5, <2>6, <2>7 DEF Iterates
  <2> QED BY <2>8
<1> HIDE DEF G
<1>3. N \in G
  <2>1. \A n \in 0 .. N : n \in G
    BY <1>1, <1>2, UpTo
  <2> QED BY <2>1
<1> QED BY <1>3 DEF G

LEMMA ByteNat == BYTE \in Nat /\ BYTE > 1
<1>1. BYTE \in Nat /\ BYTE * BYTE > 24
  BY RamfbAssumption
<1>2. BYTE = 0 \/ BYTE = 1 => ~(BYTE * BYTE > 24)
  OBVIOUS
<1> QED BY <1>1, <1>2

\* A byte shifted out of a word, and into it.
Out(x)   == x \div BYTE
In(x, y) == x * BYTE + y

\* Shifting a byte in and out.
LEMMA ShiftByte ==
    ASSUME NEW x \in Nat
    PROVE  /\ Out(x) \in Nat /\ x % BYTE \in ByteValues /\ In(Out(x), x % BYTE) = x
           /\ \A y \in ByteValues :
                In(x, y) \in Nat /\ Out(In(x, y)) = x /\ In(x, y) % BYTE = y
<1>1. \A d \in Nat \ {0} : x \div d \in Nat /\ x % d \in 0 .. d - 1
  BY SMTT(60)
<1>2. \A d \in Nat \ {0} : (x \div d) * d + (x % d) = x
  BY SMTT(60)
<1>3. \A d \in Nat \ {0} : \A y \in 0 .. d - 1 : x * d + y \in Nat /\ (x * d + y) \div d = x
  BY SMTT(60)
<1>4. \A d \in Nat \ {0} : \A y \in 0 .. d - 1 : (x * d + y) % d = y
  <2> SUFFICES ASSUME NEW d \in Nat \ {0}, NEW y \in 0 .. d - 1 PROVE (x * d + y) % d = y
    OBVIOUS
  <2>1. PICK z \in Nat : z = x * d + y
    BY <1>3
  <2>2. (z \div d) * d + (z % d) = z /\ z % d \in Int
    BY SMTT(60)
  <2>3. z \div d = x
    BY <1>3, <2>1
  <2>4. x * d \in Nat
    BY SMTT(30)
  <2> QED BY <2>1, <2>2, <2>3, <2>4
<1>5. BYTE \in Nat \ {0}
  BY ByteNat
<1>6. Out(x) \in Nat /\ x % BYTE \in ByteValues
  BY <1>1, <1>5 DEF ByteValues, Out
<1>7. In(Out(x), x % BYTE) = x
  BY <1>2, <1>5 DEF In, Out
<1>8. ASSUME NEW y \in ByteValues
      PROVE  In(x, y) \in Nat /\ Out(In(x, y)) = x /\ In(x, y) % BYTE = y
  <2>1. y \in 0 .. BYTE - 1
    BY DEF ByteValues
  <2> QED BY <1>3, <1>4, <1>5, <2>1 DEF In, Out
<1> QED BY <1>6, <1>7, <1>8

\* The equations of the two recursive definitions.
LEMMA ShiftsIs ==
    ASSUME NEW n \in Nat, NEW v \in Nat
    PROVE  /\ Shifts(n, v) \in [0 .. n -> Nat] /\ Shifts(n, v)[0] = v
           /\ \A k \in 1 .. n : Shifts(n, v)[k] = Out(Shifts(n, v)[k - 1])
<1> DEFINE Eq(r) == r = [k \in 0 .. n |-> IF k = 0 THEN v ELSE Out(r[k - 1])]
<1>1. PICK steps : steps = [k \in 1 .. n |-> [x \in Nat |-> Out(x)]]
  OBVIOUS
<1>2. steps \in [1 .. n -> [Nat -> Nat]]
  BY <1>1, ShiftByte
<1>3. PICK f : Iterates(n, Nat, steps, v, f)
  BY <1>2, IterationExists
<1>4. Eq(f)
  <2>1. f = [k \in 0 .. n |-> f[k]]
    BY <1>3 DEF Iterates
  <2>2. ASSUME NEW k \in 0 .. n
        PROVE  f[k] = IF k = 0 THEN v ELSE Out(f[k - 1])
    <3>1. CASE k = 0
      BY <1>3, <3>1 DEF Iterates
    <3>2. CASE k # 0
      <4>1. k \in 1 .. n /\ k - 1 \in 0 .. n
        BY <3>2
      <4>2. f[k] = steps[k][f[k - 1]] /\ f[k - 1] \in Nat
        BY <1>3, <4>1 DEF Iterates
      <4> QED BY <1>1, <3>2, <4>1, <4>2
    <3> QED BY <3>1, <3>2
  <2> QED BY <2>1, <2>2
<1>5. PICK r : r = Shifts(n, v) /\ Eq(r)
  <2>1. Eq(CHOOSE r : Eq(r))
    BY <1>4
  <2> QED BY <2>1 DEF Shifts, Out
<1>6. r[0] = v /\ \A k \in 1 .. n : r[k] = Out(r[k - 1])
  BY <1>5
<1> DEFINE G == {k \in 0 .. n : r[k] \in Nat}
<1>7. 0 \in G
  BY <1>6
<1>8. ASSUME NEW k \in 1 .. n, k - 1 \in G PROVE k \in G
  <2>1. PICK x \in Nat : x = r[k - 1]
    BY <1>8
  <2>2. Out(x) \in Nat
    BY ShiftByte
  <2> QED BY <1>6, <2>1, <2>2
<1>9. \A k \in 0 .. n : r[k] \in Nat
  <2> HIDE DEF G
  <2>1. \A k \in 0 .. n : k \in G
    BY <1>7, <1>8, UpTo
  <2> QED BY <2>1 DEF G
<1>10. r = [k \in 0 .. n |-> r[k]]
  BY <1>5
<1> QED BY <1>5, <1>6, <1>9, <1>10

\* A word is built of its bytes, the highest first: w[k] is that of the first k.
Builds(n, b, w) ==
    /\ w \in [0 .. n -> Nat] /\ w[0] = 0
    /\ \A k \in 1 .. n : w[k] = In(w[k - 1], b[k])

LEMMA BigEndianIs ==
    ASSUME NEW n \in Nat, NEW b \in [1 .. n -> ByteValues]
    PROVE  \E w : Builds(n, b, w) /\ BigEndian(b) = w[n]
<1> DEFINE Eq(r) == r = [k \in 0 .. n |-> IF k = 0 THEN 0 ELSE In(r[k - 1], b[k])]
<1>0. Len(b) = n
  <2>1. DOMAIN b = 1 .. n
    OBVIOUS
  <2> QED BY <2>1
<1>1. PICK steps : steps = [k \in 1 .. n |-> [x \in Nat |-> In(x, b[k])]]
  OBVIOUS
<1>2. steps \in [1 .. n -> [Nat -> Nat]]
  <2>1. ASSUME NEW k \in 1 .. n, NEW x \in Nat PROVE In(x, b[k]) \in Nat
    <3>1. b[k] \in ByteValues
      OBVIOUS
    <3> QED BY <3>1, ShiftByte
  <2> QED BY <1>1, <2>1
<1>3. PICK f : Iterates(n, Nat, steps, 0, f)
  BY <1>2, IterationExists
<1>4. Eq(f)
  <2>1. f = [k \in 0 .. n |-> f[k]]
    BY <1>3 DEF Iterates
  <2>2. ASSUME NEW k \in 0 .. n
        PROVE  f[k] = IF k = 0 THEN 0 ELSE In(f[k - 1], b[k])
    <3>1. CASE k = 0
      BY <1>3, <3>1 DEF Iterates
    <3>2. CASE k # 0
      <4>1. k \in 1 .. n /\ k - 1 \in 0 .. n
        BY <3>2
      <4>2. f[k] = steps[k][f[k - 1]] /\ f[k - 1] \in Nat
        BY <1>3, <4>1 DEF Iterates
      <4> QED BY <1>1, <3>2, <4>1, <4>2
    <3> QED BY <3>1, <3>2
  <2> QED BY <2>1, <2>2
<1>5. PICK r : BigEndian(b) = r[n] /\ Eq(r)
  <2>1. Eq(CHOOSE r : Eq(r))
    BY <1>4
  <2>2. BigEndian(b) = (CHOOSE r : Eq(r))[n]
    BY <1>0 DEF BigEndian, In
  <2> QED BY <2>1, <2>2
<1>6. r[0] = 0 /\ \A k \in 1 .. n : r[k] = In(r[k - 1], b[k])
  BY <1>5
<1> DEFINE G == {k \in 0 .. n : r[k] \in Nat}
<1>7. 0 \in G
  BY <1>6
<1>8. ASSUME NEW k \in 1 .. n, k - 1 \in G PROVE k \in G
  <2>1. PICK x \in Nat : x = r[k - 1]
    BY <1>8
  <2>2. b[k] \in ByteValues
    OBVIOUS
  <2>3. In(x, b[k]) \in Nat
    BY <2>2, ShiftByte
  <2> QED BY <1>6, <2>1, <2>3
<1>9. \A k \in 0 .. n : r[k] \in Nat
  <2> HIDE DEF G
  <2>1. \A k \in 0 .. n : k \in G
    BY <1>7, <1>8, UpTo
  <2> QED BY <2>1 DEF G
<1>10. r = [k \in 0 .. n |-> r[k]]
  BY <1>5
<1> QED BY <1>5, <1>6, <1>9, <1>10 DEF Builds

LEMMA StoreIs ==
    ASSUME NEW n \in Nat, NEW v \in Nat
    PROVE  Store(n, v) \in [1 .. n -> ByteValues]
<1>1. ASSUME NEW k \in 1 .. n PROVE Shifts(n, v)[k - 1] % BYTE \in ByteValues
  <2>1. k - 1 \in 0 .. n
    OBVIOUS
  <2>2. PICK x \in Nat : x = Shifts(n, v)[k - 1]
    <3>1. Shifts(n, v) \in [0 .. n -> Nat]
      BY ShiftsIs
    <3> QED BY <2>1, <3>1
  <2>3. x % BYTE \in ByteValues
    BY ShiftByte
  <2> QED BY <2>2, <2>3
<1> QED BY <1>1 DEF Store

LEMMA BuildsNat ==
    ASSUME NEW n \in Nat, NEW b \in [1 .. n -> ByteValues]
    PROVE  BigEndian(b) \in Nat
<1>1. PICK w : Builds(n, b, w) /\ BigEndian(b) = w[n]
  BY BigEndianIs
<1>2. n \in 0 .. n
  OBVIOUS
<1> QED BY <1>1, <1>2 DEF Builds

\* The bytes of a word that was read from bytes: they come out the other way round.
LEMMA StoreOfBigEndian ==
    ASSUME NEW n \in Nat, NEW b \in [1 .. n -> ByteValues]
    PROVE  \A k \in 1 .. n : Store(n, BigEndian(b))[k] = b[n - k + 1]
<1>1. PICK w : Builds(n, b, w) /\ BigEndian(b) = w[n]
  BY BigEndianIs
<1>2. PICK v \in Nat : v = BigEndian(b)
  BY BuildsNat
<1>3. PICK r : r = Shifts(n, v)
  OBVIOUS
<1>4. r \in [0 .. n -> Nat] /\ r[0] = v /\ \A k \in 1 .. n : r[k] = Out(r[k - 1])
  BY <1>3, ShiftsIs
<1>5. w \in [0 .. n -> Nat] /\ \A k \in 1 .. n : w[k] = In(w[k - 1], b[k])
  BY <1>1 DEF Builds
<1> DEFINE G == {k \in 0 .. n : r[k] = w[n - k]}
<1>6. 0 \in G
  BY <1>1, <1>2, <1>4
<1>7. ASSUME NEW k \in 1 .. n, k - 1 \in G PROVE k \in G
  <2>1. PICK j \in 1 .. n : j = n - k + 1
    OBVIOUS
  <2>2. n - (k - 1) = j /\ n - k = j - 1 /\ j - 1 \in 0 .. n
    BY <2>1
  <2>3. r[k - 1] = w[j]
    BY <1>7, <2>2
  <2>4. w[j] = In(w[j - 1], b[j]) /\ w[j - 1] \in Nat /\ b[j] \in ByteValues
    BY <1>5, <2>2
  <2>5. PICK x \in Nat : x = w[j - 1]
    BY <2>4
  <2>6. Out(In(x, b[j])) = x
    BY <2>4, ShiftByte
  <2>7. r[k] = w[n - k]
    BY <1>4, <2>2, <2>3, <2>4, <2>5, <2>6
  <2> QED BY <2>7
<1>8. \A k \in 0 .. n : r[k] = w[n - k]
  <2> HIDE DEF G
  <2>1. \A k \in 0 .. n : k \in G
    BY <1>6, <1>7, UpTo
  <2> QED BY <2>1 DEF G
<1>9. ASSUME NEW k \in 1 .. n PROVE Store(n, v)[k] = b[n - k + 1]
  <2>1. PICK j \in 1 .. n : j = n - k + 1
    OBVIOUS
  <2>2. n - (k - 1) = j /\ k - 1 \in 0 .. n /\ j - 1 \in 0 .. n
    BY <2>1
  <2>3. r[k - 1] = w[j]
    BY <1>8, <2>2
  <2>4. w[j] = In(w[j - 1], b[j]) /\ b[j] \in ByteValues
    BY <1>5
  <2>5. PICK x \in Nat : x = w[j - 1]
    BY <1>5, <2>2
  <2>6. In(x, b[j]) % BYTE = b[j]
    BY <2>4, ShiftByte
  <2>7. Store(n, v)[k] = r[k - 1] % BYTE
    BY <1>3 DEF Store
  <2> QED BY <2>1, <2>3, <2>4, <2>5, <2>6, <2>7
<1> QED BY <1>2, <1>9

\* A word that fits is read back from its bytes.
LEMMA BigEndianOfStore ==
    ASSUME NEW n \in Nat, NEW v, Fits(n, v), NEW b \in [1 .. n -> ByteValues],
           \A k \in 1 .. n : b[k] = Store(n, v)[n - k + 1]
    PROVE  BigEndian(b) = v
<1>1. PICK w : Builds(n, b, w) /\ BigEndian(b) = w[n]
  BY BigEndianIs
<1>2. PICK r : r = Shifts(n, v)
  OBVIOUS
<1>3. v \in Nat /\ r[n] = 0
  BY <1>2 DEF Fits
<1>4. r \in [0 .. n -> Nat] /\ r[0] = v /\ \A k \in 1 .. n : r[k] = Out(r[k - 1])
  <2>1. PICK u \in Nat : u = v
    BY <1>3
  <2>2. /\ Shifts(n, u) \in [0 .. n -> Nat] /\ Shifts(n, u)[0] = u
        /\ \A k \in 1 .. n : Shifts(n, u)[k] = Out(Shifts(n, u)[k - 1])
    BY ShiftsIs
  <2> QED BY <1>2, <2>1, <2>2
<1>5. w[0] = 0 /\ \A k \in 1 .. n : w[k] = In(w[k - 1], b[k])
  BY <1>1 DEF Builds
<1> DEFINE G == {k \in 0 .. n : w[k] = r[n - k]}
<1>6. 0 \in G
  BY <1>3, <1>5
<1>7. ASSUME NEW k \in 1 .. n, k - 1 \in G PROVE k \in G
  <2>1. PICK j \in 1 .. n : j = n - k + 1
    OBVIOUS
  <2>2. n - (k - 1) = j /\ n - k = j - 1 /\ j - 1 \in 0 .. n
    BY <2>1
  <2>3. w[k - 1] = r[j]
    BY <1>7, <2>2
  <2>4. PICK x \in Nat : x = r[j - 1]
    BY <1>4, <2>2
  <2>5. r[j] = Out(x)
    BY <1>4, <2>4
  <2>6. b[k] = x % BYTE
    BY <1>2, <2>1, <2>4 DEF Store
  <2>7. In(Out(x), x % BYTE) = x
    BY ShiftByte
  <2>8. w[k] = r[n - k]
    BY <1>5, <2>2, <2>3, <2>4, <2>5, <2>6, <2>7
  <2> QED BY <2>8
<1>8. w[n] = r[n - n]
  <2> HIDE DEF G
  <2>1. \A k \in 0 .. n : k \in G
    BY <1>6, <1>7, UpTo
  <2>2. n \in G
    BY <2>1
  <2> QED BY <2>2 DEF G
<1> QED BY <1>1, <1>4, <1>8

\* What the device reads of a swapped word is the word.
LEMMA SwappedIsRead ==
    ASSUME NEW n \in Nat, NEW v, Fits(n, v)
    PROVE  /\ Store(n, bswap(n, v)) \in [1 .. n -> ByteValues]
           /\ BigEndian(Store(n, bswap(n, v))) = v
<1>1. v \in Nat
  BY DEF Fits
<1>2. PICK b \in [1 .. n -> ByteValues] : b = Store(n, v)
  BY <1>1, StoreIs
<1>3. PICK u \in Nat : u = BigEndian(b)
  BY BuildsNat
<1>4. u = bswap(n, v)
  BY <1>2, <1>3 DEF bswap
<1>5. PICK a \in [1 .. n -> ByteValues] : a = Store(n, u)
  BY StoreIs
<1>6. \A k \in 1 .. n : a[k] = b[n - k + 1]
  BY <1>3, <1>5, StoreOfBigEndian
<1>7. BigEndian(a) = v
  BY <1>2, <1>6, BigEndianOfStore
<1> QED BY <1>4, <1>5, <1>7

\* What the CPU reads and swaps is what the device reads.
LEMMA SwappedLoad ==
    ASSUME NEW n \in Nat, NEW b \in [1 .. n -> ByteValues]
    PROVE  bswap(n, Load(b)) = BigEndian(b)
<1>1. Len(b) = n
  <2>1. DOMAIN b = 1 .. n
    OBVIOUS
  <2> QED BY <2>1
<1>2. PICK a : a = Reverse(b)
  OBVIOUS
<1>3. a = [k \in 1 .. n |-> b[(n - k) + 1]]
  BY <1>1, <1>2 DEF Reverse
<1>4. a \in [1 .. n -> ByteValues]
  BY <1>3
<1>5. PICK u \in Nat : u = BigEndian(a)
  BY <1>4, BuildsNat
<1>6. \A k \in 1 .. n : Store(n, u)[k] = a[n - k + 1]
  BY <1>4, <1>5, StoreOfBigEndian
<1>7. PICK c \in [1 .. n -> ByteValues] : c = Store(n, u)
  BY StoreIs
<1>8. c = b
  <2>1. ASSUME NEW k \in 1 .. n PROVE c[k] = b[k]
    <3>1. PICK j \in 1 .. n : j = n - k + 1
      OBVIOUS
    <3>2. (n - j) + 1 = k
      BY <3>1
    <3> QED BY <1>3, <1>6, <1>7, <3>1, <3>2
  <2> QED BY <1>7, <2>1
<1> QED BY <1>2, <1>5, <1>7, <1>8 DEF bswap, Load

-----------------------------------------------------------------------------
(* The picture.                                                            *)

\* The ramfb_cfg_t for a picture at a, what it tells the device, and the control
\* word the device answers with.
Handed(a) == [addr   |-> Store(8, bswap(8, a)),
              width  |-> Store(4, bswap(4, RAMFB_WIDTH)),
              height |-> Store(4, bswap(4, RAMFB_HEIGHT)),
              stride |-> Store(4, bswap(4, RAMFB_WIDTH * RAMFB_BPP))]

Shown(a) == [addr |-> a, width |-> RAMFB_WIDTH, height |-> RAMFB_HEIGHT,
             stride |-> RAMFB_WIDTH * RAMFB_BPP]

Answered(v) == [k \in 1 .. 4 |-> IF k = 4 THEN v ELSE 0]

\* The request is open, refused, or carried out.
Handshake ==
    /\ buf.addr \in Bufs /\ buf.frames = FramesNeeded
    /\ cfg = Handed(buf.addr)
    /\ "control" \in DOMAIN access
    /\ \/ access.control \in [1 .. 4 -> ByteValues] /\ BigEndian(access.control) \notin {0, 1}
       \/ access.control = Answered(1)
       \/ access.control = Answered(0) /\ display = Shown(buf.addr)

\* Steps of x86_64 only, and of aarch64 only.
StagesX86     == {"keyboard", "fb", "mouse"}
StagesAarch64 == {"devices", "blk", "ramfb", "input"}

FbInv ==
    /\ stage \in StagesX86 => arch = "x86_64"
    /\ stage \in StagesAarch64 => arch = "aarch64"
    /\ arch \in {"x86_64", "aarch64"}
    /\ arch = "x86_64" => rpc = "find"
    /\ arch = "aarch64" /\ rpc # "done" => ~fb.present
    /\ dir = Nothing \/ dir \in Dirs
    /\ rpc \in {"find", "poll", "done"}
    /\ rpc # "poll" => access = Nothing
    /\ rpc = "poll" => Handshake
    /\ DisplayMatches

\* The word the device answers with.
LEMMA AnswerIs ==
    ASSUME NEW v \in {0, 1}
    PROVE  Answered(v) \in [1 .. 4 -> ByteValues] /\ BigEndian(Answered(v)) = v
<1>1. PICK b : b = Answered(v)
  OBVIOUS
<1>2. b \in [1 .. 4 -> ByteValues] /\ b[1] = 0 /\ b[2] = 0 /\ b[3] = 0 /\ b[4] = v
  BY <1>1, ByteNat DEF Answered, ByteValues
<1>3. PICK w : Builds(4, b, w) /\ BigEndian(b) = w[4]
  BY <1>2, BigEndianIs
<1>4. In(0, 0) = 0 /\ In(0, v) = v
  BY ByteNat DEF In
<1>5. w[0] = 0 /\ \A k \in 1 .. 4 : w[k] = In(w[k - 1], b[k])
  BY <1>3 DEF Builds
<1>6. w[1] = In(w[0], b[1]) /\ w[2] = In(w[1], b[2]) /\ w[3] = In(w[2], b[3])
      /\ w[4] = In(w[3], b[4])
  <2>1. w[1] = In(w[1 - 1], b[1]) /\ w[2] = In(w[2 - 1], b[2]) /\ w[3] = In(w[3 - 1], b[3])
        /\ w[4] = In(w[4 - 1], b[4])
    BY <1>5
  <2> QED BY <2>1
<1> QED BY <1>1, <1>2, <1>3, <1>4, <1>5, <1>6

\* The control word of a request: four bytes, and neither of the answers.
LEMMA RequestIs ==
    ASSUME NEW sel \in ByteValues \X ByteValues
    PROVE  Fits(4, Request(BigEndian(sel))) /\ Request(BigEndian(sel)) \notin {0, 1}
<1>1. PICK s1 \in ByteValues, s2 \in ByteValues : sel = <<s1, s2>>
  OBVIOUS
<1>2. sel \in [1 .. 2 -> ByteValues] /\ sel[1] = s1 /\ sel[2] = s2
  BY <1>1
<1>3. PICK w : Builds(2, sel, w) /\ BigEndian(sel) = w[2]
  BY <1>2, BigEndianIs
<1>4. w[0] = 0 /\ w[1] = In(w[0], s1) /\ w[2] = In(w[1], s2) /\ w[1] \in Nat /\ w[2] \in Nat
  <2>1. \A k \in 1 .. 2 : w[k] = In(w[k - 1], sel[k])
    BY <1>3 DEF Builds
  <2>2. w[1] = In(w[1 - 1], sel[1]) /\ w[2] = In(w[2 - 1], sel[2])
    BY <2>1
  <2>3. w \in [0 .. 2 -> Nat] /\ w[0] = 0
    BY <1>3 DEF Builds
  <2> QED BY <1>2, <2>2, <2>3
<1>5. PICK x \in Nat, hi \in Nat : x = w[2] /\ hi = w[1]
  BY <1>4
<1>6. Out(x) = hi /\ Out(hi) = 0
  <2>1. Out(In(hi, s2)) = hi
    BY ShiftByte
  <2>2. PICK z \in Nat : z = 0
    OBVIOUS
  <2>3. Out(In(z, s1)) = z
    BY ShiftByte
  <2> QED BY <1>4, <1>5, <2>1, <2>2, <2>3
<1>7. PICK q \in ByteValues, y \in ByteValues : 24 = In(q, y)
  <2>1. PICK z \in Nat : z = 24
    OBVIOUS
  <2>2. Out(z) \in Nat /\ z % BYTE \in ByteValues /\ In(Out(z), z % BYTE) = z
    BY ShiftByte
  <2>3. PICK q \in Nat, y \in ByteValues : z = In(q, y)
    BY <2>2
  <2>4. q < BYTE
    <3>1. q >= BYTE => q * BYTE >= BYTE * BYTE
      BY ByteNat, SMTT(30)
    <3>2. y \in Nat /\ q * BYTE \in Nat /\ BYTE * BYTE > 24 /\ BYTE * BYTE \in Nat
      BY ByteNat, RamfbAssumption DEF ByteValues
    <3>3. 24 = q * BYTE + y
      BY <2>1, <2>3 DEF In
    <3> QED BY <3>1, <3>2, <3>3, ByteNat
  <2>5. q \in ByteValues
    BY <2>4, ByteNat DEF ByteValues
  <2> QED BY <2>1, <2>3, <2>5
<1>8. Request(x) = In(In(x, q), y) /\ Request(x) >= 24
  <2>1. q \in Nat /\ y \in Nat
    BY ByteNat DEF ByteValues
  <2>2. x * (BYTE * BYTE) \in Nat /\ Request(x) = x * (BYTE * BYTE) + 24
    BY ByteNat, SMTT(30) DEF Request, FW_CFG_DMA_CTL_SELECT, FW_CFG_DMA_CTL_WRITE
  <2>3. (x * BYTE + q) * BYTE + y = x * (BYTE * BYTE) + (q * BYTE + y)
    BY <2>1, ByteNat, SMTT(30)
  <2> QED BY <1>7, <2>2, <2>3 DEF In
<1>9. PICK r0 \in Nat, r1 \in Nat : r1 = In(x, q) /\ r0 = In(r1, y)
  <2>1. PICK r1 \in Nat : r1 = In(x, q)
    BY ShiftByte
  <2>2. In(r1, y) \in Nat
    BY ShiftByte
  <2> QED BY <2>1, <2>2
<1>10. Out(r0) = r1 /\ Out(r1) = x
  BY <1>9, ShiftByte
<1>11. PICK r : r = Shifts(4, r0)
  OBVIOUS
<1>12. r[0] = r0 /\ r[1] = Out(r[0]) /\ r[2] = Out(r[1]) /\ r[3] = Out(r[2])
       /\ r[4] = Out(r[3])
  <2>1. r[0] = r0 /\ \A k \in 1 .. 4 : r[k] = Out(r[k - 1])
    <3>1. PICK n \in Nat : n = 4
      OBVIOUS
    <3>2. /\ Shifts(n, r0)[0] = r0
          /\ \A k \in 1 .. n : Shifts(n, r0)[k] = Out(Shifts(n, r0)[k - 1])
      BY ShiftsIs
    <3> QED BY <1>11, <3>1, <3>2
  <2>2. r[1] = Out(r[1 - 1]) /\ r[2] = Out(r[2 - 1]) /\ r[3] = Out(r[3 - 1])
        /\ r[4] = Out(r[4 - 1])
    BY <2>1
  <2> QED BY <2>1, <2>2
<1>13. r[4] = 0
  BY <1>6, <1>10, <1>12
<1>14. r0 = Request(x)
  BY <1>8, <1>9
<1> QED BY <1>3, <1>5, <1>8, <1>11, <1>13, <1>14 DEF Fits

\* The device decodes what the kernel handed over.
LEMMA HandedIsShown ==
    ASSUME NEW a \in Bufs
    PROVE  [f \in DOMAIN Handed(a) |-> BigEndian(Handed(a)[f])] = Shown(a)
<1>1. /\ BigEndian(Store(8, bswap(8, a))) = a
      /\ \A v \in {RAMFB_WIDTH, RAMFB_HEIGHT, RAMFB_WIDTH * RAMFB_BPP} :
           BigEndian(Store(4, bswap(4, v))) = v
  BY RamfbAssumption, SwappedIsRead
<1>2. PICK h : h = Handed(a)
  OBVIOUS
<1>3. /\ DOMAIN h = {"addr", "width", "height", "stride"}
      /\ BigEndian(h.addr) = a
      /\ BigEndian(h.width) = RAMFB_WIDTH
      /\ BigEndian(h.height) = RAMFB_HEIGHT
      /\ BigEndian(h.stride) = RAMFB_WIDTH * RAMFB_BPP
  BY <1>1, <1>2 DEF Handed
<1>4. [f \in DOMAIN h |-> BigEndian(h[f])] = Shown(a)
  BY <1>3 DEF Shown
<1> QED BY <1>2, <1>4

\* The frames taken are enough for the picture.
LEMMA PictureFits ==
    ASSUME NEW x \in 0 .. RAMFB_WIDTH - 1, NEW y \in 0 .. RAMFB_HEIGHT - 1
    PROVE  LET pitch == RAMFB_WIDTH * RAMFB_BPP
           IN  /\ y * pitch + x * 4 \in Nat
               /\ y * pitch + x * 4 + RAMFB_BPP <= FramesNeeded * PMM_FRAME_SIZE
               /\ FramesNeeded * PMM_FRAME_SIZE \in Nat
<1>1. /\ RAMFB_WIDTH \in Nat \ {0} /\ RAMFB_HEIGHT \in Nat \ {0} /\ RAMFB_BPP = 4
      /\ PMM_FRAME_SIZE \in Nat \ {0}
  BY RamfbAssumption
<1>2. PICK pitch \in Nat : pitch = RAMFB_WIDTH * RAMFB_BPP
  BY <1>1
<1>3. x \in Nat /\ y \in Nat /\ x + 1 <= RAMFB_WIDTH /\ y + 1 <= RAMFB_HEIGHT
  BY <1>1
<1>4. x * 4 + 4 <= pitch
  BY <1>1, <1>2, <1>3
<1>5. y * pitch + pitch <= RAMFB_HEIGHT * pitch /\ y * pitch \in Nat
      /\ RAMFB_HEIGHT * pitch \in Nat
  <2>1. \A u, v, w \in Nat : u + 1 <= v => u * w + w <= v * w /\ u * w \in Nat /\ v * w \in Nat
    BY SMTT(60)
  <2> QED BY <1>1, <1>3, <2>1
<1>6. RAMFB_WIDTH * RAMFB_HEIGHT * RAMFB_BPP = RAMFB_HEIGHT * pitch
  BY <1>1, <1>2, SMTT(30)
<1>7. PICK total \in Nat : total = RAMFB_HEIGHT * pitch
  BY <1>5
<1>8. total <= FramesNeeded * PMM_FRAME_SIZE /\ FramesNeeded * PMM_FRAME_SIZE \in Nat
  <2>1. \A t \in Nat : \A d \in Nat \ {0} :
          /\ t <= ((t + d - 1) \div d) * d /\ ((t + d - 1) \div d) * d \in Nat
    BY SMTT(60)
  <2> QED BY <1>1, <1>6, <1>7, <2>1 DEF FramesNeeded
<1> QED BY <1>1, <1>2, <1>3, <1>4, <1>5, <1>7, <1>8

LEMMA FbInitial == Init => FbInv
<1> SUFFICES ASSUME Init PROVE FbInv
  OBVIOUS
<1>1. /\ rpc = "find" /\ dir = Nothing /\ fb = NoFb /\ access = Nothing
      /\ stage = "interrupts" /\ arch \in {"x86_64", "aarch64"}
  BY DEF Init, RamfbInit
<1>2. ~fb.present
  BY <1>1 DEF NoFb
<1> QED BY <1>1, <1>2 DEF FbInv, StagesX86, StagesAarch64, DisplayMatches

\* The steps of fb_init.
LEMMA FbStepPreserves ==
    ASSUME FbInv, RamfbStep, UNCHANGED arch
    PROVE  FbInv'
<1>1. stage = "ramfb" /\ arch = "aarch64" /\ arch' = "aarch64"
      /\ stage' \in StagesAarch64 /\ stage' \notin StagesX86
  BY DEF RamfbStep, FbInv, Goto, StagesX86, StagesAarch64
<1>2. fb_init
  BY DEF RamfbStep
<1>3. CASE FbAbsent \/ FbRefused
  <2>1. /\ rpc # "done" /\ rpc' = "done" /\ dir' = Nothing /\ access' = Nothing
        /\ UNCHANGED fb
    BY <1>3 DEF FbAbsent, FbRefused, Return
  <2>2. ~fb'.present
    BY <1>1, <2>1 DEF FbInv
  <2> QED BY <1>1, <2>1, <2>2 DEF FbInv, DisplayMatches
<1>4. CASE FbHandOver
  <2>1. PICK a \in Bufs : buf' = [addr |-> a, frames |-> FramesNeeded]
    BY <1>4 DEF FbHandOver
  <2>2. buf'.addr = a /\ buf'.frames = FramesNeeded
    BY <2>1
  <2>3. cfg' = Handed(a)
    BY <1>4, <2>2 DEF FbHandOver, Handed
  <2>4. PICK K : K = {k \in DOMAIN dir : dir[k].name = "etc/ramfb"}
    OBVIOUS
  <2>5. fw_cfg_find_file("etc/ramfb") = IF K = {} THEN 0 ELSE BigEndian(dir[Min(K)].select)
    BY <2>4 DEF fw_cfg_find_file
  <2>6. K # {}
    BY <1>4, <2>5 DEF FbHandOver
  <2>7. dir \in Dirs
    <3>1. DOMAIN Nothing = {}
      BY DEF Nothing
    <3> QED BY <2>4, <2>6, <3>1 DEF FbInv
  <2>8. K \in SUBSET Nat
    <3>1. PICK S : dir \in Seq(S)
      BY <2>7, RamfbAssumption
    <3>2. DOMAIN dir \subseteq Nat
      BY <3>1
    <3> QED BY <2>4, <3>2
  <2>9. Min(K) \in DOMAIN dir
    BY <2>4, <2>6, <2>8, MinInSet
  <2>10. PICK sel \in ByteValues \X ByteValues : sel = dir[Min(K)].select
    BY <2>7, <2>9, RamfbAssumption
  <2>11. PICK v : v = Request(BigEndian(sel))
    OBVIOUS
  <2>12. Fits(4, v) /\ v \notin {0, 1}
    BY <2>11, RequestIs
  <2>13. PICK b : b = Store(4, bswap(4, v))
    OBVIOUS
  <2>14. b \in [1 .. 4 -> ByteValues] /\ BigEndian(b) = v
    BY <2>12, <2>13, SwappedIsRead
  <2>15. /\ "control" \in DOMAIN access' /\ access'.control = b
    BY <1>4, <2>5, <2>6, <2>10, <2>11, <2>13 DEF FbHandOver, fw_cfg_dma_write
  <2>16. Handshake'
    BY <2>2, <2>3, <2>12, <2>14, <2>15 DEF Handshake, Handed, FramesNeeded
  <2>17. rpc' = "poll" /\ UNCHANGED <<dir, fb>> /\ rpc = "find"
    BY <1>4 DEF FbHandOver
  <2> QED BY <1>1, <2>16, <2>17 DEF FbInv, DisplayMatches
<1>5. CASE FbPresent
  <2>1. /\ rpc = "poll" /\ rpc' = "done" /\ dir' = Nothing /\ access' = Nothing
        /\ UNCHANGED <<buf, display>> /\ Control = 0
        /\ fb' = [present |-> TRUE, addr |-> buf.addr, pitch |-> RAMFB_WIDTH * RAMFB_BPP,
                  width |-> RAMFB_WIDTH, height |-> RAMFB_HEIGHT]
    BY <1>5 DEF FbPresent, Return
  <2>2. Handshake
    BY <2>1 DEF FbInv
  <2>3. access.control \in [1 .. 4 -> ByteValues]
    BY <2>2, AnswerIs DEF Handshake
  <2>4. BigEndian(access.control) = 0
    <3>1. PICK b \in [1 .. 4 -> ByteValues] : b = access.control
      BY <2>3
    <3>2. bswap(4, Load(b)) = BigEndian(b)
      BY SwappedLoad
    <3> QED BY <2>1, <3>1, <3>2 DEF Control
  <2>5. display = Shown(buf.addr)
    <3>1. access.control # Answered(1)
      BY <2>4, AnswerIs
    <3> QED BY <2>2, <2>4, <3>1 DEF Handshake
  <2>6. /\ display'.addr = buf.addr /\ display'.width = RAMFB_WIDTH
        /\ display'.height = RAMFB_HEIGHT /\ display'.stride = RAMFB_WIDTH * RAMFB_BPP
    BY <2>1, <2>5 DEF Shown
  <2>7. /\ fb'.addr = buf.addr /\ fb'.pitch = RAMFB_WIDTH * RAMFB_BPP
        /\ fb'.width = RAMFB_WIDTH /\ fb'.height = RAMFB_HEIGHT
    BY <2>1
  <2>8. buf' = buf /\ buf.frames = FramesNeeded /\ RAMFB_BPP = 4 /\ buf.addr \in Nat
    BY <2>1, <2>2, RamfbAssumption DEF Handshake
  <2>9. ASSUME NEW x \in 0 .. RAMFB_WIDTH - 1, NEW y \in 0 .. RAMFB_HEIGHT - 1
        PROVE  /\ x < RAMFB_WIDTH /\ y < RAMFB_HEIGHT
               /\ PixelAt(x, y)' = display'.addr + y * display'.stride + x * RAMFB_BPP
               /\ PixelAt(x, y)' >= buf'.addr
               /\ PixelAt(x, y)' + RAMFB_BPP <= buf'.addr + buf'.frames * PMM_FRAME_SIZE
    <3>1. PICK pitch : pitch = RAMFB_WIDTH * RAMFB_BPP
      OBVIOUS
    <3>2. y * pitch + x * 4 \in Nat /\ FramesNeeded * PMM_FRAME_SIZE \in Nat
          /\ y * pitch + x * 4 + RAMFB_BPP <= FramesNeeded * PMM_FRAME_SIZE
      BY <3>1, PictureFits
    <3>3. PixelAt(x, y)' = buf.addr + y * pitch + x * 4
      BY <2>7, <3>1 DEF PixelAt
    <3>4. x \in Nat /\ y \in Nat /\ pitch \in Nat
      BY <3>1, RamfbAssumption
    <3>5. y * pitch \in Nat /\ x * 4 \in Nat
      BY <3>4
    <3>6. x < RAMFB_WIDTH /\ y < RAMFB_HEIGHT
      BY RamfbAssumption
    <3>7. PixelAt(x, y)' >= buf'.addr
      BY <2>8, <3>3, <3>5
    <3>8. PixelAt(x, y)' + RAMFB_BPP <= buf'.addr + buf'.frames * PMM_FRAME_SIZE
      BY <2>8, <3>2, <3>3, <3>5
    <3> QED BY <2>6, <2>8, <3>1, <3>3, <3>6, <3>7, <3>8
  <2>10. DisplayMatches'
    BY <2>6, <2>7, <2>9 DEF DisplayMatches
  <2> QED BY <1>1, <2>1, <2>10 DEF FbInv
<1> QED BY <1>2, <1>3, <1>4, <1>5 DEF fb_init

\* The device answers an open request, once.
LEMMA FwCfgPreserves ==
    ASSUME FbInv, FwCfg
    PROVE  FbInv'
<1>1. UNCHANGED <<arch, stage, rpc, dir, buf, fb, cfg>> /\ Waiting
  BY DEF FwCfg, DmaServe, DmaFails
<1>2. rpc = "poll" /\ Handshake
  BY <1>1 DEF FbInv, Waiting
<1>3. DisplayMatches'
  BY <1>1, <1>2 DEF DisplayMatches
<1>4. Handshake'
  <2>1. CASE DmaServe
    <3>1. display' = [f \in DOMAIN cfg |-> BigEndian(cfg[f])]
          /\ access' = [access EXCEPT !.control = Answered(0)]
      BY <2>1 DEF DmaServe, Answer, Answered
    <3>2. display' = Shown(buf.addr)
      BY <1>2, <3>1, HandedIsShown DEF Handshake
    <3>3. "control" \in DOMAIN access' /\ access'.control = Answered(0)
      BY <1>2, <3>1 DEF Handshake
    <3> QED BY <1>1, <1>2, <3>2, <3>3 DEF Handshake, Shown, Answered, Handed, FramesNeeded
  <2>2. CASE DmaFails
    <3>1. access' = [access EXCEPT !.control = Answered(1)]
      BY <2>2 DEF DmaFails, Answer, Answered, FW_CFG_DMA_CTL_ERROR
    <3>2. "control" \in DOMAIN access' /\ access'.control = Answered(1)
      BY <1>2, <3>1 DEF Handshake
    <3> QED BY <1>1, <1>2, <3>2 DEF Handshake, Answered, Handed, FramesNeeded
  <2> QED BY <2>1, <2>2 DEF FwCfg
<1> QED BY <1>1, <1>2, <1>3, <1>4 DEF FbInv

LEMMA FbPreserved == FbInv /\ [Next]_vars => FbInv'
<1> SUFFICES ASSUME FbInv, [Next]_vars PROVE FbInv'
  OBVIOUS
<1>1. CASE RamfbStep /\ UNCHANGED arch
  BY <1>1, FbStepPreserves
<1>2. CASE FwCfg
  BY <1>2, FwCfgPreserves
<1>3. CASE fb_init_x86 /\ UNCHANGED <<arch, rpc, dir, access, display>>
  <2>1. stage = "fb" /\ arch = "x86_64" /\ rpc = "find" /\ stage' \in {"mouse", "running"}
    BY <1>3 DEF fb_init_x86, FbInv, StagesX86, Goto
  <2> QED BY <1>3, <2>1 DEF FbInv, StagesX86, StagesAarch64, DisplayMatches
<1>4. CASE Devices /\ UNCHANGED <<arch, rpc, buf, fb, cfg, access, display>>
  <2>1. stage = "devices" /\ arch = "aarch64" /\ stage' = "blk" /\ dir' \in Dirs
    BY <1>4 DEF Devices, FbInv, StagesAarch64, Goto
  <2>2. DisplayMatches' /\ (Handshake => Handshake')
    BY <1>4 DEF FbInv, DisplayMatches, PixelAt, Handshake
  <2> QED BY <1>4, <2>1, <2>2 DEF FbInv, StagesX86, StagesAarch64
<1>5. CASE /\ UNCHANGED <<arch, ramfb>>
           /\ stage' \in StagesX86 => arch = "x86_64"
           /\ stage' \in StagesAarch64 => arch = "aarch64"
  <2>1. UNCHANGED <<rpc, dir, buf, fb, cfg, access, display>>
    BY <1>5 DEF ramfb
  <2>2. DisplayMatches' /\ (Handshake => Handshake')
    BY <2>1 DEF FbInv, DisplayMatches, PixelAt, Handshake
  <2> QED BY <1>5, <2>1, <2>2 DEF FbInv
<1>6. CASE /\ \/ arch_interrupts_init \/ arch_interrupts_enable \/ pit_init
              \/ generic_timer_init \/ keyboard_init \/ mouse_init \/ SelfTest \/ RunProgram
              \/ Exception \/ ReportX86 \/ ReportAarch64 \/ virtio_blk_init
              \/ virtio_input_init
           /\ UNCHANGED <<arch, ramfb>>
  <2>1. /\ stage' \in StagesX86 => arch = "x86_64"
        /\ stage' \in StagesAarch64 => arch = "aarch64"
    BY <1>6 DEF arch_interrupts_init, arch_interrupts_enable, pit_init, generic_timer_init,
                keyboard_init, mouse_init, irq_install_handler, SelfTest, RunProgram, Exception,
                ReportX86, ReportAarch64, Report, kernel_panic, virtio_blk_init,
                virtio_input_init, Goto, FbInv, StagesX86, StagesAarch64
  <2> QED BY <1>5, <1>6, <2>1
<1>7. CASE UserProgram \/ (\E l \in Lines : Raise(l) \/ Irq(l)) \/ UNCHANGED vars
  <2>1. UNCHANGED <<stage, arch, ramfb>>
    BY <1>7 DEF UserProgram, Raise, Irq, isr_handler, aarch64_irq_handler, vars
  <2> QED BY <1>5, <2>1 DEF FbInv
<1>8. CASE kernel_main
  <2>1. CASE virtio_blk_init \/ virtio_input_init
    <3>1. UNCHANGED <<arch, ramfb>>
      BY <1>8, <2>1 DEF kernel_main, virtio_blk_init, virtio_input_init
    <3> QED BY <1>6, <2>1, <3>1
  <2> QED BY <1>1, <1>3, <1>4, <1>6, <1>8, <2>1 DEF kernel_main
<1> QED BY <1>2, <1>7, <1>8 DEF Next

\* For every size of picture and byte, wherever the PMM puts it: once fb_init
\* reports a framebuffer, the device shows each pixel where the kernel draws it,
\* inside of the frames taken, although all they exchange is in the other byte
\* order.
THEOREM PictureSafe == Spec => []DisplayMatches
<1>1. FbInv => DisplayMatches
  BY DEF FbInv
<1> QED BY <1>1, FbInitial, FbPreserved, PTL DEF Spec
=============================================================================
