-------------------------------- MODULE Boot --------------------------------
(***************************************************************************)
(* kernel_main from arch_interrupts_init to the idle loop, on both         *)
(* architectures: the interrupt tables and controllers, the timer and the  *)
(* handlers, arch_late_init with the self-test, the user program           *)
(* (Process), the virtio devices (VirtioProbe) and ramfb (Ramfb), and      *)
(* kernel_panic.  Interrupts are on for most of it and strike between any  *)
(* two steps; a handler runs with interrupts off, in one step.  The        *)
(* filesystem, the window manager and the scheduler, which come last, have *)
(* modules of their own; until sched_init a tick only counts.              *)
(***************************************************************************)
EXTENDS Process, Ramfb

CONSTANTS
    SLOTS,
    Machines,       \* what the virtio slots may hold
    FrameCounts     \* how many frames may be left when the devices are probed

VARIABLES
    stage,          \* where kernel_main is
    vectors,        \* the IDT is loaded, VBAR_EL1 is set
    handlers,       \* lines that have a handler
    unmasked,       \* lines the interrupt controller lets through
    pending,        \* lines that are raised
    in_service,     \* lines the controller waits for an EOI of
    machine, probes, rings, blk, kbd, mouse, dpc, di

D == INSTANCE VirtioProbe WITH pc <- dpc, i <- di

ASSUME BootAssumption ==
    /\ SLOTS \in Nat
    /\ Machines \subseteq [D!Slots -> [kind : D!Kinds, fault : D!Faults]]
    /\ FrameCounts \subseteq Nat

devices == <<probes, rings, blk, kbd, mouse, dpc, di>>
virtio == <<machine, devices>>
irqs   == <<vectors, handlers, unmasked, pending, in_service>>
vars   == <<arch, stage, irqs, process, ramfb, frames, virtio>>

CASCADE == 2
Timer == IF arch = "x86_64" THEN 0 ELSE 30
Lines == IF arch = "x86_64" THEN {0, 1, 12} ELSE {30}

\* At the call of arch_interrupts_init: interrupts off, memory plenty or none.
\* The PIC is as the firmware left it; the GIC is as it came out of reset, with
\* no line enabled, since nothing runs before the kernel there.
Init ==
    /\ arch \in {"x86_64", "aarch64"}
    /\ ProcessInit /\ RamfbInit /\ D!ProbeInit
    /\ machine = [s \in D!Slots |-> [kind |-> "none", fault |-> "ok"]]
    /\ frames = 0
    /\ free \in {Frames, {}}
    /\ stage = "interrupts"
    /\ iflag = FALSE /\ vectors = FALSE /\ handlers = {}
    /\ unmasked \in IF arch = "x86_64" THEN {{}, {0, 1, CASCADE, 12}} ELSE {{}}
    /\ pending = {} /\ in_service = {}

Goto(s) == stage' = s

kernel_panic ==
    /\ iflag' = FALSE
    /\ Goto("panic")

-----------------------------------------------------------------------------
(* Interrupts.                                                             *)

\* The lines of the PIC an interrupt passes: those of the slave come through
\* the cascade.
Slave(l) == arch = "x86_64" /\ l >= 8

Path(l) == IF Slave(l) THEN {CASCADE, l} ELSE {l}

Raise(l) ==
    /\ l \notin pending
    /\ l = 30 => stage \notin {"interrupts", "enable", "timer"}
    /\ pending' = pending \cup {l}
    /\ UNCHANGED <<arch, stage, vectors, handlers, unmasked, in_service, process, ramfb,
                   frames, virtio>>

\* The controller passes on a line that nothing of the same or a higher
\* priority on the same chip is in service of.
Deliverable(l) ==
    /\ stage # "panic" /\ iflag
    /\ l \in pending
    /\ \A b \in Path(l) :
         /\ b \in unmasked
         /\ \A s \in in_service : (Slave(s) <=> Slave(b)) => b < s

\* Mutant of Eoi: only the master is told.
EoiMasterOnly(l, served) == served \ {Min(served)}

\* isr_handler tells the slave, then the master, whose most urgent line it is;
\* gic_cpu_eoi names the interrupt.
Eoi(l, served) == served \ (IF Slave(l) THEN {l, CASCADE} ELSE {l})

\* isr_handler: EOI, then the handler, if there is one.  The line is cleared by
\* being taken.
isr_handler(l) ==
    /\ arch = "x86_64"
    /\ Deliverable(l)
    /\ pending' = pending \ {l}
    /\ in_service' = Eoi(l, in_service \cup Path(l))
    /\ UNCHANGED <<arch, stage, vectors, handlers, unmasked, process, ramfb, frames, virtio>>

\* generic_timer_ack lowers the line, which is level-triggered.
generic_timer_ack == pending' = pending \ {Timer}

\* aarch64_irq_handler: acknowledge the GIC, the timer, EOI, tick.
aarch64_irq_handler(l) ==
    /\ arch = "aarch64"
    /\ Deliverable(l)
    /\ generic_timer_ack
    /\ in_service' = Eoi(l, in_service \cup {l})
    /\ UNCHANGED <<arch, stage, vectors, handlers, unmasked, process, ramfb, frames, virtio>>

Irq(l) == isr_handler(l) \/ aarch64_irq_handler(l)

-----------------------------------------------------------------------------
(* kernel_main.                                                            *)

\* The PIC is initialised, and has forgotten what was raised.
pic_remap == pending' = {}

\* Everything is masked until a driver wants it.
idt_init ==
    /\ arch = "x86_64"
    /\ pic_remap
    /\ unmasked' = {}
    /\ UNCHANGED handlers

\* gic_init enables the controller and leaves every line as it finds it;
\* aarch64_irq_handler knows its interrupt.
gic_init ==
    /\ arch = "aarch64"
    /\ handlers' = {Timer}
    /\ UNCHANGED <<unmasked, pending>>

arch_interrupts_init ==
    /\ stage = "interrupts"
    /\ vectors' = TRUE
    /\ idt_init \/ gic_init
    /\ Goto("enable")
    /\ UNCHANGED <<in_service, process>>

arch_interrupts_enable ==
    /\ stage = "enable"
    /\ iflag' = TRUE
    /\ Goto("timer")
    /\ UNCHANGED <<irqs, image, cr3, stack, pc, seg, va, launch, return_sp, exit_code, result>>

\* Mutant of irq_install_handler: the line is let through first.
UnmaskFirst(l, then) ==
    /\ \/ /\ l \notin unmasked
          /\ unmasked' = unmasked \cup {l}
          /\ UNCHANGED <<handlers, stage>>
       \/ /\ l \in unmasked
          /\ handlers' = handlers \cup {l} /\ unmasked' = unmasked \cup Path(l)
          /\ Goto(then)
    /\ UNCHANGED <<vectors, pending, in_service, process>>

\* The handler, the mask, and for a line of the slave the mask of the cascade.
irq_install_handler(l, then) ==
    /\ \/ /\ l \notin handlers
          /\ handlers' = handlers \cup {l}
          /\ UNCHANGED <<unmasked, stage>>
       \/ /\ l \in handlers /\ l \notin unmasked
          /\ unmasked' = unmasked \cup {l}
          /\ IF Slave(l) THEN UNCHANGED stage ELSE Goto(then)
          /\ UNCHANGED handlers
       \/ /\ l \in unmasked
          /\ unmasked' = unmasked \cup {CASCADE}
          /\ Goto(then)
          /\ UNCHANGED handlers
    /\ UNCHANGED <<vectors, pending, in_service, process>>

pit_init ==
    /\ arch = "x86_64" /\ stage = "timer"
    /\ irq_install_handler(Timer, "keyboard")

gic_enable_irq(l) == unmasked' = unmasked \cup {l}

\* The countdown starts and its line is let through.
generic_timer_init ==
    /\ arch = "aarch64" /\ stage = "timer"
    /\ gic_enable_irq(Timer)
    /\ Goto("selftest")
    /\ UNCHANGED <<vectors, handlers, pending, in_service, process>>

-----------------------------------------------------------------------------
(* arch_late_init.                                                         *)

keyboard_init == stage = "keyboard" /\ irq_install_handler(1, "fb")

\* x86_64: what the boot loader set up, if anything; without it there is no
\* mouse, no self-test and no user program.
fb_init_x86 ==
    /\ stage = "fb"
    /\ \E present \in BOOLEAN :
         /\ fb' = [NoFb EXCEPT !.present = present]
         /\ Goto(IF present THEN "mouse" ELSE "running")
    /\ UNCHANGED <<irqs, process>>

\* The end of mouse_init; its dialogue with the controller is left out.
mouse_init == stage = "mouse" /\ irq_install_handler(12, "selftest")

\* It fails when there is no frame; that its other checks hold is what Vmm shows.
vmm_selftest == free # {}

\* The image is looked at from here on.
SelfTest ==
    /\ stage = "selftest"
    /\ IF vmm_selftest THEN Goto("process") /\ elf' \in Elfs /\ UNCHANGED iflag
       ELSE kernel_panic /\ UNCHANGED elf
    /\ UNCHANGED <<irqs, space, mem, free, cr3, stack, pc, seg, va, launch, return_sp,
                   exit_code, result>>

RunProgram ==
    /\ stage = "process"
    /\ process_run
    /\ UNCHANGED <<stage, irqs>>

\* A fault of the program on x86_64: isr_handler panics.
Exception ==
    /\ stage = "process" /\ pc = "panic"
    /\ kernel_panic
    /\ UNCHANGED <<irqs, image, cr3, stack, pc, seg, va, launch, return_sp, exit_code, result>>

\* process_run has returned and its result is shown; the image is not looked at
\* again.
Report(then) ==
    /\ stage = "process" /\ pc = "done"
    /\ Goto(then)
    /\ seg' = 1 /\ va' = 0 /\ exit_code' = 0 /\ result' = 0 /\ return_sp' = "none"
    /\ elf' = NoImage /\ mem' = Unwritten /\ free' = {}
    /\ UNCHANGED <<irqs, pc, space, launch, cpu>>

ReportX86     == arch = "x86_64" /\ Report("running")
ReportAarch64 == arch = "aarch64" /\ Report("devices")

\* On aarch64 the devices come next, on any machine, with any memory left.
Devices ==
    /\ stage = "devices"
    /\ machine' \in Machines /\ frames' \in FrameCounts /\ dir' \in Dirs
    /\ Goto("blk")
    /\ UNCHANGED <<irqs, process>>

virtio_blk_init ==
    /\ stage = "blk"
    /\ D!virtio_blk_init
    /\ Goto("ramfb")
    /\ UNCHANGED <<irqs, process, ramfb>>

RamfbStep ==
    /\ stage = "ramfb"
    /\ fb_init
    /\ Goto(IF rpc' = "done" THEN "input" ELSE stage)
    /\ UNCHANGED <<irqs, process, virtio>>

virtio_input_init ==
    /\ stage = "input"
    /\ D!virtio_input_init
    /\ Goto(IF dpc' = "done" THEN "running" ELSE stage)
    /\ UNCHANGED <<irqs, process, ramfb>>

-----------------------------------------------------------------------------
\* The steps of the kernel's own code.
kernel_main ==
    /\ \/ /\ \/ arch_interrupts_init \/ arch_interrupts_enable
             \/ pit_init \/ generic_timer_init
             \/ keyboard_init \/ mouse_init
             \/ SelfTest \/ RunProgram \/ Exception \/ ReportX86 \/ ReportAarch64
          /\ UNCHANGED <<ramfb, frames, virtio>>
       \/ fb_init_x86 /\ UNCHANGED <<rpc, dir, buf, cfg, access, display, frames, virtio>>
       \/ Devices /\ UNCHANGED <<rpc, buf, fb, cfg, access, display, devices>>
       \/ virtio_blk_init \/ RamfbStep \/ virtio_input_init
    /\ UNCHANGED arch

UserProgram ==
    /\ stage = "process"
    /\ Syscall \/ UserFault
    /\ UNCHANGED <<arch, stage, irqs, ramfb, frames, virtio>>

FwCfg ==
    /\ DmaServe \/ DmaFails
    /\ UNCHANGED <<arch, stage, irqs, process, virtio>>

Next ==
    \/ kernel_main \/ UserProgram \/ FwCfg
    \/ \E l \in Lines : Raise(l) \/ Irq(l)

\* The kernel does not stop between two steps, fw_cfg answers, and the CPU takes
\* an interrupt that stays raised as soon as it may.  The program owes nothing.
Spec ==
    /\ Init /\ [][Next]_vars
    /\ WF_vars(kernel_main) /\ WF_vars(FwCfg)
    /\ \A l \in {0, 1, 12, 30} : SF_vars(l \in Lines /\ Irq(l))

-----------------------------------------------------------------------------
\* Interrupts are never on without vectors, and no line is let through before
\* it has a handler: its interrupt would be acknowledged and dropped, and an
\* edge-triggered line would not be raised again.  On x86_64 that needs idt_init
\* to mask what the firmware left; gic_init masks nothing and relies on the reset
\* state of the GIC.
NoStrayIrq == iflag => vectors /\ unmasked \ {CASCADE} \subseteq handlers

\* From the moment its handler is installed, every interrupt that is raised is
\* taken, whatever the kernel and the program do, unless the kernel panics: no
\* EOI is forgotten, and exiting a program leaves interrupts on
\* (arch/x86_64/process.c:170-176).
IrqsServed ==
    \A l \in {0, 1, 12, 30} :
      l \in handlers /\ l \in pending ~> l \notin pending \/ stage = "panic"

\* Boot ends in the idle loop or in kernel_panic, or the program keeps running.
BootGoesOn == <>(stage \in {"running", "panic"}) \/ []<>(pc = "user")

\* Every virtio_device_t still points to the rings its device works on: no
\* claimed device is probed again while looking for another one
\* (virtio_input.c:180-183).
ClaimsAttached == D!ClaimsAttached

\* On a machine whose devices all come up, the scan finds a keyboard if there
\* is one and a mouse if there is one, whatever the slots hold and in whatever
\* order.
ScanFinds == D!ScanFinds
=============================================================================
