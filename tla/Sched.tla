------------------------------- MODULE Sched -------------------------------
(***************************************************************************)
(* The preemptive round-robin scheduler: kernel/sched.c, the context       *)
(* switch and trampoline of both architectures, and the timer interrupt    *)
(* path that drives it (isr_handler / aarch64_irq_handler -> tick ->       *)
(* sched_tick), with threads that create threads: what the kernel does.    *)
(* thread_exit, and sched_yield from a thread, are offered and not called. *)
(*                                                                         *)
(* Thread code runs with interrupts on, one shared access per step, so the *)
(* timer may strike between any two of them.  A handler runs with          *)
(* interrupts off and is one step once entered.  `running' is the stack    *)
(* the CPU is on; `current' is the C variable; they are not the same thing *)
(* and the properties below are about keeping them together.               *)
(***************************************************************************)
EXTENDS Naturals, FiniteSets

CONSTANTS
    Threads,     \* thread_t structures that may come to exist
    Main,        \* the boot context, thread 0
    None,        \* NULL
    MaxIrqDepth  \* bound on interrupt frames suspended on one stack

ASSUME SchedAssumption ==
    /\ IsFiniteSet(Threads) /\ Main \in Threads
    /\ None \notin Threads
    /\ MaxIrqDepth \in Nat \ {0}

VARIABLES
    current,        \* sched.c's current
    sched_enabled,
    next,           \* thread_t.next, None for a thread never linked
    sp,             \* thread_t.sp: the stack it points into, None when the
                    \* value is NULL or the frame it names has been popped
    running,        \* the stack the CPU executes on
    pc,             \* per stack: what its thread-level code does next
    loc,            \* per stack: locals of that code
    irq,            \* per stack: interrupt frames suspended on it
    handler,        \* TRUE while isr_handler has been entered, not dispatched
    iflag,          \* interrupts enabled (RFLAGS.IF, not DAIF.I)
    pending,        \* the timer has raised its line
    in_service,     \* the controller waits for EOI
    crashed         \* a context switch loaded an sp that names no frame

vars == <<current, sched_enabled, next, sp, running, pc, loc, irq, handler,
          iflag, pending, in_service, crashed>>

sched == <<current, sched_enabled, next>>
intr  == <<irq, handler, iflag, pending, in_service>>

NoLocals == [t |-> None, tmp |-> None]

Linked == {t \in Threads : next[t] # None}

-----------------------------------------------------------------------------
Init ==
    /\ current = None
    /\ sched_enabled = FALSE
    /\ next = [t \in Threads |-> None]
    /\ sp = [t \in Threads |-> None]
    /\ running = Main
    /\ pc = [t \in Threads |-> IF t = Main THEN "sched_init" ELSE "none"]
    /\ loc = [t \in Threads |-> NoLocals]
    /\ irq = [t \in Threads |-> 0]
    /\ handler = FALSE
    /\ iflag = TRUE
    /\ pending = FALSE
    /\ in_service = FALSE
    /\ crashed = FALSE

\* The running stack executes thread-level code and is at point p of it.
At(p) ==
    /\ ~crashed
    /\ ~handler
    /\ irq[running] = 0
    /\ pc[running] = p

Goto(p) == pc' = [pc EXCEPT ![running] = p]

-----------------------------------------------------------------------------
(* Switching stacks.                                                       *)

\* Mutant: the running stack is stored in the thread that is switched to.
SwitchSavesWrong(prev, nxt) ==
    IF sp[nxt] = None
    THEN /\ crashed' = TRUE
         /\ UNCHANGED <<sp, running>>
    ELSE /\ running' = sp[nxt]
         /\ sp' = [sp EXCEPT ![nxt] = running]
         /\ UNCHANGED crashed

\* Store the running stack in prev->sp, load nxt->sp.  The frame nxt->sp names
\* is popped, so every copy of that pointer is void.
arch_context_switch(prev, nxt) ==
    IF sp[nxt] = None
    THEN /\ crashed' = TRUE
         /\ UNCHANGED <<sp, running>>
    ELSE /\ running' = sp[nxt]
         /\ sp' = [t \in Threads |-> IF t = prev THEN running
                                     ELSE IF sp[t] = sp[nxt] THEN None
                                     ELSE sp[t]]
         /\ UNCHANGED crashed

switch_to(nxt) ==
    /\ current' = nxt
    /\ arch_context_switch(current, nxt)

NoSwitch == UNCHANGED <<current, sp, running, crashed>>

sched_yield == IF next[current] # current THEN switch_to(next[current]) ELSE NoSwitch

sched_tick == IF sched_enabled THEN sched_yield ELSE NoSwitch

-----------------------------------------------------------------------------
(* The timer interrupt.                                                    *)

TimerExpires ==
    /\ ~crashed
    /\ ~pending
    /\ pending' = TRUE
    /\ UNCHANGED <<sched, sp, running, pc, loc, irq, handler, iflag, in_service,
                   crashed>>

\* Mutant of IrqEnter: the gate leaves interrupts enabled (trap gate).
IrqEnterEnabled ==
    /\ ~crashed
    /\ pending /\ iflag /\ ~in_service
    /\ irq[running] < MaxIrqDepth
    /\ irq' = [irq EXCEPT ![running] = @ + 1]
    /\ handler' = FALSE
    /\ pending' = FALSE
    /\ UNCHANGED <<sched, sp, running, pc, loc, iflag, in_service, crashed>>

\* The CPU takes the interrupt: the registers are pushed on the running stack
\* (isr_common_stub, kernel_entry) with interrupts off.
IrqEnter ==
    /\ ~crashed
    /\ pending /\ iflag /\ ~in_service
    /\ irq[running] < MaxIrqDepth
    /\ irq' = [irq EXCEPT ![running] = @ + 1]
    /\ handler' = TRUE
    /\ iflag' = FALSE
    /\ pending' = FALSE
    /\ in_service' = TRUE
    /\ UNCHANGED <<sched, sp, running, pc, loc, crashed>>

\* Mutant of IrqHandler: EOI after the handler, which a switch never reaches.
IrqHandlerEoiLast ==
    /\ ~crashed
    /\ handler
    /\ handler' = FALSE
    /\ sched_tick
    /\ in_service' = (running' # running)
    /\ UNCHANGED <<sched_enabled, next, pc, loc, irq, iflag, pending>>

\* The controller is told that the interrupt is served.
Eoi == in_service' = FALSE

\* isr_handler / aarch64_irq_handler: EOI first, then pit_tick or
\* generic_timer_tick, sched_tick, sched_yield and switch_to.
IrqHandler ==
    /\ ~crashed
    /\ handler
    /\ Eoi
    /\ handler' = FALSE
    /\ sched_tick
    /\ UNCHANGED <<sched_enabled, next, pc, loc, irq, iflag, pending>>

\* The handler of the running stack returns: iretq / eret restore the flags.
IrqReturn ==
    /\ ~crashed
    /\ ~handler
    /\ irq[running] > 0
    /\ irq' = [irq EXCEPT ![running] = @ - 1]
    /\ iflag' = TRUE
    /\ UNCHANGED <<sched, sp, running, pc, loc, handler, pending, in_service,
                   crashed>>

-----------------------------------------------------------------------------
(* sched_init, run by kernel_main with interrupts on.                      *)

\* The structure is filled in and current points to it; the scheduler is off.
SchedInitCurrent ==
    /\ At("sched_init")
    /\ next' = [next EXCEPT ![Main] = Main]
    /\ current' = Main
    /\ Goto("sched_enable")
    /\ UNCHANGED <<sched_enabled, sp, running, loc, intr, crashed>>

SchedInitEnable ==
    /\ At("sched_enable")
    /\ sched_enabled' = TRUE
    /\ Goto("body")
    /\ UNCHANGED <<current, next, sp, running, loc, intr, crashed>>

\* Mutant of Trampoline: interrupts are not switched on.
TrampolineNoSti ==
    /\ At("fresh")
    /\ Goto("body")
    /\ UNCHANGED <<sched, sp, running, loc, intr, crashed>>

\* thread_trampoline: a new thread enables interrupts and calls its entry.
Trampoline ==
    /\ At("fresh")
    /\ iflag' = TRUE
    /\ Goto("body")
    /\ UNCHANGED <<sched, sp, running, loc, irq, handler, pending, in_service,
                   crashed>>

-----------------------------------------------------------------------------
(* thread_create.                                                          *)

\* A frame on the new stack that "returns" into thread_trampoline.
arch_thread_init_stack(n) == sp' = [sp EXCEPT ![n] = n]

\* Allocate the structure and a stack and prepare it.
CreateThread(n) ==
    /\ At("body")
    /\ pc[n] = "none"
    /\ arch_thread_init_stack(n)
    /\ pc' = [pc EXCEPT ![n] = "fresh", ![running] = "create_read"]
    /\ loc' = [loc EXCEPT ![running] = [t |-> n, tmp |-> None]]
    /\ UNCHANGED <<sched, running, intr, crashed>>

\* Mutant of CreateRead: the new thread is published before it is linked.
CreatePublishFirst ==
    /\ At("create_read")
    /\ next' = [next EXCEPT ![current] = loc[running].t]
    /\ loc' = [loc EXCEPT ![running].tmp = next'[current]]
    /\ Goto("create_link")
    /\ UNCHANGED <<current, sched_enabled, sp, running, intr, crashed>>

\* t->next = current->next, the load ...
CreateRead ==
    /\ At("create_read")
    /\ loc' = [loc EXCEPT ![running].tmp = next[current]]
    /\ Goto("create_link")
    /\ UNCHANGED <<sched, sp, running, intr, crashed>>

\* ... and the store.
CreateLink ==
    /\ At("create_link")
    /\ next' = [next EXCEPT ![loc[running].t] = loc[running].tmp]
    /\ Goto("create_publish")
    /\ UNCHANGED <<current, sched_enabled, sp, running, loc, intr, crashed>>

\* current->next = t.
CreatePublish ==
    /\ At("create_publish")
    /\ next' = [next EXCEPT ![current] = loc[running].t]
    /\ Goto("body")
    /\ loc' = [loc EXCEPT ![running] = NoLocals]
    /\ UNCHANGED <<current, sched_enabled, sp, running, intr, crashed>>

-----------------------------------------------------------------------------
Create == (\E n \in Threads : CreateThread(n)) \/ CreateRead \/ CreateLink \/ CreatePublish

ThreadStep == SchedInitCurrent \/ SchedInitEnable \/ Trampoline \/ Create

Next == TimerExpires \/ IrqEnter \/ IrqHandler \/ IrqReturn \/ ThreadStep

\* The timer is periodic and the CPU neither stops nor defers an unmasked
\* interrupt for ever.  A time slice (10 ms) is long against an instruction,
\* so a thread that is given the CPU again and again makes progress: strong
\* fairness of its own steps.
Fairness ==
    /\ WF_vars(TimerExpires)
    /\ WF_vars(IrqEnter)
    /\ WF_vars(IrqHandler)
    /\ WF_vars(IrqReturn)
    /\ \A t \in Threads : SF_vars(running = t /\ ThreadStep)

Spec == Init /\ [][Next]_vars /\ Fairness

-----------------------------------------------------------------------------
PcValues ==
    {"none", "fresh", "sched_init", "sched_enable", "body",
     "create_read", "create_link", "create_publish"}

\* At most one interrupt frame is suspended on a stack: handlers run with
\* interrupts off, so they cannot pile up on a 16 KB stack.
TypeOK ==
    /\ current \in Threads \cup {None}
    /\ sched_enabled \in BOOLEAN
    /\ next \in [Threads -> Threads \cup {None}]
    /\ sp \in [Threads -> Threads \cup {None}]
    /\ running \in Threads
    /\ pc \in [Threads -> PcValues]
    /\ loc \in [Threads -> [t : Threads \cup {None}, tmp : Threads \cup {None}]]
    /\ irq \in [Threads -> 0..1]
    /\ handler \in BOOLEAN /\ iflag \in BOOLEAN /\ pending \in BOOLEAN
    /\ in_service \in BOOLEAN /\ crashed \in BOOLEAN

\* Every thread in the ring other than the current one has a saved sp that
\* names a live frame of its own stack, and the CPU runs on the current
\* thread's stack: nothing is resumed twice or on another thread's stack, and no
\* switch has loaded an sp that names no frame.
ContextsOwn ==
    /\ ~crashed
    /\ \A t \in Linked \ {current} : sp[t] = t
    /\ current # None => running = current

\* Thread bodies run with interrupts on, the condition for being preempted
\* ("actually-preemptive", include/kernel/sched.h:2).
BodyPreemptible ==
    At("body") /\ sched_enabled => iflag

\* Threads reachable from t by following next at most n times.
Ahead[n \in 0..Cardinality(Threads)] ==
    IF n = 0 THEN {current} ELSE Ahead[n - 1] \cup {next[t] : t \in Ahead[n - 1] \cap Threads}

\* Whatever the timer interrupts, the ring stays one cycle through every
\* thread whose creation is complete: none is lost, none is skipped.
RingWhole ==
    current # None =>
      LET ring == Ahead[Cardinality(Threads)]
      IN  /\ ring \subseteq Linked
          /\ \A t \in Linked : t \in ring \/ \E c \in ring : /\ loc[c].t = t
                                                             /\ pc[c] = "create_publish"
          /\ \A s, t \in ring : next[s] = next[t] => s = t

\* Every thread in the ring runs its body again and again.
EveryThreadRuns ==
    \A t \in Threads :
      [](t \in Linked => <>(running = t /\ irq[t] = 0 /\ pc[t] # "fresh"))
=============================================================================
