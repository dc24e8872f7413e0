---------------------------- MODULE SchedProofs ----------------------------
(***************************************************************************)
(* The scheduler under preemption, for every set of threads: contexts are  *)
(* never mixed up, no switch loads a dangling stack pointer, a thread body *)
(* never finds itself with interrupts off, and the ring of threads is one  *)
(* cycle through all of them at every instant.                             *)
(***************************************************************************)
EXTENDS Sched, FiniteSetTheorems, NaturalsInduction, TLAPS

-----------------------------------------------------------------------------
(* The inductive invariant.                                                *)

\* Until sched_init has set current there is only the boot context; the tick
\* handler does nothing until sched_enabled, when current is already valid.
BootInv ==
    /\ pc[Main] # "none"
    /\ pc[running] # "none"
    /\ \A t \in Threads : pc[t] \in {"sched_init", "sched_enable"} => t = Main
    /\ pc[Main] = "sched_init" =>
         /\ current = None /\ ~sched_enabled /\ running = Main
         /\ \A t \in Threads : next[t] = None
    /\ pc[Main] # "sched_init" => running = current /\ next[Main] # None
    /\ ~sched_enabled => running = Main

\* A saved stack pointer only ever names its owner's stack, every suspended
\* thread has one, and the running thread's has been consumed.
ContextInv ==
    /\ \A t \in Threads : sp[t] \in {None, t}
    /\ sp[running] = None
    /\ \A t \in Threads \ {running} : pc[t] # "none" => sp[t] = t

\* Following next from a linked thread stays in the ring, and every linked
\* thread has been created.
RingInv ==
    /\ \A t \in Linked : next[t] \in Linked /\ pc[t] # "none"
    /\ pc[Main] # "sched_init" => running \in Linked

\* The locals of an interrupted thread_create stay valid.
CreateInv ==
    \A t \in Threads :
      /\ pc[t] \in {"create_read", "create_link", "create_publish"} =>
           loc[t].t \in Threads /\ pc[loc[t].t] # "none"
      /\ pc[t] = "create_link" => loc[t].tmp \in Linked
      /\ pc[t] = "create_publish" => next[loc[t].t] # None

\* Interrupts are off exactly in a handler, on the way out of one, or in a
\* trampoline; whatever is suspended is suspended in a handler or is new.
IrqInv ==
    /\ iflag => irq[running] = 0 /\ ~handler
    /\ handler => irq[running] = 1
    /\ ~iflag => irq[running] = 1 \/ pc[running] = "fresh"
    /\ \A t \in Threads \ {running} : irq[t] = 1 \/ pc[t] \in {"fresh", "none"}

SchedInv ==
    /\ TypeOK
    /\ ~crashed
    /\ BootInv
    /\ ContextInv
    /\ RingInv
    /\ CreateInv
    /\ IrqInv

LEMMA InitSchedInv == Init => SchedInv
  <1> SUFFICES ASSUME Init PROVE SchedInv
    OBVIOUS
  <1> USE SchedAssumption DEF Init
  <1>1. TypeOK
    <2>1. pc \in [Threads -> PcValues]
      BY DEF PcValues
    <2>2. loc \in [Threads -> [t : Threads \cup {None}, tmp : Threads \cup {None}]]
      BY DEF NoLocals
    <2>3. /\ next \in [Threads -> Threads \cup {None}]
          /\ sp \in [Threads -> Threads \cup {None}]
          /\ irq \in [Threads -> 0..1]
      OBVIOUS
    <2> QED BY <2>1, <2>2, <2>3 DEF TypeOK
  <1>2. BootInv /\ ContextInv
    BY DEF BootInv, ContextInv
  <1>3. RingInv /\ CreateInv
    BY DEF RingInv, CreateInv, Linked
  <1>4. IrqInv
    BY DEF IrqInv
  <1> QED BY <1>1, <1>2, <1>3, <1>4 DEF SchedInv

\* The timer and the return from an interrupt do not touch the scheduler.
LEMMA InterruptPreserves ==
    ASSUME SchedInv, TimerExpires \/ IrqEnter \/ IrqReturn
    PROVE  SchedInv'
  <1>1. CASE TimerExpires
    BY <1>1
       DEF TimerExpires, sched, SchedInv, TypeOK, BootInv, ContextInv, RingInv, CreateInv, IrqInv,
           Linked
  <1>2. CASE IrqEnter
    <2>1. irq[running] = 0 /\ irq' = [irq EXCEPT ![running] = 1]
      BY <1>2 DEF IrqEnter, SchedInv, IrqInv, TypeOK
    <2>2. IrqInv'
      BY <1>2, <2>1 DEF IrqEnter, sched, SchedInv, TypeOK, IrqInv
    <2>4. irq' \in [Threads -> 0..1]
      BY <2>1 DEF SchedInv, TypeOK
    <2>5. TypeOK'
      BY <1>2, <2>4 DEF IrqEnter, sched, SchedInv, TypeOK
    <2>3. BootInv' /\ ContextInv' /\ RingInv' /\ CreateInv'
      BY <1>2 DEF IrqEnter, sched, SchedInv, BootInv, ContextInv, RingInv, CreateInv, Linked
    <2> QED BY <1>2, <2>2, <2>3, <2>5 DEF IrqEnter, SchedInv
  <1>3. CASE IrqReturn
    BY <1>3
       DEF IrqReturn, sched, SchedInv, TypeOK, BootInv, ContextInv, RingInv, CreateInv, IrqInv,
           Linked
  <1> QED BY <1>1, <1>2, <1>3

\* A switch in the handler parks the running thread on its own stack and
\* resumes the next one on its own.
LEMMA HandlerPreserves ==
    ASSUME SchedInv, IrqHandler
    PROVE  SchedInv'
  <1>1. /\ TypeOK /\ ~crashed /\ BootInv /\ ContextInv /\ RingInv /\ CreateInv /\ IrqInv
        /\ handler /\ in_service' = FALSE /\ handler' = FALSE
        /\ UNCHANGED <<sched_enabled, next, pc, loc, irq, iflag, pending>>
    BY DEF SchedInv, IrqHandler, Eoi
  <1>2. Linked' = Linked /\ irq[running] = 1 /\ ~iflag
    BY <1>1 DEF Linked, IrqInv
  <1>3. CASE sched_enabled /\ next[current] # current
    <2> DEFINE n == next[current]
    <2>1. /\ current = running /\ running \in Threads /\ running \in Linked
          /\ pc[Main] # "sched_init"
      BY <1>1, <1>3 DEF BootInv, RingInv, TypeOK
    <2>2. n \in Linked /\ n \in Threads /\ pc[n] # "none" /\ n # running
      BY <1>1, <1>3, <2>1 DEF RingInv, Linked
    <2>3. sp[n] = n /\ n # None
      BY <1>1, <2>2, SchedAssumption DEF ContextInv
    <2>4. /\ current' = n /\ running' = n /\ crashed' = crashed
          /\ sp' = [t \in Threads |-> IF t = running THEN running
                                      ELSE IF sp[t] = n THEN None ELSE sp[t]]
      BY <1>3, <2>1, <2>3 DEF IrqHandler, sched_tick, sched_yield, switch_to, arch_context_switch
    <2> HIDE DEF n
    <2>5. TypeOK'
      BY <1>1, <2>1, <2>2, <2>4 DEF TypeOK
    <2>6. ContextInv'
      BY <1>1, <2>1, <2>2, <2>3, <2>4 DEF ContextInv
    <2>7. BootInv' /\ RingInv' /\ CreateInv'
      BY <1>1, <1>2, <1>3, <2>1, <2>2, <2>4 DEF BootInv, RingInv, CreateInv
    <2>8. IrqInv'
      BY <1>1, <1>2, <2>1, <2>2, <2>4 DEF IrqInv
    <2> QED BY <1>1, <2>4, <2>5, <2>6, <2>7, <2>8 DEF SchedInv
  <1>4. CASE ~(sched_enabled /\ next[current] # current)
    <2>1. UNCHANGED <<current, sp, running, crashed>>
      BY <1>4 DEF IrqHandler, sched_tick, sched_yield, NoSwitch
    <2> QED BY <1>1, <1>2, <2>1
            DEF SchedInv, TypeOK, BootInv, ContextInv, RingInv, CreateInv, IrqInv
  <1> QED BY <1>3, <1>4

LEMMA BootStepPreserves ==
    ASSUME SchedInv, SchedInitCurrent \/ SchedInitEnable \/ Trampoline
    PROVE  SchedInv'
  <1> USE SchedAssumption DEF At, Goto, sched, intr, PcValues
  <1>1. CASE SchedInitCurrent
    <2>1. running = Main /\ pc[Main] = "sched_init"
      BY <1>1 DEF SchedInitCurrent, SchedInv, BootInv, TypeOK
    <2>2. Linked' = {Main} /\ next'[Main] = Main
      BY <1>1, <2>1 DEF SchedInitCurrent, SchedInv, BootInv, TypeOK, Linked
    <2>3. TypeOK' /\ BootInv' /\ RingInv'
      BY <1>1, <2>1, <2>2 DEF SchedInitCurrent, SchedInv, TypeOK, BootInv, RingInv
    <2>4. ContextInv' /\ IrqInv'
      BY <1>1, <2>1 DEF SchedInitCurrent, SchedInv, TypeOK, ContextInv, IrqInv
    <2>5. CreateInv'
      BY <1>1, <2>1, <2>2 DEF SchedInitCurrent, SchedInv, TypeOK, CreateInv, BootInv, Linked
    <2> QED BY <1>1, <2>3, <2>4, <2>5 DEF SchedInitCurrent, SchedInv
  <1>2. CASE SchedInitEnable
    <2>1. running = Main /\ pc[Main] = "sched_enable"
      BY <1>2 DEF SchedInitEnable, SchedInv, BootInv, TypeOK
    <2> QED BY <1>2, <2>1
            DEF SchedInitEnable, SchedInv, TypeOK, BootInv, ContextInv, RingInv, CreateInv, IrqInv,
                Linked
  <1>3. CASE Trampoline
    BY <1>3
       DEF Trampoline, SchedInv, TypeOK, BootInv, ContextInv, RingInv, CreateInv, IrqInv, Linked
  <1> QED BY <1>1, <1>2, <1>3

LEMMA CreatePreserves ==
    ASSUME SchedInv, Create
    PROVE  SchedInv'
  <1> USE SchedAssumption DEF At, Goto, sched, intr, PcValues, NoLocals, arch_thread_init_stack
  <1>1. ASSUME NEW n \in Threads, CreateThread(n)
        PROVE  SchedInv'
    <2>1. n # running /\ next[n] = None /\ n # Main
      BY <1>1 DEF CreateThread, SchedInv, RingInv, BootInv, Linked
    <2>2. TypeOK'
      BY <1>1, <2>1 DEF CreateThread, SchedInv, TypeOK
    <2>3. BootInv' /\ RingInv'
      BY <1>1, <2>1 DEF CreateThread, SchedInv, TypeOK, BootInv, RingInv, Linked
    <2>4. ContextInv' /\ IrqInv'
      BY <1>1, <2>1 DEF CreateThread, SchedInv, TypeOK, ContextInv, IrqInv
    <2>5. CreateInv'
      BY <1>1, <2>1 DEF CreateThread, SchedInv, TypeOK, CreateInv, Linked
    <2> QED BY <1>1, <2>2, <2>3, <2>4, <2>5 DEF CreateThread, SchedInv
  <1>2. CASE CreateRead
    <2>1. current = running /\ running \in Linked /\ next[current] \in Linked
      BY <1>2 DEF CreateRead, SchedInv, BootInv, RingInv, TypeOK
    <2> QED BY <1>2, <2>1
            DEF CreateRead, SchedInv, TypeOK, BootInv, ContextInv, RingInv, CreateInv, IrqInv,
                Linked
  <1>3. CASE CreateLink
    <2> DEFINE n == loc[running].t
    <2>1. n \in Threads /\ pc[n] # "none" /\ loc[running].tmp \in Linked
      BY <1>3 DEF CreateLink, SchedInv, CreateInv, TypeOK
    <2>2. Linked' = Linked \cup {n} /\ next' = [next EXCEPT ![n] = loc[running].tmp]
      BY <1>3, <2>1 DEF CreateLink, SchedInv, TypeOK, Linked
    <2>3. pc[Main] # "sched_init"
      BY <1>3 DEF CreateLink, SchedInv, BootInv
    <2> HIDE DEF n
    <2>4. RingInv'
      BY <1>3, <2>1, <2>2 DEF CreateLink, SchedInv, TypeOK, RingInv, Linked
    <2>5. ContextInv' /\ IrqInv'
      BY <1>3 DEF CreateLink, SchedInv, TypeOK, ContextInv, IrqInv
    <2>8. TypeOK'
      <3>1. next' \in [Threads -> Threads \cup {None}]
        BY <2>1, <2>2 DEF SchedInv, TypeOK, Linked
      <3> QED BY <1>3, <3>1 DEF CreateLink, SchedInv, TypeOK
    <2>6. BootInv'
      BY <1>3, <2>1, <2>2, <2>3 DEF CreateLink, SchedInv, TypeOK, BootInv, Linked
    <2>7. CreateInv'
      BY <1>3, <2>1, <2>2 DEF CreateLink, SchedInv, TypeOK, CreateInv, Linked, n
    <2> QED BY <1>3, <2>4, <2>5, <2>6, <2>7, <2>8 DEF CreateLink, SchedInv
  <1>4. CASE CreatePublish
    <2> DEFINE n == loc[running].t
    <2>1. /\ n \in Threads /\ n \in Linked /\ current = running /\ running \in Linked
          /\ running \in Threads /\ pc[Main] # "sched_init"
      BY <1>4 DEF CreatePublish, SchedInv, CreateInv, BootInv, RingInv, TypeOK, Linked
    <2>2. Linked' = Linked /\ next' = [next EXCEPT ![running] = n]
      BY <1>4, <2>1 DEF CreatePublish, SchedInv, TypeOK, Linked
    <2> HIDE DEF n
    <2>3. RingInv'
      BY <1>4, <2>1, <2>2 DEF CreatePublish, SchedInv, TypeOK, RingInv
    <2>4. TypeOK' /\ ContextInv' /\ IrqInv'
      BY <1>4, <2>1, <2>2 DEF CreatePublish, SchedInv, TypeOK, ContextInv, IrqInv
    <2>5. BootInv'
      BY <1>4, <2>1, <2>2 DEF CreatePublish, SchedInv, TypeOK, BootInv
    <2>6. CreateInv'
      BY <1>4, <2>1, <2>2 DEF CreatePublish, SchedInv, TypeOK, CreateInv, Linked
    <2> QED BY <1>4, <2>3, <2>4, <2>5, <2>6 DEF CreatePublish, SchedInv
  <1> QED BY <1>1, <1>2, <1>3, <1>4 DEF Create

LEMMA SchedPreserved == SchedInv /\ [Next]_vars => SchedInv'
  <1> SUFFICES ASSUME SchedInv, [Next]_vars PROVE SchedInv'
    OBVIOUS
  <1>1. CASE UNCHANGED vars
    BY <1>1
       DEF vars, SchedInv, TypeOK, BootInv, ContextInv, RingInv, CreateInv, IrqInv, Linked
  <1> QED BY <1>1, InterruptPreserves, HandlerPreserves, BootStepPreserves, CreatePreserves
          DEF Next, ThreadStep

\* Whatever instant the timer strikes at, in sched_init, in thread_create or in
\* a thread's body: every suspended thread in the ring keeps a context on its
\* own stack, no dangling stack pointer is ever loaded, and thread bodies run
\* with interrupts enabled.
THEOREM SchedSafety ==
    Spec => [](TypeOK /\ ContextsOwn /\ BodyPreemptible)
  <1>1. SchedInv /\ [Next]_vars => SchedInv'
    BY SchedPreserved
  <1>2. SchedInv => TypeOK /\ ContextsOwn /\ BodyPreemptible
    <2> SUFFICES ASSUME SchedInv
                 PROVE  TypeOK /\ ContextsOwn /\ BodyPreemptible
      OBVIOUS
    <2>1. ~crashed /\ TypeOK
      BY DEF SchedInv
    <2>2. BodyPreemptible
      BY DEF SchedInv, BodyPreemptible, At, IrqInv, TypeOK
    <2>3. current # None => running = current
      BY DEF SchedInv, BootInv
    <2>4. ASSUME NEW t \in Linked \ {current} PROVE sp[t] = t
      BY <2>4, SchedAssumption DEF SchedInv, BootInv, RingInv, ContextInv, Linked, TypeOK
    <2> QED BY <2>1, <2>2, <2>3, <2>4 DEF ContextsOwn
  <1> QED BY <1>1, <1>2, InitSchedInv, PTL DEF Spec

\* The scheduler's state keeps its type: next always leads to a thread of the
\* kernel or nowhere, and every saved stack pointer is one of a thread's stack.
THEOREM SchedTypes == Spec => []TypeOK
  BY SchedSafety, PTL

\* A thread that runs its own code has interrupts on, so the timer can always
\* take the CPU from it: a new thread is first entered with interrupts off, from
\* the timer handler, and thread_trampoline turns them on.
THEOREM SchedPreemptible == Spec => []BodyPreemptible
  BY SchedSafety, PTL

-----------------------------------------------------------------------------
(* The ring.                                                               *)

Making == {"create_read", "create_link", "create_publish"}

\* The threads thread_create has published: linked, and not still in the
\* locals of the thread that creates them.
Ring == {t \in Linked : \A c \in Threads : pc[c] = "create_publish" => loc[c].t # t}

\* Following next permutes the ring, and no part of the ring is a cycle of its
\* own: a set of its threads that next does not leave is the whole ring.
OneCycle(R, nx) ==
    /\ \A t \in R : nx[t] \in R
    /\ \A s, t \in R : nx[s] = nx[t] => s = t
    /\ \A S \in SUBSET R : S # {} /\ (\A t \in S : nx[t] \in S) => S = R

\* Whoever is in the middle of thread_create is itself in the ring, holds a
\* thread nobody else holds, and what it has read of its own next still holds.
MakingInv ==
    \A c \in Threads : pc[c] \in Making =>
      /\ c \in Ring
      /\ pc[c] # "create_publish" => next[loc[c].t] = None
      /\ pc[c] = "create_link" => loc[c].tmp = next[c]
      /\ pc[c] = "create_publish" => next[loc[c].t] = next[c]
      /\ \A d \in Threads : pc[d] \in Making /\ loc[d].t = loc[c].t => d = c

CycleInv ==
    /\ current # None => current \in Ring
    /\ OneCycle(Ring, next)
    /\ MakingInv

\* A thread linked behind one of the ring makes the ring larger by one.
LEMMA Inserted ==
    ASSUME NEW R \in SUBSET Threads, NEW nx \in [Threads -> Threads \cup {None}], OneCycle(R, nx),
           NEW c \in R, NEW n \in Threads \ R, nx[n] = nx[c]
    PROVE  OneCycle(R \cup {n}, [nx EXCEPT ![c] = n])
  <1> DEFINE Q == R \cup {n}
             mx == [nx EXCEPT ![c] = n]
  <1>1. mx[c] = n /\ mx[n] = nx[c] /\ (\A t \in R \ {c} : mx[t] = nx[t]) /\ c # n
    OBVIOUS
  <1>2. \A t \in R : nx[t] \in R
    BY DEF OneCycle
  <1> HIDE DEF mx
  <1>3. \A t \in Q : mx[t] \in Q
    BY <1>1, <1>2
  <1>4. ASSUME NEW s \in Q, NEW t \in Q, mx[s] = mx[t] PROVE s = t
    <2>1. \A u, v \in R : nx[u] = nx[v] => u = v
      BY DEF OneCycle
    <2> QED BY <1>1, <1>2, <1>4, <2>1
  <1>5. ASSUME NEW S \in SUBSET Q, S # {}, \A t \in S : mx[t] \in S PROVE S = Q
    <2> DEFINE T == S \ {n}
    <2>1. \A t \in T : nx[t] \in T
      BY <1>1, <1>2, <1>5
    <2>2. T # {}
      BY <1>1, <1>2, <1>5
    <2>3. T = R
      <3>1. T \in SUBSET R
        OBVIOUS
      <3> HIDE DEF T
      <3> QED BY <2>1, <2>2, <3>1 DEF OneCycle
    <2>4. c \in S /\ n \in S
      BY <1>1, <1>5, <2>3
    <2> QED BY <2>3, <2>4
  <1> HIDE DEF Q
  <1> QED BY <1>3, <1>4, <1>5 DEF OneCycle, mx, Q

LEMMA CycleInit == Init => CycleInv
  <1> SUFFICES ASSUME Init PROVE CycleInv
    OBVIOUS
  <1>1. Ring = {}
    BY DEF Init, Ring, Linked
  <1>2. OneCycle({}, next)
    BY DEF OneCycle
  <1>3. MakingInv
    BY DEF Init, MakingInv, Making
  <1> QED BY <1>1, <1>2, <1>3 DEF Init, CycleInv

\* What neither writes next nor moves a thread into or out of thread_create.
LEMMA CycleSame ==
    ASSUME CycleInv, UNCHANGED <<next, loc>>, current' # None => current' \in Ring,
           \A t \in Threads : pc'[t] # pc[t] => pc[t] \notin Making /\ pc'[t] \notin Making
    PROVE  CycleInv'
  <1>1. \A t \in Threads : /\ pc'[t] = "create_publish" <=> pc[t] = "create_publish"
                           /\ pc'[t] \in Making <=> pc[t] \in Making
                           /\ pc[t] \in Making => pc'[t] = pc[t]
    BY DEF Making
  <1>2. Ring' = Ring
    BY <1>1 DEF Ring, Linked
  <1>3. MakingInv'
    BY <1>1, <1>2 DEF CycleInv, MakingInv
  <1> QED BY <1>2, <1>3 DEF CycleInv, OneCycle

LEMMA CycleBoot ==
    ASSUME SchedInv, CycleInv, SchedInitCurrent
    PROVE  CycleInv'
  <1> USE SchedAssumption DEF At, Goto
  <1>1. running = Main /\ pc[Main] = "sched_init" /\ \A t \in Threads : next[t] = None
    BY DEF SchedInitCurrent, SchedInv, BootInv, TypeOK
  <1>2. /\ next' = [t \in Threads |-> IF t = Main THEN Main ELSE None]
        /\ pc' = [pc EXCEPT ![Main] = "sched_enable"] /\ UNCHANGED loc /\ current' = Main
    BY <1>1 DEF SchedInitCurrent, SchedInv, TypeOK
  <1>3. \A t \in Threads : pc[t] \notin Making
    BY <1>1 DEF CycleInv, MakingInv, Ring, Linked
  <1>4. \A t \in Threads : pc'[t] \notin Making
    BY <1>2, <1>3 DEF SchedInv, TypeOK, Making
  <1>5. Ring' = {Main}
    BY <1>2, <1>4 DEF Ring, Linked, Making
  <1>6. next'[Main] = Main
    BY <1>2
  <1>7. OneCycle({Main}, next')
    BY <1>6 DEF OneCycle
  <1> QED BY <1>2, <1>4, <1>5, <1>7 DEF CycleInv, MakingInv

LEMMA CycleCreate ==
    ASSUME SchedInv, CycleInv, Create
    PROVE  CycleInv'
  <1> USE SchedAssumption DEF At, Goto
  <1> DEFINE c == running
  <1>1. /\ c \in Threads /\ pc[Main] # "sched_init" /\ current = c /\ c \in Ring
        /\ UNCHANGED current
    <2>1. pc[running] \in Making \cup {"body"} /\ running \in Threads /\ UNCHANGED current
      BY DEF Create, CreateThread, CreateRead, CreateLink, CreatePublish, SchedInv, TypeOK, Making,
             sched
    <2>2. pc[Main] # "sched_init"
      BY <2>1 DEF SchedInv, BootInv, Making
    <2> QED BY <2>1, <2>2 DEF SchedInv, BootInv, CycleInv
  <1>2. ASSUME NEW n \in Threads, CreateThread(n) PROVE CycleInv'
    <2>1. n # c /\ pc[n] = "none" /\ pc[c] = "body" /\ next[n] = None
      BY <1>2 DEF CreateThread, SchedInv, RingInv, Linked
    <2>2. /\ \A t \in Threads \ {n, c} : pc'[t] = pc[t] /\ loc'[t] = loc[t]
          /\ pc'[n] = "fresh" /\ pc'[c] = "create_read" /\ loc'[c].t = n /\ UNCHANGED next
      BY <1>1, <1>2, <2>1 DEF CreateThread, SchedInv, TypeOK, sched
    <2>3. \A d \in Threads : pc[d] \in Making => loc[d].t # n /\ d \notin {n, c}
      BY <2>1 DEF SchedInv, CreateInv, Making
    <2>4. \A d \in Threads \ {c} : /\ pc'[d] \in Making <=> pc[d] \in Making
                                   /\ pc'[d] = "create_publish" <=> pc[d] = "create_publish"
                                   /\ pc[d] \in Making => pc'[d] = pc[d] /\ loc'[d] = loc[d]
      BY <2>1, <2>2 DEF Making
    <2>5. Ring' = Ring
      BY <2>1, <2>2, <2>3, <2>4 DEF Ring, Linked, Making
    <2>6. MakingInv'
      <3>1. ASSUME NEW d \in Threads, pc'[d] \in Making, d # c
            PROVE  /\ d \in Ring'
                   /\ pc'[d] # "create_publish" => next'[loc'[d].t] = None
                   /\ pc'[d] = "create_link" => loc'[d].tmp = next'[d]
                   /\ pc'[d] = "create_publish" => next'[loc'[d].t] = next'[d]
                   /\ \A e \in Threads : pc'[e] \in Making /\ loc'[e].t = loc'[d].t => e = d
        <4>1. pc[d] \in Making /\ pc'[d] = pc[d] /\ loc'[d] = loc[d] /\ loc[d].t # n
          BY <2>3, <2>4, <3>1
        <4> QED BY <2>2, <2>4, <2>5, <4>1 DEF CycleInv, MakingInv
      <3>2. \A e \in Threads : pc'[e] \in Making /\ loc'[e].t = n => e = c
        BY <2>3, <2>4
      <3> QED BY <1>1, <2>1, <2>2, <2>5, <3>1, <3>2 DEF MakingInv
    <2> QED BY <1>1, <2>2, <2>5, <2>6 DEF CycleInv, OneCycle
  <1>3. CASE CreateRead
    <2>1. /\ pc[c] = "create_read" /\ UNCHANGED next /\ loc'[c].t = loc[c].t /\ loc'[c].tmp = next[c]
          /\ pc'[c] = "create_link"
          /\ \A t \in Threads \ {c} : pc'[t] = pc[t] /\ loc'[t] = loc[t]
      BY <1>1, <1>3 DEF CreateRead, SchedInv, TypeOK, sched
    <2>2. Ring' = Ring
      BY <2>1 DEF Ring, Linked
    <2>3. MakingInv'
      BY <1>1, <2>1, <2>2 DEF CycleInv, MakingInv, Making
    <2> QED BY <1>1, <2>1, <2>2, <2>3 DEF CycleInv, OneCycle
  <1>4. CASE CreateLink
    <2> DEFINE n == loc[c].t
    <2>1. /\ pc[c] = "create_link" /\ UNCHANGED loc /\ pc'[c] = "create_publish"
          /\ n \in Threads /\ next' = [next EXCEPT ![n] = loc[c].tmp]
          /\ \A t \in Threads \ {c} : pc'[t] = pc[t]
      BY <1>1, <1>4 DEF CreateLink, SchedInv, CreateInv, TypeOK
    <2>2. next[n] = None /\ n \notin Ring /\ loc[c].tmp = next[c] /\ n # c
      BY <1>1, <2>1 DEF CycleInv, MakingInv, Making, Ring, Linked
    <2>3. \A t \in Threads \ {n} : next'[t] = next[t]
      BY <2>1 DEF SchedInv, TypeOK
    <2>4. next'[n] = next[c]
      BY <2>1, <2>2 DEF SchedInv, TypeOK
    <2>5. \A d \in Threads : pc[d] \in Making /\ d # c => loc[d].t # n
      BY <1>1, <2>1 DEF CycleInv, MakingInv, Making
    <2>6. Ring' = Ring
      BY <1>1, <2>1, <2>2, <2>3, <2>5 DEF Ring, Linked, Making
    <2>7. Ring \subseteq Threads /\ \A t \in Ring : next'[t] = next[t]
      BY <2>2, <2>3 DEF Ring, Linked
    <2>8. OneCycle(Ring, next')
      BY <2>7 DEF CycleInv, OneCycle
    <2>9. MakingInv'
      <3>1. ASSUME NEW d \in Threads, pc'[d] \in Making, d # c
            PROVE  /\ d \in Ring'
                   /\ pc'[d] # "create_publish" => next'[loc'[d].t] = None
                   /\ pc'[d] = "create_link" => loc'[d].tmp = next'[d]
                   /\ pc'[d] = "create_publish" => next'[loc'[d].t] = next'[d]
        <4>1. pc[d] \in Making /\ pc'[d] = pc[d] /\ loc'[d] = loc[d] /\ d \in Ring
          BY <2>1, <3>1 DEF CycleInv, MakingInv
        <4>2. loc[d].t \in Threads /\ next'[loc[d].t] = next[loc[d].t] /\ next'[d] = next[d]
          BY <2>3, <2>5, <2>7, <3>1, <4>1 DEF SchedInv, CreateInv, Making
        <4> QED BY <2>6, <4>1, <4>2 DEF CycleInv, MakingInv
      <3>2. \A d, e \in Threads : pc'[d] \in Making /\ pc'[e] \in Making /\ loc'[e].t = loc'[d].t => e = d
        BY <1>1, <2>1 DEF CycleInv, MakingInv, Making
      <3>3. next'[c] = next[c]
        BY <1>1, <2>2, <2>3
      <3> QED BY <1>1, <2>1, <2>4, <2>6, <3>1, <3>2, <3>3 DEF MakingInv
    <2> QED BY <1>1, <2>6, <2>8, <2>9 DEF CycleInv
  <1>5. CASE CreatePublish
    <2> DEFINE n == loc[c].t
    <2>1. /\ pc[c] = "create_publish" /\ pc'[c] = "body"
          /\ n \in Threads /\ next' = [next EXCEPT ![c] = n]
          /\ \A t \in Threads \ {c} : pc'[t] = pc[t] /\ loc'[t] = loc[t]
      BY <1>1, <1>5 DEF CreatePublish, SchedInv, CreateInv, TypeOK
    <2>2. next[n] = next[c] /\ n \notin Ring /\ next[n] # None
      BY <1>1, <2>1 DEF CycleInv, MakingInv, Making, Ring, SchedInv, CreateInv
    <2>3. \A t \in Threads \ {c} : next'[t] = next[t]
      BY <2>1 DEF SchedInv, TypeOK
    <2>4. next'[c] = n /\ n # None
      BY <1>1, <2>1 DEF SchedInv, TypeOK
    <2>5. \A d \in Threads : pc[d] \in Making /\ d # c => loc[d].t # n
      BY <1>1, <2>1 DEF CycleInv, MakingInv, Making
    <2>6. Ring' = Ring \cup {n}
      <3>1. Linked' = Linked /\ n \in Linked /\ c \in Linked
        BY <1>1, <2>2, <2>3, <2>4, <2>1 DEF Linked, Ring
      <3> QED BY <1>1, <2>1, <2>5, <3>1 DEF Ring, Making
    <2>7. OneCycle(Ring', next')
      <3>1. Ring \in SUBSET Threads /\ next \in [Threads -> Threads \cup {None}] /\ n \in Threads \ Ring
        BY <2>1, <2>2 DEF Ring, Linked, SchedInv, TypeOK
      <3> QED BY <1>1, <2>1, <2>2, <2>6, <3>1, Inserted DEF CycleInv
    <2>8. MakingInv'
      <3>1. ASSUME NEW d \in Threads, pc'[d] \in Making
            PROVE  /\ d \in Ring'
                   /\ pc'[d] # "create_publish" => next'[loc'[d].t] = None
                   /\ pc'[d] = "create_link" => loc'[d].tmp = next'[d]
                   /\ pc'[d] = "create_publish" => next'[loc'[d].t] = next'[d]
        <4>1. d # c /\ pc[d] \in Making /\ pc'[d] = pc[d] /\ loc'[d] = loc[d] /\ d \in Ring
          BY <2>1, <3>1 DEF CycleInv, MakingInv, Making
        <4>2. loc[d].t \in Threads /\ loc[d].t # c
          BY <1>1, <4>1 DEF SchedInv, CreateInv, Making, CycleInv, MakingInv, Ring, Linked
        <4> QED BY <2>3, <2>6, <4>1, <4>2 DEF CycleInv, MakingInv
      <3>2. \A d, e \in Threads : pc'[d] \in Making /\ pc'[e] \in Making /\ loc'[e].t = loc'[d].t => e = d
        BY <1>1, <2>1 DEF CycleInv, MakingInv, Making
      <3> QED BY <3>1, <3>2 DEF MakingInv
    <2> QED BY <1>1, <2>6, <2>7, <2>8 DEF CycleInv
  <1> QED BY <1>2, <1>3, <1>4, <1>5 DEF Create

LEMMA CyclePreserved == SchedInv /\ CycleInv /\ [Next]_vars => CycleInv'
  <1> SUFFICES ASSUME SchedInv, CycleInv, [Next]_vars PROVE CycleInv'
    OBVIOUS
  <1>1. CASE UNCHANGED vars \/ TimerExpires \/ IrqEnter \/ IrqReturn
    <2>1. UNCHANGED <<current, next, loc, pc>>
      BY <1>1 DEF vars, TimerExpires, IrqEnter, IrqReturn, sched
    <2> QED BY <2>1, CycleSame DEF CycleInv
  <1>2. CASE IrqHandler
    <2>1. UNCHANGED <<next, loc, pc>>
      BY <1>2 DEF IrqHandler
    <2>2. current' \in {current, next[current]}
      BY <1>2 DEF IrqHandler, sched_tick, sched_yield, switch_to, NoSwitch
    <2>3. sched_enabled => current # None
      BY SchedAssumption DEF SchedInv, BootInv, TypeOK
    <2>4. current' # None => current' \in Ring
      <3>1. CASE current # None
        BY <2>2, <3>1 DEF CycleInv, OneCycle
      <3>2. CASE current = None
        BY <1>2, <2>3, <3>2 DEF IrqHandler, sched_tick, NoSwitch
      <3> QED BY <3>1, <3>2
    <2> QED BY <2>1, <2>4, CycleSame
  <1>3. CASE SchedInitEnable \/ Trampoline
    <2>1. UNCHANGED <<current, next, loc>>
      BY <1>3 DEF SchedInitEnable, Trampoline, sched
    <2>2. \A t \in Threads : pc'[t] # pc[t] => pc[t] \notin Making /\ pc'[t] \notin Making
      BY <1>3 DEF SchedInitEnable, Trampoline, At, Goto, Making, SchedInv, TypeOK
    <2> QED BY <2>1, <2>2, CycleSame DEF CycleInv
  <1> QED BY <1>1, <1>2, <1>3, CycleBoot, CycleCreate DEF Next, ThreadStep

-----------------------------------------------------------------------------
(* Following next from the current thread finds the whole ring.            *)

\* Every set of natural numbers that is not empty has a least element.
LEMMA LeastNat ==
    ASSUME NEW T \in SUBSET Nat, T # {}
    PROVE  \E m \in T : \A n \in T : m <= n
<1>1. PICK m \in T : \A n \in T : <<n, m>> \notin OpToRel(<, Nat)
  BY NatLessThanWellFounded, WFMin
<1>2. ASSUME NEW n \in T, n < m
      PROVE  <<n, m>> \in OpToRel(<, Nat)
  <2>1. <<n, m>> \in Nat \X Nat
    OBVIOUS
  <2>2. <<n, m>>[1] < <<n, m>>[2]
    BY <1>2
  <2> QED BY <2>1, <2>2 DEF OpToRel
<1>3. \A n \in T : ~(n < m)
  BY <1>1, <1>2
<1> QED BY <1>3

\* One more step along next.
Further(T, nx) == T \cup {nx[t] : t \in T \cap Threads}

IsAhead(N, a, nx, g) == g = [n \in 0 .. N |-> IF n = 0 THEN {a} ELSE Further(g[n - 1], nx)]

LEMMA AheadExists ==
    ASSUME NEW N \in Nat, NEW a, NEW nx
    PROVE  \E g : IsAhead(N, a, nx, g)
<1> DEFINE T == {n \in 0 .. N : ~\E g : IsAhead(n, a, nx, g)}
<1>1. SUFFICES T = {}
  <2>1. N \in 0 .. N
    OBVIOUS
  <2> QED BY <2>1
<1>2. SUFFICES ASSUME T # {} PROVE FALSE
  OBVIOUS
<1>3. T \in SUBSET Nat
  OBVIOUS
<1>4. PICK m \in T : \A j \in T : m <= j
  BY <1>2, <1>3, LeastNat
<1>5. m \in 0 .. N /\ ~\E g : IsAhead(m, a, nx, g)
  OBVIOUS
<1>6. CASE m = 0
  <2> DEFINE h == [n \in 0 .. 0 |-> {a}]
  <2>1. IsAhead(0, a, nx, h)
    BY DEF IsAhead
  <2> QED BY <1>5, <1>6, <2>1
<1>7. CASE m # 0
  <2>1. m - 1 \in 0 .. N /\ m - 1 \notin T
    <3>1. m - 1 \in 0 .. N /\ ~(m <= m - 1)
      BY <1>5, <1>7
    <3> HIDE DEF T
    <3> QED BY <1>4, <3>1
  <2>2. PICK g : IsAhead(m - 1, a, nx, g)
    BY <2>1
  <2> DEFINE h == [n \in 0 .. m |-> IF n < m THEN g[n] ELSE Further(g[m - 1], nx)]
  <2>3. ASSUME NEW n \in 0 .. m
        PROVE  h[n] = IF n = 0 THEN {a} ELSE Further(h[n - 1], nx)
    <3>1. n # 0 => h[n - 1] = g[n - 1]
      BY <1>5
    <3>2. CASE n < m
      <4>1. n \in 0 .. m - 1 /\ h[n] = g[n]
        BY <1>5, <3>2
      <4> QED BY <2>2, <3>1, <4>1 DEF IsAhead
    <3>3. CASE n = m
      <4>1. h[n] = Further(g[n - 1], nx)
        BY <1>5, <3>3
      <4> QED BY <1>7, <3>1, <3>3, <4>1
    <3> QED BY <1>5, <3>2, <3>3
  <2>4. IsAhead(m, a, nx, h)
    <3>1. h = [n \in 0 .. m |-> h[n]]
      OBVIOUS
    <3> HIDE DEF h
    <3> QED BY <2>3, <3>1 DEF IsAhead
  <2> QED BY <1>5, <2>4
<1> QED BY <1>6, <1>7

LEMMA AheadIs == IsAhead(Cardinality(Threads), current, next, Ahead)
<1>1. Cardinality(Threads) \in Nat
  BY SchedAssumption, FS_CardinalityType
<1>2. PICK N, a, nx : N = Cardinality(Threads) /\ a = current /\ nx = next
  OBVIOUS
<1>3. \E g : IsAhead(N, a, nx, g)
  BY <1>1, <1>2, AheadExists
<1>4. \E g : IsAhead(Cardinality(Threads), current, next, g)
  BY <1>2, <1>3
<1> QED BY <1>4 DEF IsAhead, Further, Ahead

\* Every step finds a thread more, until there is no other to find.
LEMMA AheadFinds ==
    ASSUME NEW R \in SUBSET Threads, NEW nx, OneCycle(R, nx), NEW a \in R, NEW g,
           IsAhead(Cardinality(Threads), a, nx, g)
    PROVE  g[Cardinality(Threads)] = R
<1> DEFINE N == Cardinality(Threads)
           Closed(S) == \A t \in S : nx[t] \in S
           Good(n) == /\ g[n] \in SUBSET R /\ a \in g[n]
                      /\ Closed(g[n]) \/ Cardinality(g[n]) > n
           T == {n \in 0 .. N : ~Good(n)}
<1>1. N \in Nat /\ IsFiniteSet(R)
  BY SchedAssumption, FS_CardinalityType, FS_Subset
<1>2. g[0] = {a} /\ \A n \in 1 .. N : g[n] = Further(g[n - 1], nx)
  <2>1. \A n \in 0 .. N : g[n] = IF n = 0 THEN {a} ELSE Further(g[n - 1], nx)
    BY DEF IsAhead
  <2> HIDE DEF N
  <2> QED BY <1>1, <2>1
<1> HIDE DEF N
<1>3. Good(0)
  <2>1. Cardinality({a}) = 1
    BY FS_Singleton
  <2>2. Cardinality(g[0]) > 0 /\ g[0] \in SUBSET R /\ a \in g[0]
    BY <1>2, <2>1
  <2> QED BY <2>2
<1>4. ASSUME NEW n \in 1 .. N, Good(n - 1) PROVE Good(n)
  <2> DEFINE P == g[n - 1]
             Q == g[n]
  <2>1. Q = P \cup {nx[t] : t \in P} /\ P \in SUBSET R /\ a \in P
    BY <1>2, <1>4 DEF Further
  <2>2. Q \in SUBSET R /\ a \in Q /\ P \in SUBSET Q
    BY <2>1 DEF OneCycle
  <2>3. CASE Closed(P)
    BY <2>1, <2>2, <2>3
  <2>4. CASE ~Closed(P)
    <3>1. Cardinality(P) > n - 1 /\ P # Q
      BY <1>4, <2>1, <2>4
    <3>2. IsFiniteSet(Q) /\ IsFiniteSet(P)
      BY <1>1, <2>1, <2>2, FS_Subset
    <3> HIDE DEF P, Q
    <3>3. /\ Cardinality(P) <= Cardinality(Q) /\ Cardinality(P) # Cardinality(Q)
          /\ Cardinality(P) \in Nat /\ Cardinality(Q) \in Nat
      BY <2>2, <3>1, <3>2, FS_Subset, FS_CardinalityType
    <3>4. Cardinality(Q) > n
      BY <1>1, <3>1, <3>3
    <3> QED BY <2>2, <3>4 DEF Q
  <2> QED BY <2>3, <2>4
<1> HIDE DEF Good
<1>5. Good(N)
  <2>1. SUFFICES ASSUME T # {} PROVE FALSE
    BY <1>1
  <2>2. PICK m \in T : \A j \in T : m <= j
    <3>1. T \in SUBSET Nat
      OBVIOUS
    <3> HIDE DEF T
    <3> QED BY <2>1, <3>1, LeastNat
  <2>3. m \in 1 .. N /\ ~Good(m)
    BY <1>1, <1>3
  <2>4. m - 1 \in 0 .. N /\ ~(m <= m - 1)
    BY <1>1, <2>3
  <2>5. Good(m - 1)
    BY <2>2, <2>4
  <2> QED BY <1>4, <2>3, <2>5
<1>6. Cardinality(g[N]) <= N /\ Cardinality(g[N]) \in Nat
  <2>1. g[N] \in SUBSET Threads
    BY <1>5 DEF Good
  <2> QED BY <2>1, SchedAssumption, FS_Subset, FS_CardinalityType DEF N
<1>7. g[N] \in SUBSET R /\ g[N] # {} /\ \A t \in g[N] : nx[t] \in g[N]
  BY <1>1, <1>5, <1>6 DEF Good
<1> QED BY <1>7 DEF OneCycle, N

LEMMA CycleIsWhole == SchedInv /\ CycleInv => RingWhole
<1> SUFFICES ASSUME SchedInv, CycleInv, current # None PROVE RingWhole
  BY DEF RingWhole
<1>1. Ring \in SUBSET Threads /\ current \in Ring /\ OneCycle(Ring, next)
  BY DEF CycleInv, Ring, Linked
<1>2. Ahead[Cardinality(Threads)] = Ring
  <2>1. PICK R, nx, a, g : R = Ring /\ nx = next /\ a = current /\ g = Ahead
    OBVIOUS
  <2>2. /\ R \in SUBSET Threads /\ a \in R /\ OneCycle(R, nx)
        /\ IsAhead(Cardinality(Threads), a, nx, g)
    BY <1>1, <2>1, AheadIs
  <2>3. g[Cardinality(Threads)] = R
    BY <2>2, AheadFinds
  <2> QED BY <2>1, <2>3
<1>3. Ring \subseteq Linked /\ \A s, t \in Ring : next[s] = next[t] => s = t
  BY <1>1 DEF Ring, OneCycle
<1>4. ASSUME NEW t \in Linked
      PROVE  t \in Ring \/ \E c \in Ring : loc[c].t = t /\ pc[c] = "create_publish"
  BY DEF Ring, CycleInv, MakingInv, Making
<1> QED BY <1>2, <1>3, <1>4 DEF RingWhole

\* However the timer cuts thread_create short, and however many threads create
\* at once, the ring sched_yield walks stays one cycle through every thread whose
\* creation is complete: none is lost, none is skipped.
THEOREM RingSafe == Spec => []RingWhole
<1>1. SchedInv /\ [Next]_vars => SchedInv'
  BY SchedPreserved
<1> QED BY <1>1, InitSchedInv, CycleInit, CyclePreserved, CycleIsWhole, PTL DEF Spec
=============================================================================
