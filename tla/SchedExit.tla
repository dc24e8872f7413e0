----------------------------- MODULE SchedExit -----------------------------
(***************************************************************************)
(* The operations of kernel/sched.c that end or give up a thread's turn    *)
(* from thread level, with interrupts on: thread_exit, which the           *)
(* trampoline calls when a thread's entry returns, and sched_yield.  The   *)
(* rest is Sched.  One access to shared state per step.                    *)
(***************************************************************************)
EXTENDS Sched

VARIABLE gone       \* history: threads that have unlinked themselves

exitVars == <<vars, gone>>

ExitInit == Init /\ gone = {}

-----------------------------------------------------------------------------
(* thread_exit.  loc.tmp is dead; loc.t is p, then target.                 *)

\* dead = current, dead->state = THREAD_DEAD, p = dead.  The boot context has
\* no trampoline to return to.
ExitBegin ==
    /\ At("body")
    /\ running # Main
    /\ loc' = [loc EXCEPT ![running] = [t |-> current, tmp |-> current]]
    /\ Goto("exit_walk")
    /\ UNCHANGED <<sched, sp, running, intr, crashed, gone>>

\* while (p->next != dead) p = p->next.
ExitWalk ==
    /\ At("exit_walk")
    /\ next[loc[running].t] # loc[running].tmp
    /\ loc' = [loc EXCEPT ![running].t = next[@]]
    /\ UNCHANGED <<sched, sp, running, pc, intr, crashed, gone>>

\* p->next = dead->next.
ExitUnlink ==
    /\ At("exit_walk")
    /\ LET l == loc[running]
       IN  /\ next[l.t] = l.tmp
           /\ next' = [next EXCEPT ![l.t] = next[l.tmp]]
           /\ gone' = gone \cup {l.tmp}
    /\ Goto("exit_current")
    /\ UNCHANGED <<current, sched_enabled, sp, running, loc, intr, crashed>>

\* target = dead->next, current = target.
ExitCurrent ==
    /\ At("exit_current")
    /\ current' = next[loc[running].tmp]
    /\ loc' = [loc EXCEPT ![running].t = current']
    /\ Goto("exit_switch")
    /\ UNCHANGED <<sched_enabled, next, sp, running, intr, crashed, gone>>

ExitSwitch ==
    /\ At("exit_switch")
    /\ arch_context_switch(loc[running].tmp, loc[running].t)
    /\ UNCHANGED <<sched, pc, loc, intr, gone>>

thread_exit == ExitBegin \/ ExitWalk \/ ExitUnlink \/ ExitCurrent \/ ExitSwitch

-----------------------------------------------------------------------------
(* sched_yield from a thread: switch_to cut at its accesses.  loc.tmp is   *)
(* prev, loc.t is next.                                                    *)

YieldCurrent ==
    /\ At("body")
    /\ current # None /\ next[current] # current
    /\ loc' = [loc EXCEPT ![running] = [t |-> next[current], tmp |-> current]]
    /\ current' = next[current]
    /\ Goto("yield_switch")
    /\ UNCHANGED <<sched_enabled, next, sp, running, intr, crashed, gone>>

YieldSwitch ==
    /\ At("yield_switch")
    /\ arch_context_switch(loc[running].tmp, loc[running].t)
    /\ Goto("body")
    /\ loc' = [loc EXCEPT ![running] = NoLocals]
    /\ UNCHANGED <<sched, intr, gone>>

-----------------------------------------------------------------------------
ExitNext ==
    \/ Next /\ UNCHANGED gone
    \/ thread_exit
    \/ YieldCurrent \/ YieldSwitch

ExitSpec == ExitInit /\ [][ExitNext]_exitVars

\* "Unlink from the ring so it's never picked again" (kernel/sched.c:80): no
\* switch resumes a thread that has unlinked itself.
NeverPickedAgain == [][\A t \in gone : running' = t => running = t]_exitVars
=============================================================================
