------------------------------ MODULE PmmAlloc ------------------------------
(***************************************************************************)
(* The frame allocator with the search of pmm_alloc_frames spelled out:    *)
(* Pmm with the loop of PmmScan run on its bitmap, where Pmm itself takes  *)
(* the run in one step.  Nothing else calls the allocator during a call.   *)
(***************************************************************************)
EXTENDS Pmm, PmmScan

alloc_vars == <<vars, scan_vars>>

\* No call of pmm_alloc_frames is under way.
NoCall ==
    /\ scan_pc = "idle"
    /\ scan_frames = 0 /\ scan_used = {} /\ scan_count = 0
    /\ scan_f = 0 /\ run_start = 0 /\ run_len = 0 /\ scan_i = 0
    /\ scan_result = -1 /\ scan_before = {}

AllocInit == Init /\ NoCall

\* pmm_alloc_frames(count) is entered: the loop reads the allocator's bitmap.
CallScan(count) ==
    /\ boot = "ready"
    /\ scan_pc = "idle"
    /\ scan_pc' = "scan"
    /\ scan_frames' = total_frames
    /\ scan_used' = used
    /\ scan_count' = count
    /\ scan_before' = used
    /\ UNCHANGED <<vars, scan_f, run_start, run_len, scan_i, scan_result>>

\* It returns: the bits the loop has set are the allocator's, and
\* free_frames -= count goes with a run that was found.
ReturnScan ==
    /\ scan_pc = "done"
    /\ IF scan_result = -1 THEN UNCHANGED vars
       ELSE Grant(Run(scan_result, scan_count)) /\ used' = scan_used
    /\ scan_pc' = "idle"
    /\ scan_frames' = 0 /\ scan_used' = {} /\ scan_count' = 0
    /\ scan_f' = 0 /\ run_start' = 0 /\ run_len' = 0 /\ scan_i' = 0
    /\ scan_result' = -1 /\ scan_before' = {}

\* Everything but pmm_alloc_frames is one step of Pmm.
OtherCall ==
    \/ ScanEntry \/ ScanDone \/ arch_mm_init
    \/ PmmSize \/ MarkRegion \/ MarkReserved
    \/ pmm_alloc_frame
    \/ \E f \in 0 .. total_frames : pmm_free_frame(f)
    \/ \E f \in 0 .. total_frames, count \in Counts : pmm_free_frames(f, count)
    \/ \E f \in held : zeroed_table(f)

AllocNext ==
    \/ scan_pc = "idle" /\ OtherCall /\ UNCHANGED scan_vars
    \/ \E count \in Counts : CallScan(count)
    \/ ScanNext /\ UNCHANGED vars
    \/ ReturnScan

\* The loop, once entered, goes on (no fairness of the callers is assumed).
AllocSpec ==
    AllocInit /\ [][AllocNext]_alloc_vars /\ WF_alloc_vars(ScanNext /\ UNCHANGED vars)
=============================================================================
