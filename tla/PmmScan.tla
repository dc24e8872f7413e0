------------------------------ MODULE PmmScan ------------------------------
(***************************************************************************)
(* The search loop of pmm_alloc_frames (mm/pmm.c:94-119), one loop         *)
(* iteration per step.  Pmm uses its result as one atomic choice, "the     *)
(* lowest run of count free frames"; PmmAlloc runs the loop in its place.  *)
(* pmm_alloc_frame is the same search with count = 1.                      *)
(***************************************************************************)
EXTENDS Integers

VARIABLES
    scan_pc,        \* "scan", "mark", "done" ("idle" between calls, PmmAlloc)
    scan_frames,    \* total_frames
    scan_used,      \* frames whose bit is 1
    scan_count,     \* the argument
    scan_f,         \* loop variable of the search
    run_start,
    run_len,
    scan_i,         \* loop variable of the inner loop that sets the bits
    scan_result,    \* frame returned, or -1 where the code returns address 0
    scan_before     \* history: scan_used when the call was made

scan_vars == <<scan_pc, scan_frames, scan_used, scan_count, scan_f, run_start, run_len, scan_i,
               scan_result, scan_before>>

Run(g, n) == g .. g + n - 1

\* g starts a run of n frames that were free when the call was made.
FreeRun(g, n) == g >= 0 /\ g + n <= scan_frames /\ Run(g, n) \cap scan_before = {}

\* count == 0 returns 0 before the loop, and so does the end of the loop.
GiveUp ==
    /\ scan_pc = "scan"
    /\ scan_count = 0 \/ scan_f >= scan_frames
    /\ scan_pc' = "done"
    /\ UNCHANGED <<scan_frames, scan_used, scan_count, scan_f, run_start, run_len, scan_i,
                   scan_result, scan_before>>

\* Mutant of BitSet: the search does not move past a used frame.
BitSetStuck ==
    /\ scan_pc = "scan"
    /\ scan_count # 0 /\ scan_f < scan_frames
    /\ scan_f \in scan_used
    /\ run_len' = 0
    /\ UNCHANGED <<scan_pc, scan_frames, scan_used, scan_count, scan_f, run_start, scan_i,
                   scan_result, scan_before>>

\* A set bit ends the run.
BitSet ==
    /\ scan_pc = "scan"
    /\ scan_count # 0 /\ scan_f < scan_frames
    /\ scan_f \in scan_used
    /\ run_len' = 0
    /\ scan_f' = scan_f + 1
    /\ UNCHANGED <<scan_pc, scan_frames, scan_used, scan_count, run_start, scan_i,
                   scan_result, scan_before>>

\* Mutant of BitClear: the run is taken one frame too early.
BitClearEarly ==
    /\ scan_pc = "scan"
    /\ scan_count # 0 /\ scan_f < scan_frames
    /\ scan_f \notin scan_used
    /\ run_start' = IF run_len = 0 THEN scan_f ELSE run_start
    /\ run_len' = run_len + 1
    /\ IF run_len' >= scan_count - 1
       THEN /\ scan_pc' = "mark" /\ scan_i' = run_start' /\ scan_f' = scan_f
       ELSE /\ scan_pc' = scan_pc /\ scan_i' = scan_i    /\ scan_f' = scan_f + 1
    /\ UNCHANGED <<scan_frames, scan_used, scan_count, scan_result, scan_before>>

\* A clear bit starts or extends the run; the run is taken when long enough.
BitClear ==
    /\ scan_pc = "scan"
    /\ scan_count # 0 /\ scan_f < scan_frames
    /\ scan_f \notin scan_used
    /\ run_start' = IF run_len = 0 THEN scan_f ELSE run_start
    /\ run_len' = run_len + 1
    /\ IF run_len' = scan_count
       THEN /\ scan_pc' = "mark" /\ scan_i' = run_start' /\ scan_f' = scan_f
       ELSE /\ scan_pc' = scan_pc /\ scan_i' = scan_i    /\ scan_f' = scan_f + 1
    /\ UNCHANGED <<scan_frames, scan_used, scan_count, scan_result, scan_before>>

\* The inner loop sets the bits of the run; then its start is returned.
BitSetLoop ==
    /\ scan_pc = "mark"
    /\ IF scan_i < run_start + scan_count
       THEN /\ scan_used' = scan_used \cup {scan_i} /\ scan_i' = scan_i + 1
            /\ UNCHANGED <<scan_pc, scan_result>>
       ELSE /\ scan_pc' = "done" /\ scan_result' = run_start
            /\ UNCHANGED <<scan_used, scan_i>>
    /\ UNCHANGED <<scan_frames, scan_count, scan_f, run_start, run_len, scan_before>>

ScanNext == GiveUp \/ BitSet \/ BitClear \/ BitSetLoop

-----------------------------------------------------------------------------
\* The call returns the lowest run of count frames that were free when it was
\* made, and fails only when there is none (or count is 0).
FirstRunFound ==
    scan_pc = "done" =>
      IF scan_result = -1
      THEN scan_count = 0 \/ \A g \in 0 .. scan_frames : ~FreeRun(g, scan_count)
      ELSE /\ FreeRun(scan_result, scan_count)
           /\ \A g \in 0 .. scan_frames : FreeRun(g, scan_count) => scan_result <= g

\* Exactly the bits of the run returned have changed.
OnlyRunMarked ==
    scan_pc = "done" =>
      scan_used = scan_before \cup (IF scan_result = -1 THEN {} ELSE Run(scan_result, scan_count))

\* Every call of pmm_alloc_frames returns.
Returns == scan_pc = "scan" ~> scan_pc = "done"
=============================================================================
