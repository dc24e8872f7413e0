----------------------------- MODULE VirtioProbe -----------------------------
(***************************************************************************)
(* Finding the virtio devices: virtio_mmio_probe_nth (virtio.c),           *)
(* virtio_blk_init and the scan of virtio_input_init, over any machine.    *)
(* The code runs in one thread during boot (see Boot); one probe is one    *)
(* step.  A probe resets the device and gives it new rings, so the rings a *)
(* virtio_device_t points to are the device's only until the next probe.   *)
(***************************************************************************)
EXTENDS Naturals, FiniteSets, FiniteSetsExt

CONSTANTS
    SLOTS       \* mmio slots, 32

Slots == 0 .. SLOTS - 1
NoSlot == SLOTS

\* What sits in a slot: nothing, a block device, or an input device known by
\* its name; a device may be one the probe turns down, before or after the
\* reset (legacy version; features or queue size refused).
Kinds  == {"none", "blk", "Keyboard", "Mouse", "Tablet"}
Faults == {"ok", "legacy", "refuses"}

VARIABLES
    machine,    \* slot -> [kind, fault]
    frames,     \* frames the PMM has left
    probes,     \* probes that got as far as new rings
    rings,      \* slot -> the rings the device works on, 0 for none
    blk, kbd, mouse,    \* the three virtio_device_t: [slot, rings]
    pc,
    i           \* loop variable of the scan

Absent == [slot |-> NoSlot, rings |-> 0]
Present(d) == d.slot # NoSlot

ProbeInit ==
    /\ probes = 0
    /\ rings = [s \in Slots |-> 0]
    /\ blk = Absent /\ kbd = Absent /\ mouse = Absent
    /\ pc = "blk" /\ i = 0

Matches(s, block) ==
    /\ machine[s].kind # "none"
    /\ block <=> machine[s].kind = "blk"

\* Mutant of find_slot: the slot before the one asked for, when there is one.
find_slot_short(block, index) ==
    LET M == {s \in Slots : Matches(s, block) /\
                Cardinality({t \in Slots : t < s /\ Matches(t, block)}) + 1 = index}
    IN  IF M = {} THEN NoSlot ELSE Min(M)

\* The index-th slot with that device ID.
find_slot(block, index) ==
    LET M == {s \in Slots : Matches(s, block) /\
                Cardinality({t \in Slots : t < s /\ Matches(t, block)}) = index}
    IN  IF M = {} THEN NoSlot ELSE Min(M)

\* virtio_mmio_probe_nth.  The reset detaches the rings the device had; what
\* frames a failing probe took are not given back.
probe(s) ==
    LET reset == s # NoSlot /\ machine[s].fault # "legacy"
        asks  == s # NoSlot /\ machine[s].fault = "ok"
        ok    == asks /\ frames >= 3
    IN  /\ probes' = IF ok THEN probes + 1 ELSE probes
        /\ rings' = IF ok THEN [rings EXCEPT ![s] = probes'] 
                    ELSE IF reset THEN [rings EXCEPT ![s] = 0] ELSE rings
        /\ frames' = IF ok THEN frames - 3 ELSE IF asks THEN 0 ELSE frames

Probed == probes' > probes

virtio_blk_init ==
    /\ pc = "blk"
    /\ LET s == find_slot(TRUE, 0)
       IN  /\ probe(s)
           /\ blk' = IF Probed THEN [slot |-> s, rings |-> probes'] ELSE blk
    /\ pc' = "scan"
    /\ UNCHANGED <<machine, kbd, mouse, i>>

\* Mutant of Scan: the scan starts over after each claim.
ScanAgain ==
    /\ pc = "scan"
    /\ ~(Present(kbd) /\ Present(mouse))
    /\ LET s == find_slot(FALSE, i)
           claim == [slot |-> s, rings |-> probes']
           isKbd == Probed /\ ~Present(kbd) /\ machine[s].kind = "Keyboard"
           isMouse == Probed /\ ~isKbd /\ ~Present(mouse) /\ machine[s].kind = "Mouse"
       IN  /\ probe(s)
           /\ kbd' = IF isKbd THEN claim ELSE kbd
           /\ mouse' = IF isMouse THEN claim ELSE mouse
           /\ i' = IF isKbd \/ isMouse THEN 0 ELSE i + 1
           /\ pc' = IF Probed THEN "scan" ELSE "done"
    /\ UNCHANGED <<machine, blk>>

\* Mutant of Scan: a device that fails to probe does not end the loop.
ScanOn ==
    /\ pc = "scan"
    /\ ~(Present(kbd) /\ Present(mouse))
    /\ LET s == find_slot(FALSE, i)
           claim == [slot |-> s, rings |-> probes']
           isKbd == Probed /\ ~Present(kbd) /\ machine[s].kind = "Keyboard"
           isMouse == Probed /\ ~isKbd /\ ~Present(mouse) /\ machine[s].kind = "Mouse"
       IN  /\ probe(s)
           /\ kbd' = IF isKbd THEN claim ELSE kbd
           /\ mouse' = IF isMouse THEN claim ELSE mouse
           /\ i' = IF s = NoSlot THEN i ELSE i + 1
           /\ pc' = "scan"
    /\ UNCHANGED <<machine, blk>>

\* One round of virtio_input_init's loop: probe, read the name, claim.
Scan ==
    /\ pc = "scan"
    /\ ~(Present(kbd) /\ Present(mouse))
    /\ LET s == find_slot(FALSE, i)
           claim == [slot |-> s, rings |-> probes']
           isKbd == Probed /\ ~Present(kbd) /\ machine[s].kind = "Keyboard"
           isMouse == Probed /\ ~isKbd /\ ~Present(mouse) /\ machine[s].kind = "Mouse"
       IN  /\ probe(s)
           /\ kbd' = IF isKbd THEN claim ELSE kbd
           /\ mouse' = IF isMouse THEN claim ELSE mouse
           /\ i' = IF Probed THEN i + 1 ELSE i
           /\ pc' = IF Probed THEN "scan" ELSE "done"
    /\ UNCHANGED <<machine, blk>>

ScanEnds ==
    /\ pc = "scan"
    /\ Present(kbd) /\ Present(mouse)
    /\ pc' = "done"
    /\ UNCHANGED <<machine, frames, probes, rings, blk, kbd, mouse, i>>

virtio_input_init == Scan \/ ScanEnds

-----------------------------------------------------------------------------
\* Every virtio_device_t still points to the rings its device works on: no
\* claimed device is probed again while looking for another one
\* (virtio_input.c:180-183).
ClaimsAttached ==
    \A d \in {blk, kbd, mouse} : Present(d) => rings[d.slot] = d.rings

\* On a machine whose devices all come up, the scan finds a keyboard if there
\* is one and a mouse if there is one, whatever the slots hold and in whatever
\* order.
ScanFinds ==
    (/\ pc = "done"
     /\ \A s \in Slots : machine[s].fault = "ok"
     /\ frames >= 3)
      => /\ Present(kbd) <=> \E s \in Slots : machine[s].kind = "Keyboard"
         /\ Present(mouse) <=> \E s \in Slots : machine[s].kind = "Mouse"
=============================================================================
