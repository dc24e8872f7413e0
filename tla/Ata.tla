--------------------------------- MODULE Ata ---------------------------------
(***************************************************************************)
(* The ATA PIO driver (arch/x86_64/drivers/ata.c) and the drive it polls.  *)
(* The drive works on its own between two accesses of the driver.          *)
(***************************************************************************)
EXTENDS Naturals

CONSTANTS
    NoLba,
    POLL_LIMIT  \* status reads before ata_wait_drq gives up, 100000

VARIABLES
    disk_present,
    pc, ask,    \* the driver and the sector it reads
    polls,      \* status reads of ata_wait_drq
    res,        \* [ok, data] of the last read
    bsy, drq, err,  \* the drive's status
    cmd,        \* the sector the drive was last told to read
    data        \* the sector in the drive's data buffer

vars  == <<disk_present, pc, ask, polls, res, bsy, drq, err, cmd, data>>
drive == <<bsy, drq, err, cmd, data>>

\* ata_init has looked for a drive; the drive may still be busy.
Init ==
    /\ disk_present \in BOOLEAN
    /\ pc = "idle" /\ ask = NoLba /\ polls = 0
    /\ res = [ok |-> FALSE, data |-> NoLba]
    /\ bsy \in BOOLEAN /\ drq = FALSE /\ err = FALSE
    /\ cmd = NoLba /\ data = NoLba

Return(ok, d) ==
    /\ res' = [ok |-> ok, data |-> d]
    /\ ask' = NoLba
    /\ pc' = "idle"

-----------------------------------------------------------------------------
(* ata_read_sector.                                                        *)

ReadSector(l) ==
    /\ pc = "idle"
    /\ ask' = l
    /\ pc' = IF disk_present THEN "wait_bsy" ELSE "absent"
    /\ UNCHANGED <<disk_present, polls, res, drive>>

Absent ==
    /\ pc = "absent"
    /\ Return(FALSE, NoLba)
    /\ UNCHANGED <<disk_present, polls, drive>>

\* ata_wait_bsy_clear, the read that ends the loop.
WaitBsy ==
    /\ pc = "wait_bsy"
    /\ ~bsy
    /\ pc' = "command"
    /\ UNCHANGED <<disk_present, ask, polls, res, drive>>

\* The registers and the command.  A drive takes a command when it is neither
\* busy nor holding data; otherwise it may ignore it.
Command ==
    /\ pc = "command"
    /\ \/ /\ bsy' = TRUE /\ drq' = FALSE /\ err' = FALSE
          /\ cmd' = ask
          /\ UNCHANGED data
       \/ (bsy \/ drq) /\ UNCHANGED drive
    /\ polls' = 0
    /\ pc' = "wait_drq"
    /\ UNCHANGED <<disk_present, ask, res>>

\* Mutant of WaitDrq: not busy is taken for ready.
WaitDrqLax ==
    /\ pc = "wait_drq"
    /\ IF err THEN Return(FALSE, NoLba) /\ UNCHANGED polls
       ELSE IF ~bsy \/ polls > 0 THEN pc' = "data" /\ UNCHANGED <<ask, polls, res>>
       ELSE polls' = polls + 1 /\ UNCHANGED <<pc, ask, res>>
    /\ UNCHANGED <<disk_present, drive>>

\* One status read of ata_wait_drq; the last one gives up and leaves the drive
\* with a command under way.
WaitDrq ==
    /\ pc = "wait_drq"
    /\ IF err THEN Return(FALSE, NoLba) /\ UNCHANGED polls
       ELSE IF drq THEN pc' = "data" /\ UNCHANGED <<ask, polls, res>>
       ELSE IF polls + 1 < POLL_LIMIT THEN polls' = polls + 1 /\ UNCHANGED <<pc, ask, res>>
       ELSE Return(FALSE, NoLba) /\ UNCHANGED polls
    /\ UNCHANGED <<disk_present, drive>>

\* 256 words are read; the drive drops DRQ after the last one.
Transfer ==
    /\ pc = "data"
    /\ Return(TRUE, data)
    /\ drq' = FALSE
    /\ UNCHANGED <<disk_present, polls, bsy, err, cmd, data>>

Driver == Absent \/ WaitBsy \/ Command \/ WaitDrq \/ Transfer

\* The drive finishes what it was told to do, or comes up.
DriveDone ==
    /\ bsy
    /\ bsy' = FALSE
    /\ \/ cmd = NoLba /\ UNCHANGED <<drq, err, data>>
       \/ cmd # NoLba /\ drq' = TRUE /\ data' = cmd /\ UNCHANGED err
       \/ cmd # NoLba /\ err' = TRUE /\ UNCHANGED <<drq, data>>
    /\ UNCHANGED <<disk_present, pc, ask, polls, res, cmd>>
=============================================================================
