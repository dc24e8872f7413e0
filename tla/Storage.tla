------------------------------- MODULE Storage -------------------------------
(***************************************************************************)
(* The storage stack of one machine: the filesystem over the ATA driver on *)
(* x86_64 and over the virtio block driver on aarch64, each with a device  *)
(* that works on its own and may fail any read.  arch_disk_available and   *)
(* arch_disk_read_sector are the glue.                                     *)
(***************************************************************************)
EXTENDS Vfs

CONSTANTS
    POLL_LIMIT, \* see Ata
    U16         \* see VirtioBlk

\* The sectors of the largest image.
Lbas == 0 .. MaxFiles * (1 + CeilDiv(CHOOSE m \in Sizes : \A z \in Sizes : z <= m, SECTOR))

ASSUME StorageAssumption ==
    /\ POLL_LIMIT \in Nat \ {0}
    /\ U16 \in Nat \ {0, 1}
    /\ \A e \in Junk : e.start + CeilDiv(e.size, SECTOR) \in Lbas

VARIABLES
    arch,       \* "x86_64" or "aarch64"
    dpc,        \* the driver's place
    polls, bsy, drq, err, cmd, data,                            \* ATA
    sector, dma, status, avail_idx, used_idx, used_seen, last_avail   \* virtio

ata    == <<polls, bsy, drq, err, cmd, data>>
blk    == <<sector, dma, status, avail_idx, used_idx, used_seen, last_avail>>
driver == <<disk_present, dpc, ask, res>>
vars   == <<vfs, arch, driver, ata, blk>>

A == INSTANCE Ata WITH pc <- dpc
B == INSTANCE VirtioBlk WITH pc <- dpc, buf <- dma

Init ==
    /\ VfsInit
    /\ arch \in {"x86_64", "aarch64"}
    /\ A!Init /\ B!Init
    \* the driver that is not linked in rests
    /\ arch = "aarch64" => ~bsy
    /\ arch = "x86_64" => status = 0

\* The filesystem calls arch_disk_read_sector.
Read(l) ==
    /\ AskDisk(l)
    /\ \/ arch = "x86_64" /\ A!ReadSector(l) /\ UNCHANGED blk
       \/ arch = "aarch64" /\ B!ReadSector(l) /\ UNCHANGED ata
    /\ UNCHANGED arch

AtaStep   == arch = "x86_64" /\ A!Driver /\ UNCHANGED <<vfs, arch, blk>>
BlkStep   == arch = "aarch64" /\ B!Driver /\ UNCHANGED <<vfs, arch, ata>>
DriveStep == arch = "x86_64" /\ A!DriveDone /\ UNCHANGED <<vfs, arch, blk>>
ServeStep == arch = "aarch64" /\ B!DeviceServe /\ UNCHANGED <<vfs, arch, ata>>

ReaderStep == Reader /\ UNCHANGED <<arch, driver, ata, blk>>

Call ==
    /\ \E n \in AskNames, b \in BufSizes : vfs_read_file(n, b)
    /\ UNCHANGED <<arch, driver, ata, blk>>


\* The kernel's own steps, one thread of control.
Kernel == ReaderStep \/ AtaStep \/ BlkStep \/ \E l \in Lbas : Read(l)

Next == Kernel \/ DriveStep \/ ServeStep \/ Call

\* The kernel's loops run on; a drive does not stay busy for ever and the
\* device serves what it was asked.  Nobody has to call vfs_read_file.
Spec ==
    /\ Init /\ [][Next]_vars
    /\ WF_vars(Kernel) /\ WF_vars(DriveStep) /\ WF_vars(ServeStep)

-----------------------------------------------------------------------------
\* What the drive still has of a request that was given up.
D == INSTANCE Disk WITH
       late <- IF arch = "x86_64" /\ (bsy \/ drq) /\ cmd \notin {NoLba, ask}
               THEN cmd ELSE NoLba

\* A sector read that reports success has the sector that was asked for ("Reads
\* one 512-byte sector into buf", include/arch/x86_64/ata.h:14), whatever failed
\* before it: no earlier data, completion or status is taken for this request's.
\* The one exception is a read that follows one given up at the poll limit
\* (ata.c:51): it may get the sector of that request, and no other.
ImplementsDisk == D!DiskSafety

\* A call of vfs_read_file comes to an end, with failing reads, and across the
\* wrap of the ring indices.
FileReturns == (pc \in {"dir", "data"}) ~> (pc = "done")
=============================================================================
