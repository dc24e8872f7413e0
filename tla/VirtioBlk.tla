------------------------------ MODULE VirtioBlk ------------------------------
(***************************************************************************)
(* The virtio block driver (arch/aarch64/drivers/virtio_blk.c) with        *)
(* virtio_submit_and_wait (virtio.c): one request in flight, a chain of    *)
(* header, data buffer and status byte, and a wait for the used ring that  *)
(* has no time limit.                                                      *)
(***************************************************************************)
EXTENDS Naturals

CONSTANTS
    NoLba,
    U16         \* modulus of the ring indices, 65536

VARIABLES
    disk_present,
    pc, ask, res,
    sector,     \* req_hdr->sector
    buf,        \* the sector in the caller's buffer, NoLba before
    status,     \* the status byte, 0 for success
    avail_idx, used_idx, used_seen,
    last_avail  \* requests the device has taken

drv  == <<disk_present, pc, ask, res, sector, avail_idx, used_seen>>
vars == <<drv, buf, status, used_idx, last_avail>>

Inc(n) == (n + 1) % U16

Init ==
    /\ disk_present \in BOOLEAN
    /\ pc = "idle" /\ ask = NoLba /\ res = [ok |-> FALSE, data |-> NoLba]
    /\ sector = NoLba /\ buf = NoLba
    /\ status \in 0 .. 1    \* kmalloc does not clear it
    /\ avail_idx = 0 /\ used_idx = 0 /\ used_seen = 0 /\ last_avail = 0

Return(ok, d) ==
    /\ res' = [ok |-> ok, data |-> d]
    /\ ask' = NoLba
    /\ pc' = "idle"

\* virtio_blk_read_sector: the header is filled in; the caller brings a buffer.
ReadSector(l) ==
    /\ pc = "idle"
    /\ ask' = l
    /\ sector' = IF disk_present THEN l ELSE sector
    /\ pc' = IF disk_present THEN "publish" ELSE "absent"
    /\ buf' = NoLba
    /\ UNCHANGED <<disk_present, res, avail_idx, used_seen, status, used_idx, last_avail>>

Absent ==
    /\ pc = "absent"
    /\ Return(FALSE, NoLba)
    /\ UNCHANGED <<disk_present, sector, avail_idx, used_seen,
                   buf, status, used_idx, last_avail>>

\* virtio_submit_and_wait: the chain is written out, then published.  The
\* device looks at nothing before the index moves.
Publish ==
    /\ pc = "publish"
    /\ avail_idx' = Inc(avail_idx)
    /\ pc' = "wait"
    /\ UNCHANGED <<disk_present, ask, res, sector, used_seen,
                   buf, status, used_idx, last_avail>>

\* Mutant of Wait: the indices are compared as numbers.
WaitLess ==
    /\ pc = "wait"
    /\ used_idx > used_seen
    /\ used_seen' = Inc(used_seen)
    /\ pc' = "status"
    /\ UNCHANGED <<disk_present, ask, res, sector, avail_idx,
                   buf, status, used_idx, last_avail>>

Wait ==
    /\ pc = "wait"
    /\ used_idx # used_seen
    /\ used_seen' = Inc(used_seen)
    /\ pc' = "status"
    /\ UNCHANGED <<disk_present, ask, res, sector, avail_idx,
                   buf, status, used_idx, last_avail>>

Status ==
    /\ pc = "status"
    /\ Return(status = 0, IF status = 0 THEN buf ELSE NoLba)
    /\ UNCHANGED <<disk_present, sector, avail_idx, used_seen,
                   buf, status, used_idx, last_avail>>

Driver == Absent \/ Publish \/ Wait \/ Status

\* The device takes a request, writes data and status, then the used ring.
DeviceServe ==
    /\ last_avail # avail_idx
    /\ \/ buf' = sector /\ status' = 0
       \/ status' = 1 /\ UNCHANGED buf
    /\ last_avail' = Inc(last_avail)
    /\ used_idx' = Inc(used_idx)
    /\ UNCHANGED drv
=============================================================================
