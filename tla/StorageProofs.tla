---------------------------- MODULE StorageProofs ----------------------------
(***************************************************************************)
(* The storage stack for every disk image, sector size and buffer:         *)
(*   - DriverInv, what each driver knows of its device between two steps,  *)
(*     shows that both drivers implement Disk;                             *)
(*   - the image: the directory's sectors and the offsets of the data are  *)
(*     computed by two programs from two recurrences that agree;           *)
(*   - ReaderInv, what the reader has searched and copied so far, shows    *)
(*     that vfs_read_file gives the caller the right bytes as long as the  *)
(*     disk has given it the sectors it asked for.                         *)
(* There is no hypothesis: a drive may take any time, and the ATA driver   *)
(* may give up.                                                            *)
(***************************************************************************)
EXTENDS Storage, TLAPS, SequenceTheorems, WellFoundedInduction

-----------------------------------------------------------------------------
(* The drivers.                                                            *)

\* The drive holds the answer to the command it took last, which is the
\* driver's own or, if it held data then, one the driver gave up.
AtaInv ==
    /\ dpc \in {"idle", "absent", "wait_bsy", "command", "wait_drq", "data"}
    /\ dpc = "absent" => ~disk_present
    /\ ~disk_present => dpc \in {"idle", "absent"} /\ cmd = NoLba
    /\ dpc = "command" => ~bsy
    /\ dpc = "wait_drq" => drq \/ cmd = ask
    /\ dpc = "data" => drq
    /\ drq => ~bsy /\ ~err /\ data = cmd /\ cmd # NoLba
    /\ err => ~bsy

\* At most one request is published; the device has it or has answered it.
BlkInv ==
    /\ dpc \in {"idle", "absent", "publish", "wait", "status"}
    /\ {avail_idx, used_idx, used_seen, last_avail} \subseteq 0 .. U16 - 1
    /\ dpc \in {"publish", "wait", "status"} => sector = ask
    /\ used_idx = last_avail
    /\ dpc # "wait" => used_idx = used_seen /\ avail_idx = used_seen
    /\ dpc = "wait" => /\ avail_idx = B!Inc(used_seen)
                       /\ used_idx \in {used_seen, avail_idx}
    /\ dpc = "status" \/ (dpc = "wait" /\ used_idx = avail_idx) => (status = 0 => dma = ask)

DriverInv ==
    /\ arch \in {"x86_64", "aarch64"}
    /\ ask \in Lbas \cup {NoLba}
    /\ dpc = "idle" <=> ask = NoLba
    /\ arch = "x86_64" => AtaInv
    /\ arch = "aarch64" => BlkInv

LEMMA SizesKnown ==
    /\ Sizes \subseteq Nat /\ BufSizes \subseteq Nat
    /\ \E m \in BufSizes : \A z \in BufSizes : z <= m
<1>1. U32 \in Nat /\ Sizes \subseteq 0 .. U32 - 1 /\ BufSizes \subseteq 0 .. U32 - 1
      /\ \E m \in BufSizes : \A z \in BufSizes : z <= m
  BY VfsAssumption
<1> QED BY <1>1

LEMMA LbasKnown == NoLba \notin Lbas
<1>1. Lbas \subseteq Nat
  BY DEF Lbas
<1> QED BY <1>1, VfsAssumption

LEMMA IncMoves == \A n \in 0 .. U16 - 1 : B!Inc(n) \in 0 .. U16 - 1 /\ B!Inc(n) # n
BY StorageAssumption DEF B!Inc

LEMMA DriverInit == Init => DriverInv
BY StorageAssumption, LbasKnown DEF Init, A!Init, B!Init, DriverInv, AtaInv, BlkInv

LEMMA AtaPreserves ==
    ASSUME DriverInv, AtaStep \/ DriveStep
    PROVE  DriverInv' /\ [D!DiskNext]_(D!disk)
<1>1. arch = "x86_64" /\ arch' = "x86_64" /\ AtaInv
  BY DEF AtaStep, DriveStep, DriverInv
<1> USE DEF DriverInv, AtaInv, D!DiskNext, D!disk, D!Answer, D!Forget
<1>2. CASE AtaStep
  <2>1. CASE A!Absent
    BY <1>1, <1>2, <2>1 DEF A!Absent, A!Return, A!drive
  <2>2. CASE A!WaitBsy
    BY <1>1, <1>2, <2>2 DEF A!WaitBsy, A!drive
  <2>3. CASE A!Command
    BY <1>1, <1>2, <2>3 DEF A!Command, A!drive
  <2>4. CASE A!WaitDrq
    BY <1>1, <1>2, <2>4 DEF A!WaitDrq, A!Return, A!drive
  <2>5. CASE A!Transfer
    BY <1>1, <1>2, <2>5 DEF A!Transfer, A!Return
  <2> QED BY <1>2, <2>1, <2>2, <2>3, <2>4, <2>5 DEF AtaStep, A!Driver
<1>3. CASE DriveStep
  BY <1>1, <1>3 DEF DriveStep, A!DriveDone
<1> QED BY <1>2, <1>3

LEMMA BlkPreserves ==
    ASSUME DriverInv, BlkStep \/ ServeStep
    PROVE  DriverInv' /\ [D!DiskNext]_(D!disk)
<1>1. arch = "aarch64" /\ arch' = "aarch64" /\ BlkInv
  BY DEF BlkStep, ServeStep, DriverInv
<1>2. /\ B!Inc(used_seen) \in 0 .. U16 - 1 /\ B!Inc(avail_idx) \in 0 .. U16 - 1
      /\ B!Inc(used_seen) # used_seen
  BY <1>1, IncMoves DEF BlkInv
<1> USE DEF DriverInv, BlkInv, D!DiskNext, D!disk, D!Answer
<1>3. CASE BlkStep
  <2>1. CASE B!Absent
    BY <1>1, <1>3, <2>1 DEF B!Absent, B!Return
  <2>2. CASE B!Publish
    BY <1>1, <1>2, <1>3, <2>2 DEF B!Publish
  <2>3. CASE B!Wait
    BY <1>1, <1>2, <1>3, <2>3 DEF B!Wait
  <2>4. CASE B!Status
    BY <1>1, <1>3, <2>4 DEF B!Status, B!Return
  <2> QED BY <1>3, <2>1, <2>2, <2>3, <2>4 DEF BlkStep, B!Driver
<1>4. CASE ServeStep
  BY <1>1, <1>2, <1>4 DEF ServeStep, B!DeviceServe, B!drv
<1> QED BY <1>3, <1>4

LEMMA ReadPreserves ==
    ASSUME DriverInv, NEW l \in Lbas, Read(l)
    PROVE  DriverInv' /\ [D!DiskNext]_(D!disk)
<1>1. l # NoLba
  BY LbasKnown
<1>2. arch = "x86_64" \/ arch = "aarch64"
  BY DEF DriverInv
<1> USE DEF DriverInv, D!DiskNext, D!disk, D!Ask
<1>3. CASE arch = "x86_64"
  BY <1>1, <1>3 DEF Read, A!ReadSector, A!drive, AtaInv
<1>4. CASE arch = "aarch64"
  BY <1>1, <1>4 DEF Read, B!ReadSector, BlkInv
<1> QED BY <1>2, <1>3, <1>4

\* The rest of the kernel does not touch the drivers.
LEMMA OthersPreserve ==
    ASSUME DriverInv, UNCHANGED <<arch, driver, ata, blk>>
    PROVE  DriverInv' /\ [D!DiskNext]_(D!disk)
BY DEF DriverInv, AtaInv, BlkInv, driver, ata, blk, D!disk

LEMMA DriverPreserved ==
    DriverInv /\ [Next]_vars => DriverInv' /\ [D!DiskNext]_(D!disk)
<1> SUFFICES ASSUME DriverInv, [Next]_vars
             PROVE  DriverInv' /\ [D!DiskNext]_(D!disk)
  OBVIOUS
<1>1. CASE ReaderStep \/ Call \/ UNCHANGED vars
  BY <1>1, OthersPreserve DEF ReaderStep, Call, vars
<1> QED BY <1>1, AtaPreserves, BlkPreserves, ReadPreserves DEF Next, Kernel

\* Both disk drivers keep the promise of arch_disk_read_sector, whatever the
\* devices fail, however long they take and however often the ring indices
\* wrap: a read that reports success has the sector that was asked for, or the
\* sector of a read the ATA driver gave up and the drive still has.
THEOREM DriversImplementDisk == Spec => ImplementsDisk
<1>1. Init => D!DiskInit
  BY DEF Init, A!Init, D!DiskInit
<1>2. DriverInv /\ [Next]_vars => DriverInv' /\ [D!DiskNext]_(D!disk)
  BY DriverPreserved
<1> QED BY <1>1, <1>2, DriverInit, PTL DEF Spec, ImplementsDisk, D!DiskSafety

-----------------------------------------------------------------------------
(* The image.                                                              *)

\* Every set of natural numbers that is not empty has a least element.
LEMMA LeastNat ==
    ASSUME NEW T \in SUBSET Nat, T # {}
    PROVE  \E m \in T : \A n \in T : m <= n
<1>1. PICK m \in T : \A n \in T : <<n, m>> \notin OpToRel(<, Nat)
  BY NatLessThanWellFounded, WFMin
<1>2. ASSUME NEW n \in T, n < m
      PROVE  <<n, m>> \in OpToRel(<, Nat)
  <2>1. <<n, m>> \in Nat \X Nat
    OBVIOUS
  <2>2. <<n, m>>[1] < <<n, m>>[2]
    BY <1>2
  <2> QED BY <2>1, <2>2 DEF OpToRel
<1>3. \A n \in T : ~(n < m)
  BY <1>1, <1>2
<1> QED BY <1>3

\* The first n running sums of x, from a on.
RunningSum(n, a, x, f) ==
    \A k \in 1 .. n : f[k] = IF k = 1 THEN a ELSE f[k - 1] + x[k - 1]

\* A running sum exists, and is a natural number.
LEMMA SumExists ==
    ASSUME NEW N \in Nat, NEW a \in Nat, NEW x \in [1 .. N -> Nat]
    PROVE  \E f \in [1 .. N -> Nat] : RunningSum(N, a, x, f)
<1> USE DEF RunningSum
<1> DEFINE Sum(n, f) == RunningSum(n, a, x, f)
           T == {n \in 0 .. N : ~\E f \in [1 .. n -> Nat] : Sum(n, f)}
<1>1. SUFFICES T = {}
  <2>1. N \in 0 .. N
    OBVIOUS
  <2> QED BY <2>1
<1>2. SUFFICES ASSUME T # {} PROVE FALSE
  OBVIOUS
<1>3. T \in SUBSET Nat
  OBVIOUS
<1>4. PICK n \in T : \A j \in T : n <= j
  BY <1>2, <1>3, LeastNat
<1>5. n \in 0 .. N /\ ~\E f \in [1 .. n -> Nat] : Sum(n, f)
  OBVIOUS
<1>6. CASE n = 0
  <2>1. [k \in 1 .. 0 |-> 0] \in [1 .. n -> Nat] /\ Sum(n, [k \in 1 .. 0 |-> 0])
    BY <1>6
  <2> QED BY <1>5, <2>1
<1>7. CASE n # 0
  <2>1. n - 1 \in 0 .. N /\ n - 1 \notin T
    <3>1. n - 1 \in 0 .. N /\ ~(n <= n - 1)
      BY <1>5, <1>7
    <3> HIDE DEF T
    <3> QED BY <1>4, <3>1
  <2>2. PICK g \in [1 .. n - 1 -> Nat] : Sum(n - 1, g)
    BY <2>1
  <2> DEFINE h == [k \in 1 .. n |-> IF k < n THEN g[k] ELSE IF n = 1 THEN a ELSE g[n - 1] + x[n - 1]]
  <2>3. h \in [1 .. n -> Nat]
    BY <1>5, <1>7, <2>2
  <2>4. ASSUME NEW k \in 1 .. n
        PROVE  h[k] = IF k = 1 THEN a ELSE h[k - 1] + x[k - 1]
    <3>1. CASE k < n
      <4>1. h[k] = g[k] /\ k \in 1 .. n - 1
        BY <1>5, <3>1
      <4>2. k # 1 => h[k - 1] = g[k - 1]
        BY <1>5, <3>1
      <4> QED BY <2>2, <4>1, <4>2
    <3>2. CASE k = n
      <4>1. k # 1 => h[k - 1] = g[k - 1]
        BY <1>5, <3>2
      <4> QED BY <1>5, <3>2, <4>1
    <3> QED BY <1>5, <3>1, <3>2
  <2> HIDE DEF h
  <2> QED BY <1>5, <2>3, <2>4
<1> QED BY <1>6, <1>7

FileType == [name : FileNames, size : Sizes]
FilesOk  == files \in Seq(FileType) /\ Len(files) \in 1 .. MaxFiles

\* Whole sectors are the bytes and the padding mkfs.py writes after them.
LEMMA PadFills ==
    ASSUME NEW n \in Nat
    PROVE  /\ CeilDiv(n, SECTOR) \in Nat /\ pad(n) \in Nat
           /\ n + pad(n) = CeilDiv(n, SECTOR) * SECTOR
<1> DEFINE q == CeilDiv(n, SECTOR)
<1>1. ASSUME NEW d \in Nat \ {0}
      PROVE  /\ (n + d - 1) \div d \in Nat
             /\ n <= ((n + d - 1) \div d) * d
             /\ ((n + d - 1) \div d) * d < n + d
  BY SMTT(30)
<1>2. ASSUME NEW d \in Nat \ {0}, NEW m \in Nat, NEW r \in 0 .. d - 1, m * d = n + r
      PROVE  (-n) % d = r
  <2> DEFINE w == (-n) \div d
             p == (-n) % d
  <2>1. w \in Int /\ p \in 0 .. d - 1
    BY SMTT(30)
  <2>2. (-n) - w * d = p
    BY SMTT(30)
  <2> HIDE DEF w, p
  <2>3. (w + m) * d = r - p
    BY <1>2, <2>1, <2>2, SMTT(30)
  <2>4. w + m \in Int /\ (w + m >= 1 => (w + m) * d >= d) /\ (w + m <= -1 => (w + m) * d <= -d)
    BY <2>1, SMTT(30)
  <2>5. w + m = 0
    BY <2>1, <2>3, <2>4
  <2>6. (w + m) * d = 0
    BY <2>5
  <2>7. p = r
    BY <2>1, <2>3, <2>6
  <2> QED BY <2>7 DEF p
<1>3. SECTOR \in Nat \ {0} /\ q \in Nat /\ n <= q * SECTOR /\ q * SECTOR < n + SECTOR
  BY <1>1, VfsAssumption DEF CeilDiv
<1> HIDE DEF q
<1>4. q * SECTOR \in Nat
  BY <1>3
<1>5. q * SECTOR - n \in 0 .. SECTOR - 1 /\ q * SECTOR = n + (q * SECTOR - n)
  BY <1>3, <1>4
<1>6. pad(n) = q * SECTOR - n
  BY <1>2, <1>3, <1>5 DEF pad
<1> QED BY <1>3, <1>4, <1>5, <1>6 DEF q

\* What mkfs.py keeps of the files, in the prover's terms.
LEMMA FilesKnown ==
    ASSUME FilesOk
    PROVE  /\ DOMAIN files = 1 .. Len(files) /\ Len(files) \in Nat \ {0}
           /\ \A k \in 1 .. Len(files) :
                files[k].size \in Nat /\ files[k].name \in FileNames
           /\ data_start \in Nat
<1>1. DOMAIN files = 1 .. Len(files) /\ Len(files) \in Nat \ {0}
  BY VfsAssumption DEF FilesOk
<1>2. \A k \in 1 .. Len(files) : files[k] \in FileType
  BY DEF FilesOk
<1>3. ASSUME NEW n \in Nat, NEW d \in Nat \ {0}
      PROVE  (n + d - 1) \div d \in Nat
  BY SMTT(30)
<1>4. data_start \in Nat
  BY <1>1, <1>3, VfsAssumption DEF data_start, dir_start, CeilDiv
<1> QED BY <1>1, <1>2, <1>4, SizesKnown DEF FileType

\* The directory's cursor is its recurrence.
LEMMA CursorIs ==
    ASSUME FilesOk
    PROVE  \A k \in 1 .. Len(files) :
             /\ Cursor[k] \in Nat
             /\ Cursor[k] = IF k = 1 THEN data_start
                            ELSE Cursor[k - 1] + CeilDiv(files[k - 1].size, SECTOR)
<1> DEFINE N == Len(files)
           x == [k \in 1 .. N |-> CeilDiv(files[k].size, SECTOR)]
           F(g) == [k \in DOMAIN files |->
                      IF k = 1 THEN data_start
                      ELSE g[k - 1] + CeilDiv(files[k - 1].size, SECTOR)]
<1>1. DOMAIN files = 1 .. N /\ N \in Nat \ {0} /\ data_start \in Nat
  BY FilesKnown
<1>2. x \in [1 .. N -> Nat]
  BY FilesKnown, PadFills
<1>3. PICK f \in [1 .. N -> Nat] :
             \A k \in 1 .. N : f[k] = IF k = 1 THEN data_start ELSE f[k - 1] + x[k - 1]
  <2> HIDE DEF x, N
  <2>1. N \in Nat /\ data_start \in Nat
    BY <1>1
  <2>2. \E f \in [1 .. N -> Nat] : RunningSum(N, data_start, x, f)
    BY <1>2, <2>1, SumExists
  <2> QED BY <2>2 DEF RunningSum
<1>4. \A k \in 1 .. N : k # 1 => x[k - 1] = CeilDiv(files[k - 1].size, SECTOR)
  BY <1>1
<1> HIDE DEF x
<1>5. f = F(f)
  BY <1>1, <1>3, <1>4
<1>6. Cursor = F(Cursor)
  BY <1>5 DEF Cursor
<1> HIDE DEF N
<1>7. \A k \in 1 .. N : Cursor[k] = IF k = 1 THEN data_start
                        ELSE Cursor[k - 1] + CeilDiv(files[k - 1].size, SECTOR)
  BY <1>1, <1>6
<1> HIDE DEF F
<1> DEFINE T == {k \in 1 .. N : Cursor[k] # f[k]}
<1>8. ASSUME T # {} PROVE FALSE
  <2>1. PICK k \in T : \A j \in T : k <= j
    <3>1. T \in SUBSET Nat
      BY <1>1
    <3> HIDE DEF T
    <3> QED BY <1>8, <3>1, LeastNat
  <2>2. k \in 1 .. N /\ Cursor[k] # f[k]
    OBVIOUS
  <2>3. CASE k = 1
    BY <1>3, <1>7, <2>2, <2>3
  <2>4. CASE k # 1
    <3>1. k - 1 \in 1 .. N /\ ~(k <= k - 1)
      BY <1>1, <2>2, <2>4
    <3>2. Cursor[k - 1] = f[k - 1]
      BY <2>1, <3>1
    <3> QED BY <1>3, <1>4, <1>7, <2>2, <2>4, <3>2
  <2> QED BY <2>3, <2>4
<1>9. \A k \in 1 .. N : Cursor[k] = f[k]
  BY <1>8
<1> QED BY <1>3, <1>7, <1>9 DEF N

\* So is the offset at which the bytes of a file are written.
LEMMA OffsetIs ==
    ASSUME FilesOk
    PROVE  \A k \in 1 .. Len(files) :
             /\ Offset[k] \in Nat
             /\ Offset[k] = IF k = 1 THEN data_start * SECTOR
                            ELSE Offset[k - 1] + files[k - 1].size + pad(files[k - 1].size)
<1> DEFINE A0 == data_start * SECTOR
           N == Len(files)
           x == [k \in 1 .. N |-> files[k].size + pad(files[k].size)]
           F(g) == [k \in DOMAIN files |->
                      IF k = 1 THEN A0
                      ELSE g[k - 1] + files[k - 1].size + pad(files[k - 1].size)]
<1>1. DOMAIN files = 1 .. N /\ N \in Nat \ {0} /\ A0 \in Nat
  BY FilesKnown, VfsAssumption
<1>2. \A k \in 1 .. N : files[k].size \in Nat /\ pad(files[k].size) \in Nat
  BY FilesKnown, PadFills
<1>3. x \in [1 .. N -> Nat]
  BY <1>2
<1>4. \A k \in 1 .. N : k # 1 => files[k - 1].size \in Nat /\ pad(files[k - 1].size) \in Nat
  BY <1>2, <1>1
<1>5. PICK f \in [1 .. N -> Nat] :
             \A k \in 1 .. N : f[k] = IF k = 1 THEN A0 ELSE f[k - 1] + x[k - 1]
  <2> HIDE DEF x, N, A0
  <2>1. N \in Nat /\ A0 \in Nat
    BY <1>1
  <2>2. \E f \in [1 .. N -> Nat] : RunningSum(N, A0, x, f)
    BY <1>3, <2>1, SumExists
  <2> QED BY <2>2 DEF RunningSum
<1>6. \A k \in 1 .. N : k # 1 => x[k - 1] = files[k - 1].size + pad(files[k - 1].size)
  BY <1>1
<1> HIDE DEF x, A0
<1>7. \A k \in 1 .. N : k # 1 => f[k - 1] \in Nat
  BY <1>1, <1>5
<1>8. \A k \in 1 .. N : f[k] = IF k = 1 THEN A0
                         ELSE f[k - 1] + files[k - 1].size + pad(files[k - 1].size)
  <2> TAKE k \in 1 .. N
  <2>1. CASE k = 1
    BY <1>5, <2>1
  <2>2. CASE k # 1
    BY <1>5, <1>6, <1>4, <1>7, <2>2
  <2> QED BY <2>1, <2>2
<1>9. f = F(f)
  BY <1>1, <1>5, <1>8
<1>10. Offset = F(Offset)
  BY <1>9 DEF Offset, A0
<1> HIDE DEF N
<1>11. \A k \in 1 .. N : Offset[k] = IF k = 1 THEN A0
                        ELSE Offset[k - 1] + files[k - 1].size + pad(files[k - 1].size)
  BY <1>1, <1>10
<1> HIDE DEF F
<1> DEFINE T == {k \in 1 .. N : Offset[k] # f[k]}
<1>12. ASSUME T # {} PROVE FALSE
  <2>1. PICK k \in T : \A j \in T : k <= j
    <3>1. T \in SUBSET Nat
      BY <1>1
    <3> HIDE DEF T
    <3> QED BY <1>12, <3>1, LeastNat
  <2>2. k \in 1 .. N /\ Offset[k] # f[k]
    OBVIOUS
  <2>3. CASE k = 1
    BY <1>5, <1>11, <2>2, <2>3
  <2>4. CASE k # 1
    <3>1. k - 1 \in 1 .. N /\ ~(k <= k - 1)
      BY <1>1, <2>2, <2>4
    <3>2. Offset[k - 1] = f[k - 1]
      BY <2>1, <3>1
    <3> QED BY <1>11, <1>8, <2>2, <2>4, <3>2
  <2> QED BY <2>3, <2>4
<1>13. \A k \in 1 .. N : Offset[k] = f[k]
  BY <1>12
<1> QED BY <1>5, <1>11, <1>13 DEF N, A0

\* The two programs agree: the data of file k is where its entry says.
LEMMA OffsetAtCursor ==
    ASSUME FilesOk
    PROVE  \A k \in 1 .. Len(files) : Offset[k] = Cursor[k] * SECTOR
<1> DEFINE N == Len(files)
           T == {k \in 1 .. N : Offset[k] # Cursor[k] * SECTOR}
<1>1. N \in Nat \ {0} /\ data_start \in Nat /\ SECTOR \in Nat \ {0}
  BY FilesKnown, VfsAssumption
<1> HIDE DEF N
<1>2. ASSUME T # {} PROVE FALSE
  <2>1. PICK k \in T : \A j \in T : k <= j
    <3>1. T \in SUBSET Nat
      BY <1>1
    <3> HIDE DEF T
    <3> QED BY <1>2, <3>1, LeastNat
  <2>2. k \in 1 .. N /\ Offset[k] # Cursor[k] * SECTOR
    OBVIOUS
  <2>3. CASE k = 1
    BY <2>2, <2>3, CursorIs, OffsetIs DEF N
  <2>4. CASE k # 1
    <3>1. k - 1 \in 1 .. N /\ ~(k <= k - 1)
      BY <1>1, <2>2, <2>4
    <3>2. Offset[k - 1] = Cursor[k - 1] * SECTOR
      BY <2>1, <3>1
    <3> DEFINE z == files[k - 1].size
               c == Cursor[k - 1]
               q == CeilDiv(z, SECTOR)
    <3>3. z \in Nat /\ c \in Nat
      BY <3>1, FilesKnown, CursorIs DEF N
    <3>4. q \in Nat /\ pad(z) \in Nat /\ z + pad(z) = q * SECTOR
      BY <3>3, PadFills
    <3>5. Cursor[k] = c + q /\ Offset[k] = Offset[k - 1] + z + pad(z)
      BY <2>2, <2>4, CursorIs, OffsetIs DEF N
    <3> HIDE DEF z, c, q
    <3>6. Offset[k] = c * SECTOR + q * SECTOR
      <4>1. c * SECTOR \in Nat /\ q * SECTOR \in Nat
        BY <1>1, <3>3, <3>4
      <4> QED BY <3>2, <3>3, <3>4, <3>5, <4>1 DEF c
    <3>7. (c + q) * SECTOR = c * SECTOR + q * SECTOR
      BY <1>1, <3>3, <3>4
    <3> QED BY <2>2, <3>5, <3>6, <3>7
  <2> QED BY <2>3, <2>4
<1> QED BY <1>2 DEF N

\* No byte belongs to two files.
LEMMA FilesApart ==
    ASSUME FilesOk, NEW j \in 1 .. Len(files)
    PROVE  \A k \in 1 .. Len(files) : j < k => Offset[j] + files[j].size <= Offset[k]
<1> DEFINE N == Len(files)
           T == {k \in 1 .. N : j < k /\ ~(Offset[j] + files[j].size <= Offset[k])}
<1>1. N \in Nat \ {0} /\ j \in 1 .. N
  BY FilesKnown
<1>2. \A k \in 1 .. N : files[k].size \in Nat /\ pad(files[k].size) \in Nat /\ Offset[k] \in Nat
  BY FilesKnown, PadFills, OffsetIs
<1>3. \A k \in 1 .. N : k # 1 =>
        Offset[k] = Offset[k - 1] + files[k - 1].size + pad(files[k - 1].size)
  BY OffsetIs
<1> HIDE DEF N
<1>4. ASSUME T # {} PROVE FALSE
  <2>1. PICK k \in T : \A i \in T : k <= i
    <3>1. T \in SUBSET Nat
      BY <1>1
    <3> HIDE DEF T
    <3> QED BY <1>4, <3>1, LeastNat
  <2>2. k \in 1 .. N /\ j < k /\ ~(Offset[j] + files[j].size <= Offset[k])
    OBVIOUS
  <2>3. k - 1 \in 1 .. N /\ k # 1 /\ ~(k <= k - 1)
    BY <1>1, <2>2
  <2> DEFINE i == k - 1
  <2>4. /\ i \in 1 .. N /\ files[i].size \in Nat /\ pad(files[i].size) \in Nat
        /\ Offset[i] \in Nat /\ Offset[j] \in Nat /\ files[j].size \in Nat
    BY <1>1, <1>2, <2>3
  <2>5. Offset[k] = Offset[i] + files[i].size + pad(files[i].size)
    BY <1>3, <2>2, <2>3
  <2> HIDE DEF i
  <2>6. CASE i = j
    BY <2>2, <2>4, <2>5, <2>6
  <2>7. CASE i # j
    <3>1. j < i
      BY <1>1, <2>2, <2>7 DEF i
    <3>2. Offset[j] + files[j].size <= Offset[i]
      BY <2>1, <2>3, <3>1 DEF i
    <3> QED BY <2>2, <2>4, <2>5, <3>2
  <2> QED BY <2>6, <2>7
<1> QED BY <1>4 DEF N

LEMMA OneFile ==
    ASSUME FilesOk, NEW i \in 1 .. Len(files), NEW k \in 1 .. Len(files), NEW at \in Nat,
           Offset[i] <= at, at < Offset[i] + files[i].size,
           Offset[k] <= at, at < Offset[k] + files[k].size
    PROVE  i = k
<1>1. /\ i \in Nat /\ files[i].size \in Nat /\ Offset[i] \in Nat
      /\ k \in Nat /\ files[k].size \in Nat /\ Offset[k] \in Nat
  BY FilesKnown, OffsetIs
<1>2. i < k => Offset[i] + files[i].size <= Offset[k]
  BY FilesApart
<1>3. k < i => Offset[k] + files[k].size <= Offset[i]
  BY FilesApart
<1> QED BY <1>1, <1>2, <1>3

\* The byte of the image at offset o of file k is that byte of that file.
LEMMA DataByte ==
    ASSUME FilesOk, NEW k \in 1 .. Len(files), NEW l \in Nat, NEW b \in 0 .. SECTOR - 1,
           NEW o \in Nat, o < files[k].size, l * SECTOR + b = Offset[k] + o
    PROVE  DataSector(l)[b] = <<k, o>>
<1> DEFINE N == Len(files)
           at == l * SECTOR + b
           Here == {i \in DOMAIN files : Offset[i] <= at /\ at < Offset[i] + files[i].size}
<1>1. DOMAIN files = 1 .. N /\ N \in Nat
  BY FilesKnown
<1>2. \A i \in 1 .. N : files[i].size \in Nat /\ Offset[i] \in Nat
  BY FilesKnown, OffsetIs
<1>3. at \in Nat /\ at = Offset[k] + o
  BY VfsAssumption
<1>4. k \in Here
  BY <1>1, <1>2, <1>3
<1>5. ASSUME NEW i \in Here PROVE i = k
  <2>1. i \in 1 .. N /\ Offset[i] <= at /\ at < Offset[i] + files[i].size
    BY <1>1
  <2>2. Offset[k] <= at /\ at < Offset[k] + files[k].size
    BY <1>4
  <2> HIDE DEF at, Here
  <2> QED BY <1>3, <2>1, <2>2, OneFile
<1>6. (CHOOSE i \in Here : TRUE) = k
  <2> HIDE DEF Here
  <2> QED BY <1>4, <1>5
<1>7. DataSector(l)[b] = IF Here = {} THEN Pad
                         ELSE <<CHOOSE i \in Here : TRUE, at - Offset[CHOOSE i \in Here : TRUE]>>
  BY DEF DataSector
<1> HIDE DEF Here, at
<1>8. at - Offset[k] = o
  BY <1>1, <1>2, <1>3
<1> QED BY <1>4, <1>6, <1>7, <1>8

-----------------------------------------------------------------------------
(* The reader.                                                             *)

\* A sector is asked for only while the reader wants it.
AskInv ==
    /\ ~asked => ask = NoLba
    /\ pc \in {"ready", "done"} => ~asked
    /\ asked => \E l \in Lbas : Wants(l) /\ ask \in {l, NoLba}

\* Whatever the disk has given, what counts sectors and bytes is a number.
NumberInv ==
    /\ pc = "dir" => remaining \in Nat /\ copied = 0
    /\ pc = "data" => found.size \in Nat

\* The entries searched so far are the first ones, and none has the name.
DirInv ==
    pc = "dir" /\ ~stale =>
      /\ remaining \in 0 .. Len(files) /\ dir_sector \in Nat \ {0}
      /\ remaining > 0 => Len(files) - remaining = (dir_sector - 1) * ENTRIES_PER_SECTOR
      /\ \A k \in Named : k > Len(files) - remaining
      /\ s = 0 /\ copied = 0

\* Nothing after the bytes copied has been written.
BufInv ==
    /\ buf_size \in Nat /\ copied \in Nat /\ copied <= buf_size
    /\ \A b \in 0 .. MaxBuf : b >= copied => buf[b] = Old

\* The bytes copied are whole sectors of file k, or all that is wanted of it.
CopyInv(k) ==
    /\ k \in Named /\ \A j \in Named : k <= j
    /\ found = Entry(k)
    /\ s \in Nat
    /\ copied = Least(s * SECTOR, Least(found.size, buf_size))
    /\ \A b \in 0 .. MaxBuf : b < copied => buf[b] = <<k, b>>

FoundInv ==
    /\ pc = "data" /\ ~stale => \E k \in DOMAIN files : CopyInv(k)
    /\ pc = "done" /\ result /\ ~stale => \E k \in DOMAIN files :
         /\ CopyInv(k)
         /\ found.size + SECTOR - 1 < U32 => copied = Least(found.size, buf_size)
         /\ out_size = found.size

ReaderInv ==
    FilesOk /\ AskInv /\ NumberInv /\ DirInv /\ BufInv /\ FoundInv /\ MissMeansMissing

LEMMA MaxBufIs == MaxBuf \in Nat /\ \A b \in BufSizes : b <= MaxBuf
<1>1. \E m \in BufSizes : \A b \in BufSizes : b <= m
  BY SizesKnown
<1> QED BY <1>1, SizesKnown DEF MaxBuf

LEMMA FilesKept ==
    ASSUME UNCHANGED files
    PROVE  Cursor' = Cursor /\ Offset' = Offset /\ data_start' = data_start
<1>1. data_start' = data_start
  BY DEF data_start
<1>2. Cursor' = Cursor
  BY <1>1 DEF Cursor
<1>3. Offset' = Offset
  BY <1>1 DEF Offset, pad
<1> QED BY <1>1, <1>2, <1>3

LEMMA EntryKept ==
    ASSUME UNCHANGED files
    PROVE  \A k : Entry(k)' = Entry(k)
BY FilesKept DEF Entry

LEMMA NamedKept ==
    ASSUME UNCHANGED <<files, name>>
    PROVE  Named' = Named
BY DEF Named

LEMMA ReaderInit == Init => ReaderInv
<1> SUFFICES ASSUME Init PROVE ReaderInv
  OBVIOUS
<1> USE DEF Init, VfsInit
<1>1. FilesOk
  <2>1. PICK n \in 1 .. MaxFiles : files \in [1 .. n -> [name : FileNames, size : Sizes]]
    OBVIOUS
  <2>2. n \in Nat /\ files \in [1 .. n -> FileType]
    BY <2>1, VfsAssumption DEF FileType
  <2>3. files \in Seq(FileType)
    BY <2>2, SeqDef
  <2>4. Len(files) = n
    BY <2>2, <2>3, LenProperties
  <2> QED BY <2>3, <2>4 DEF FilesOk
<1>2. AskInv
  BY DEF AskInv, A!Init
<1>3. BufInv
  BY MaxBufIs DEF BufInv, OldBuf
<1> QED BY <1>1, <1>2, <1>3 DEF ReaderInv, NumberInv, DirInv, FoundInv, MissMeansMissing

\* What the reader knows is not touched by the drivers.
LEMMA VfsKept ==
    ASSUME ReaderInv, UNCHANGED <<files, available, pc, call, result>>
    PROVE  FilesOk' /\ NumberInv' /\ DirInv' /\ BufInv' /\ FoundInv' /\ MissMeansMissing'
<1>1. Named' = Named /\ \A k : Entry(k)' = Entry(k)
  BY NamedKept, EntryKept DEF call
<1>2. \A k : CopyInv(k)' = CopyInv(k)
  BY <1>1 DEF CopyInv, call
<1>3. DirInv'
  BY <1>1 DEF ReaderInv, DirInv, call
<1>4. BufInv'
  BY DEF ReaderInv, BufInv, call
<1>5. FoundInv'
  BY <1>2 DEF ReaderInv, FoundInv, call
<1>6. MissMeansMissing'
  BY <1>1 DEF ReaderInv, MissMeansMissing, call
<1>7. NumberInv'
  BY DEF ReaderInv, NumberInv, call
<1> QED BY <1>3, <1>4, <1>5, <1>6, <1>7 DEF ReaderInv, FilesOk

\* A driver gets on with the sector it was asked for, or is done with it.
LEMMA DriversKeep ==
    ASSUME ReaderInv, AtaStep \/ DriveStep \/ BlkStep \/ ServeStep
    PROVE  ReaderInv'
<1>1. UNCHANGED <<vfs, disk_present>> /\ ask' \in {ask, NoLba}
  BY DEF AtaStep, DriveStep, BlkStep, ServeStep, A!Driver, A!Absent, A!WaitBsy, A!Command,
         A!WaitDrq, A!Transfer, A!Return, A!DriveDone, A!drive, B!Driver, B!Absent,
         B!Publish, B!Wait, B!Status, B!Return, B!DeviceServe, B!drv
<1>2. \A l : Wants(l)' = Wants(l)
  BY <1>1 DEF Wants, MoreToCopy, sectors_needed, vfs, call
<1>3. AskInv'
  BY <1>1, <1>2 DEF ReaderInv, AskInv, vfs
<1> QED BY <1>1, <1>3, VfsKept DEF ReaderInv, vfs

LEMMA ReadKeeps ==
    ASSUME ReaderInv, NEW l \in Lbas, Read(l)
    PROVE  ReaderInv'
<1>1. Wants(l) /\ asked' /\ UNCHANGED <<files, available, pc, call, result>>
  BY DEF Read, AskDisk
<1>2. ask' = l /\ UNCHANGED disk_present
  BY DEF Read, A!ReadSector, B!ReadSector, A!drive
<1>3. Wants(l)'
  BY <1>1, <1>2 DEF Wants, MoreToCopy, sectors_needed, call
<1>4. pc \notin {"ready", "done"}
  BY <1>1 DEF Wants
<1>5. AskInv'
  BY <1>1, <1>2, <1>3, <1>4 DEF AskInv
<1> QED BY <1>1, <1>5, VfsKept DEF ReaderInv

\* A call starts a search of the whole directory.
LEMMA CallKeeps ==
    ASSUME ReaderInv, Call
    PROVE  ReaderInv'
<1>1. PICK n \in AskNames, b \in BufSizes : vfs_read_file(n, b)
  BY DEF Call
<1>2. UNCHANGED <<files, available, asked, ask, res>> /\ pc' \in {"dir", "done"}
  BY <1>1 DEF Call, vfs_read_file, Return, driver
<1>3. FilesOk' /\ FilesOk
  BY <1>2 DEF ReaderInv, FilesOk
<1>4. ~asked /\ ask = NoLba
  BY <1>1 DEF ReaderInv, AskInv, vfs_read_file
<1>5. AskInv'
  BY <1>2, <1>4 DEF AskInv
<1>6. /\ s' = 0 /\ copied' = 0 /\ buf' = OldBuf /\ buf_size' = b
      /\ dir_sector' = 1 /\ remaining' = Len(files)
  BY <1>1 DEF vfs_read_file, dir_start
<1>7. DirInv'
  <2>1. Len(files) \in Nat \ {0} /\ DOMAIN files = 1 .. Len(files)
    BY <1>3, FilesKnown
  <2>2. Len(files') - remaining' = 0 /\ (dir_sector' - 1) * ENTRIES_PER_SECTOR = 0
    BY <1>2, <1>6, <2>1, VfsAssumption
  <2>3. \A k \in Named' : k > 0
    BY <1>2, <2>1 DEF Named
  <2> QED BY <1>2, <1>6, <2>1, <2>2, <2>3 DEF DirInv
<1>8. BufInv'
  BY <1>6, MaxBufIs, VfsAssumption DEF BufInv, OldBuf
<1>9. NumberInv' /\ FoundInv' /\ MissMeansMissing'
  BY <1>1, <1>3, FilesKnown
  DEF NumberInv, FoundInv, MissMeansMissing, vfs_read_file, Return
<1> QED BY <1>3, <1>5, <1>7, <1>8, <1>9 DEF ReaderInv

\* An answer comes only to a reader that wants a sector.
LEMMA AnswerWanted ==
    ASSUME ReaderInv, Answered(TRUE)
    PROVE  \E l \in Lbas : Wants(l)
BY DEF ReaderInv, AskInv, Answered

\* After an answer nothing is asked; a step of the reader asks nothing itself.
LEMMA ReaderAsks ==
    ASSUME ReaderInv, ReaderStep
    PROVE  AskInv'
<1>1. UNCHANGED <<ask, res>>
  BY DEF ReaderStep, driver
<1>2. ~asked' /\ ask = NoLba
  <2>1. CASE vfs_init
    BY <2>1 DEF vfs_init, Answered, ReaderInv, AskInv, Wants
  <2>2. CASE DiskFails \/ SearchDir \/ CopySector
    BY <2>2 DEF DiskFails, SearchDir, CopySector, Answered
  <2>3. CASE NotFound
    BY <2>3 DEF NotFound, ReaderInv, AskInv, Wants
  <2>4. CASE FileDone
    BY <2>4 DEF FileDone, ReaderInv, AskInv, Wants
  <2> QED BY <2>1, <2>2, <2>3, <2>4 DEF ReaderStep, Reader
<1> QED BY <1>1, <1>2 DEF AskInv

LEMMA InitKeeps ==
    ASSUME ReaderInv, vfs_init
    PROVE  FilesOk' /\ NumberInv' /\ DirInv' /\ BufInv' /\ FoundInv' /\ MissMeansMissing'
BY DEF ReaderInv, vfs_init, FilesOk, NumberInv, DirInv, BufInv, FoundInv,
       MissMeansMissing, call

\* A failed disk read ends the call and leaves the rest of the buffer alone.
LEMMA FailKeeps ==
    ASSUME ReaderInv, DiskFails
    PROVE  FilesOk' /\ NumberInv' /\ DirInv' /\ BufInv' /\ FoundInv' /\ MissMeansMissing'
BY DEF ReaderInv, DiskFails, Return, FilesOk, NumberInv, DirInv, BufInv, FoundInv,
       MissMeansMissing

LEMMA NotFoundKeeps ==
    ASSUME ReaderInv, NotFound
    PROVE  FilesOk' /\ NumberInv' /\ DirInv' /\ BufInv' /\ FoundInv' /\ MissMeansMissing'
<1>1. UNCHANGED <<files, available, call>> /\ pc' = "done" /\ ~result'
  BY DEF NotFound, Return
<1>2. Named' = Named
  BY <1>1, NamedKept DEF call
<1>3. stale \/ Named = {}
  <2> SUFFICES ASSUME ~stale PROVE Named = {}
    OBVIOUS
  <2>1. DOMAIN files = 1 .. Len(files) /\ Len(files) \in Nat
    BY FilesKnown DEF ReaderInv
  <2>2. \A k \in Named : k > Len(files)
    BY <2>1 DEF NotFound, ReaderInv, DirInv
  <2>3. Named \subseteq 1 .. Len(files)
    BY <2>1 DEF Named
  <2> QED BY <2>1, <2>2, <2>3
<1> QED BY <1>1, <1>2, <1>3 DEF ReaderInv, FilesOk, NumberInv, DirInv, BufInv, FoundInv,
                                MissMeansMissing, call

\* A file that was found keeps its entry, size and name.
LEMMA CopyKnown ==
    ASSUME ReaderInv, NEW k \in DOMAIN files, CopyInv(k)
    PROVE  /\ k \in 1 .. Len(files)
           /\ found.size = files[k].size /\ found.size \in Nat
           /\ found.start = Cursor[k] /\ Cursor[k] \in Nat
           /\ Offset[k] = Cursor[k] * SECTOR
<1>1. FilesOk /\ k \in 1 .. Len(files)
  BY FilesKnown DEF ReaderInv
<1>2. files[k].size \in Nat /\ Cursor[k] \in Nat /\ Offset[k] = Cursor[k] * SECTOR
  BY <1>1, FilesKnown, CursorIs, OffsetAtCursor
<1>3. found.size = files[k].size /\ found.start = Cursor[k]
  BY DEF CopyInv, Entry
<1> QED BY <1>1, <1>2, <1>3

LEMMA FileDoneKeeps ==
    ASSUME ReaderInv, FileDone
    PROVE  FilesOk' /\ NumberInv' /\ DirInv' /\ BufInv' /\ FoundInv' /\ MissMeansMissing'
<1>1. /\ UNCHANGED <<files, name, buf_size, found, s, copied, buf, stale>>
      /\ pc = "data" /\ pc' = "done" /\ result' /\ out_size' = found.size /\ ~MoreToCopy
  BY DEF FileDone, Return
<1> SUFFICES ASSUME ~stale PROVE FoundInv'
  BY <1>1 DEF ReaderInv, FilesOk, NumberInv, DirInv, BufInv, FoundInv, MissMeansMissing
<1>2. PICK k \in DOMAIN files : CopyInv(k)
  BY <1>1 DEF ReaderInv, FoundInv
<1>3. CopyInv(k)'
  BY <1>1, <1>2, NamedKept, EntryKept DEF CopyInv
<1>4. ASSUME found.size + SECTOR - 1 < U32
      PROVE  copied = Least(found.size, buf_size)
  <2> DEFINE m == Least(found.size, buf_size)
  <2>1. found.size \in Nat /\ buf_size \in Nat /\ s \in Nat /\ SECTOR \in Nat
    BY <1>2, CopyKnown, VfsAssumption DEF ReaderInv, BufInv, CopyInv
  <2>2. m \in Nat /\ m <= found.size /\ s * SECTOR \in Nat
    BY <2>1 DEF Least
  <2>3. copied = Least(s * SECTOR, m)
    BY <1>2 DEF CopyInv
  <2>4. CASE copied >= m
    <3> HIDE DEF m
    <3>1. copied = m
      BY <2>2, <2>3, <2>4 DEF Least
    <3> QED BY <3>1 DEF m
  <2>5. CASE ~(copied >= m)
    <3> DEFINE q == CeilDiv(found.size, SECTOR)
    <3>1. q \in Nat /\ found.size <= q * SECTOR
      <4>1. q \in Nat /\ pad(found.size) \in Nat /\ found.size + pad(found.size) = q * SECTOR
        BY <2>1, PadFills
      <4> HIDE DEF q
      <4> QED BY <2>1, <4>1
    <3>2. ~(copied < m) \/ ~(s < q)
      <4>1. (found.size + SECTOR - 1) % U32 = found.size + SECTOR - 1
        BY <1>4, <2>1, VfsAssumption
      <4> QED BY <1>1, <4>1 DEF MoreToCopy, sectors_needed, CeilDiv
    <3> HIDE DEF m, q
    <3>3. copied \in Nat
      BY DEF ReaderInv, BufInv
    <3>4. q <= s
      BY <2>1, <2>2, <2>5, <3>1, <3>2, <3>3
    <3>5. q * SECTOR <= s * SECTOR
      BY <2>1, <3>1, <3>4
    <3>6. q * SECTOR \in Nat
      BY <2>1, <3>1
    <3> QED BY <2>1, <2>2, <2>3, <2>5, <3>1, <3>5, <3>6 DEF Least
  <2> QED BY <2>4, <2>5
<1> QED BY <1>1, <1>3, <1>4 DEF FoundInv

\* The entries of the directory sector that has been read.
LEMMA DirEntries ==
    ASSUME ReaderInv, ~stale, pc = "dir", remaining > 0, NEW i \in 0 .. ENTRIES_PER_SECTOR - 1,
           i < remaining
    PROVE  /\ Len(files) - remaining + i + 1 \in DOMAIN files
           /\ DirSector(dir_sector)[i] = Entry(Len(files) - remaining + i + 1)
<1> DEFINE k == Len(files) - remaining + i + 1
<1>1. DOMAIN files = 1 .. Len(files) /\ Len(files) \in Nat
  BY FilesKnown DEF ReaderInv
<1>2. remaining \in 0 .. Len(files)
      /\ Len(files) - remaining = (dir_sector - 1) * ENTRIES_PER_SECTOR
  BY DEF ReaderInv, DirInv
<1>3. k \in DOMAIN files
  BY <1>1, <1>2
<1>4. (dir_sector - dir_start) * ENTRIES_PER_SECTOR + i + 1 = k
  BY <1>2 DEF dir_start
<1> HIDE DEF k
<1>5. DirSector(dir_sector)[i] = Entry(k)
  BY <1>3, <1>4 DEF DirSector
<1> QED BY <1>3, <1>5 DEF k

\* While there are entries to search, the search is in the directory.
LEMMA InDirectory ==
    ASSUME ReaderInv, ~stale, pc = "dir", remaining > 0
    PROVE  dir_sector \in dir_start .. data_start - 1
<1> DEFINE L == Len(files)
           E == ENTRIES_PER_SECTOR
<1>1. L \in Nat /\ E \in Nat \ {0} /\ remaining \in Nat /\ dir_sector \in Nat \ {0}
      /\ L - remaining = (dir_sector - 1) * E
  BY FilesKnown, VfsAssumption DEF ReaderInv, DirInv
<1>2. data_start = 1 + (L + E - 1) \div E
  BY DEF data_start, dir_start, CeilDiv
<1> HIDE DEF L, E
<1>3. dir_sector * E <= L + E - 1
  <2>1. dir_sector * E = (dir_sector - 1) * E + E
    BY <1>1
  <2> QED BY <1>1, <2>1
<1>4. ASSUME NEW d \in Nat, NEW a \in Nat, NEW c \in Nat \ {0}, d * c <= a
      PROVE  a \div c \in Nat /\ d <= a \div c
  BY <1>4, SMTT(30)
<1>5. (L + E - 1) \div E \in Nat /\ dir_sector <= (L + E - 1) \div E
  <2>1. L + E - 1 \in Nat
    BY <1>1
  <2> QED BY <1>1, <1>3, <1>4, <2>1
<1> QED BY <1>1, <1>2, <1>5 DEF dir_start

\* Whatever sector is taken for a directory, the sizes in it are numbers.
LEMMA EntrySizes ==
    ASSUME FilesOk, NEW l, NEW sec \in AsDirectory(l), NEW i \in 0 .. ENTRIES_PER_SECTOR - 1
    PROVE  sec[i].size \in Nat
<1>1. CASE l \in dir_start .. data_start - 1
  <2> DEFINE k == (l - dir_start) * ENTRIES_PER_SECTOR + i + 1
  <2>1. sec[i] = IF k \in DOMAIN files THEN Entry(k) ELSE NoEntry
    BY <1>1 DEF AsDirectory, DirSector
  <2>2. k \in DOMAIN files => Entry(k).size \in Nat
    BY FilesKnown DEF Entry
  <2> HIDE DEF k
  <2> QED BY <2>1, <2>2 DEF NoEntry
<1>2. CASE l \notin dir_start .. data_start - 1
  <2>1. sec[i] \in Junk
    BY <1>2 DEF AsDirectory
  <2> QED BY <2>1, VfsAssumption
<1> QED BY <1>1, <1>2

LEMMA SearchKeeps ==
    ASSUME ReaderInv, SearchDir
    PROVE  FilesOk' /\ NumberInv' /\ DirInv' /\ BufInv' /\ FoundInv' /\ MissMeansMissing'
<1> DEFINE n == Least(remaining, ENTRIES_PER_SECTOR)
           HitIn(sec) == {i \in 0 .. n - 1 : sec[i].name = name}
           Len0 == Len(files) - remaining
<1>1. /\ pc = "dir" /\ Answered(TRUE)
      /\ UNCHANGED <<files, name, buf_size, s, copied, buf, result, failed, available>>
      /\ stale' = (stale \/ res.data # dir_sector)
  BY DEF SearchDir
<1>2. PICK sec \in AsDirectory(res.data) :
        IF HitIn(sec) # {}
        THEN /\ found' = sec[CHOOSE i \in HitIn(sec) : \A j \in HitIn(sec) : i <= j]
             /\ pc' = "data"
             /\ UNCHANGED <<remaining, dir_sector>>
        ELSE NextDir(n) /\ UNCHANGED <<found, pc>>
  BY DEF SearchDir
<1> DEFINE Hit == HitIn(sec)
<1>3. remaining \in Nat /\ remaining > 0 /\ copied = 0
  BY <1>1, AnswerWanted DEF Wants, ReaderInv, NumberInv
<1>4. ENTRIES_PER_SECTOR \in Nat \ {0}
  BY VfsAssumption
<1>5. n \in 1 .. remaining /\ n <= ENTRIES_PER_SECTOR
      /\ (n # ENTRIES_PER_SECTOR => n = remaining)
  BY <1>3, <1>4 DEF Least
<1>6. IF Hit # {}
      THEN /\ found' = sec[CHOOSE i \in Hit : \A j \in Hit : i <= j]
           /\ pc' = "data"
           /\ UNCHANGED <<remaining, dir_sector>>
      ELSE NextDir(n) /\ UNCHANGED <<found, pc>>
  BY <1>2
<1>7. Hit \subseteq 0 .. n - 1
  OBVIOUS
<1>8. ASSUME Hit # {}
      PROVE  LET h == CHOOSE i \in Hit : \A j \in Hit : i <= j
             IN  h \in Hit /\ \A j \in Hit : h <= j
  <2> HIDE DEF Hit
  <2>1. Hit \in SUBSET Nat
    BY <1>3, <1>5, <1>7
  <2>2. \E i \in Hit : \A j \in Hit : i <= j
    BY <1>8, <2>1, LeastNat
  <2> QED BY <2>2
<1> HIDE DEF Hit, HitIn, n
<1>9. FilesOk' /\ NumberInv' /\ BufInv' /\ MissMeansMissing' /\ pc' \in {"dir", "data"}
  <2>1. FilesOk' /\ BufInv' /\ pc' \in {"dir", "data"}
    BY <1>1, <1>6 DEF ReaderInv, FilesOk, BufInv
  <2>2. NumberInv'
    <3>1. CASE Hit # {}
      <4> DEFINE h == CHOOSE i \in Hit : \A j \in Hit : i <= j
      <4>1. h \in Hit
        BY <1>8, <3>1
      <4>2. h \in 0 .. ENTRIES_PER_SECTOR - 1
        <5> HIDE DEF h
        <5>1. h \in 0 .. n - 1 /\ n \in Nat
          BY <1>3, <1>5, <1>7, <4>1
        <5> QED BY <1>4, <1>5, <5>1
      <4>3. sec[h].size \in Nat
        BY <4>2, EntrySizes DEF ReaderInv
      <4> QED BY <1>6, <3>1, <4>3 DEF NumberInv
    <3>2. CASE Hit = {}
      BY <1>1, <1>3, <1>5, <1>6, <3>2 DEF NumberInv, NextDir
    <3> QED BY <3>1, <3>2
  <2> QED BY <2>1, <2>2 DEF MissMeansMissing
<1> SUFFICES ASSUME ~stale' PROVE DirInv' /\ FoundInv'
  BY <1>9 DEF DirInv, FoundInv
<1>10. ~stale /\ res.data = dir_sector
  BY <1>1
<1>11. sec = DirSector(dir_sector)
  BY <1>1, <1>3, <1>10, InDirectory DEF AsDirectory
<1>12. /\ DOMAIN files = 1 .. Len(files) /\ Len(files) \in Nat
       /\ remaining \in 0 .. Len(files) /\ dir_sector \in Nat \ {0}
       /\ Len0 = (dir_sector - 1) * ENTRIES_PER_SECTOR
       /\ \A k \in Named : k > Len0
       /\ s = 0 /\ copied = 0
  BY <1>1, <1>10, <1>3, FilesKnown DEF ReaderInv, DirInv
<1>13. \A i \in 0 .. n - 1 : Len0 + i + 1 \in DOMAIN files /\ sec[i] = Entry(Len0 + i + 1)
  <2> TAKE i \in 0 .. n - 1
  <2>1. i \in 0 .. ENTRIES_PER_SECTOR - 1 /\ i < remaining
    BY <1>12, <1>4, <1>5
  <2> QED BY <1>1, <1>3, <1>10, <1>11, <2>1, DirEntries
<1>14. \A i \in 0 .. n - 1 : i \in Hit <=> Len0 + i + 1 \in Named
  <2> TAKE i \in 0 .. n - 1
  <2> HIDE DEF Len0
  <2>1. sec[i].name = Trunc[files[Len0 + i + 1].name] /\ Len0 + i + 1 \in DOMAIN files
    <3>1. sec[i] = Entry(Len0 + i + 1) /\ Len0 + i + 1 \in DOMAIN files
      BY <1>13
    <3>2. Entry(Len0 + i + 1).name = Trunc[files[Len0 + i + 1].name]
      BY DEF Entry
    <3> QED BY <3>1, <3>2
  <2> QED BY <2>1 DEF Hit, HitIn, Named
<1>15. Named' = Named
  BY <1>1, NamedKept
<1>16. Len0 \in Nat /\ n \in Nat /\ Len(files) = Len0 + remaining
  BY <1>12, <1>5
<1> HIDE DEF Len0
<1>17. CASE Hit # {}
  <2> DEFINE h == CHOOSE i \in Hit : \A j \in Hit : i <= j
  <2>1. h \in Hit /\ \A j \in Hit : h <= j
    BY <1>8, <1>17
  <2>2. h \in 0 .. n - 1
    BY <1>7, <2>1
  <2>3. PICK k \in DOMAIN files :
            k = Len0 + h + 1 /\ k \in Named /\ found' = Entry(k) /\ pc' = "data"
    BY <1>13, <1>14, <1>6, <1>17, <2>1, <2>2
  <2>4. ASSUME NEW j \in Named PROVE k <= j
    <3>1. j \in 1 .. Len(files) /\ j > Len0
      BY <1>12 DEF Named
    <3>2. CASE j <= Len0 + n
      <4> DEFINE i == j - Len0 - 1
      <4>1. i \in 0 .. n - 1 /\ j = Len0 + i + 1
        BY <1>16, <3>1, <3>2
      <4>2. i \in Hit
        BY <1>14, <4>1
      <4>3. h <= i
        BY <2>1, <4>2
      <4> HIDE DEF i, h
      <4> QED BY <1>12, <1>5, <1>16, <2>2, <2>3, <4>1, <4>3
    <3>3. CASE ~(j <= Len0 + n)
      <4> HIDE DEF h
      <4> QED BY <1>12, <1>5, <1>16, <2>2, <2>3, <3>1, <3>3
    <3> QED BY <3>2, <3>3
  <2>5. Entry(k)' = Entry(k)
    BY <1>1, EntryKept
  <2>6. found'.size \in Nat /\ buf_size' \in Nat
    <3>1. found'.size = files[k].size
      BY <2>3 DEF Entry
    <3> QED BY <1>1, <1>12, <2>3, <3>1, FilesKnown DEF ReaderInv, BufInv
  <2>7. Least(s' * SECTOR, Least(found'.size, buf_size')) = 0
    <3>1. Least(found'.size, buf_size') \in Nat
      BY <2>6 DEF Least
    <3> QED BY <1>1, <1>12, <3>1, VfsAssumption DEF Least
  <2>8. \A b \in 0 .. MaxBuf' : ~(b < copied')
    BY <1>1, <1>12, MaxBufIs
  <2>9. CopyInv(k)'
    BY <1>1, <1>12, <1>15, <2>3, <2>4, <2>5, <2>7, <2>8 DEF CopyInv
  <2>10. FoundInv'
    BY <1>1, <2>3, <2>9 DEF FoundInv
  <2> QED BY <2>3, <2>10 DEF DirInv
<1>18. CASE Hit = {}
  <2>1. remaining' = remaining - n /\ dir_sector' = dir_sector + 1 /\ pc' = "dir"
    BY <1>1, <1>6, <1>18 DEF NextDir
  <2>2. \A k \in Named : k > Len0 + n
    <3> SUFFICES ASSUME NEW k \in Named, ~(k > Len0 + n) PROVE FALSE
      OBVIOUS
    <3>1. k \in 1 .. Len(files) /\ k > Len0
      BY <1>12 DEF Named
    <3> DEFINE i == k - Len0 - 1
    <3>2. i \in 0 .. n - 1 /\ k = Len0 + i + 1
      BY <1>16, <3>1
    <3>3. i \in Hit
      BY <1>14, <3>2
    <3> QED BY <1>18, <3>3
  <2>3. remaining' \in 0 .. Len(files) /\ Len(files) - remaining' = Len0 + n
    BY <1>12, <1>5, <1>16, <2>1
  <2>4. remaining' > 0 => n = ENTRIES_PER_SECTOR
    BY <1>12, <1>5, <2>1
  <2>5. Len0 + ENTRIES_PER_SECTOR = (dir_sector' - 1) * ENTRIES_PER_SECTOR
    <3>1. dir_sector' - 1 = (dir_sector - 1) + 1
      BY <1>12, <2>1
    <3>2. ((dir_sector - 1) + 1) * ENTRIES_PER_SECTOR
            = (dir_sector - 1) * ENTRIES_PER_SECTOR + ENTRIES_PER_SECTOR
      BY <1>12, <1>4
    <3> QED BY <1>12, <3>1, <3>2
  <2>6. DirInv'
    BY <1>1, <1>12, <1>15, <2>1, <2>2, <2>3, <2>4, <2>5 DEF DirInv
  <2> QED BY <2>1, <2>6 DEF FoundInv
<1> QED BY <1>17, <1>18

\* Sector s of the file found goes to bytes s * SECTOR on of the buffer.
LEMMA CopyKeeps ==
    ASSUME ReaderInv, CopySector
    PROVE  FilesOk' /\ NumberInv' /\ DirInv' /\ BufInv' /\ FoundInv' /\ MissMeansMissing'
<1> DEFINE m == Least(found.size, buf_size)
           chunk == Least(m - copied, SECTOR)
           tmp == DataSector(res.data)
           p == s * SECTOR
<1>1. /\ pc = "data" /\ pc' = "data" /\ Answered(TRUE)
      /\ UNCHANGED <<files, name, buf_size, found, out_size, failed, result, available>>
      /\ stale' = (stale \/ res.data # found.start + s) /\ s' = s + 1 /\ copied' = copied + chunk
      /\ buf' = [b \in 0 .. MaxBuf |->
                   IF copied <= b /\ b < copied + chunk THEN tmp[b - copied] ELSE buf[b]]
  BY DEF CopySector
<1>2. /\ copied < m /\ found.size \in Nat /\ buf_size \in Nat /\ copied \in Nat
      /\ SECTOR \in Nat \ {0}
  BY <1>1, AnswerWanted, VfsAssumption
  DEF Wants, MoreToCopy, ReaderInv, NumberInv, BufInv
<1>3. m \in Nat /\ m <= found.size /\ m <= buf_size
  BY <1>2 DEF Least
<1> HIDE DEF m, p, tmp, chunk
<1>4. chunk \in 1 .. SECTOR /\ copied + chunk <= m
  BY <1>2, <1>3 DEF chunk, Least
<1>5. MaxBuf' = MaxBuf
  BY DEF MaxBuf
<1>6. BufInv'
  <2>1. \A b \in 0 .. MaxBuf : b >= copied' => buf'[b] = Old
    <3> SUFFICES ASSUME NEW b \in 0 .. MaxBuf, b >= copied' PROVE buf'[b] = Old
      OBVIOUS
    <3>1. ~(b < copied + chunk) /\ b >= copied
      BY <1>1, <1>2, <1>4, MaxBufIs
    <3>2. buf[b] = Old
      BY <3>1 DEF ReaderInv, BufInv
    <3> QED BY <1>1, <3>1, <3>2
  <2>2. copied' \in Nat /\ copied' <= buf_size
    BY <1>1, <1>2, <1>3, <1>4
  <2> QED BY <1>1, <1>2, <1>5, <2>1, <2>2 DEF BufInv
<1> SUFFICES ASSUME ~stale' PROVE FoundInv'
  BY <1>1, <1>2, <1>6 DEF ReaderInv, FilesOk, NumberInv, DirInv, FoundInv, MissMeansMissing
<1>7. PICK k \in DOMAIN files : CopyInv(k)
  BY <1>1 DEF ReaderInv, FoundInv
<1>8. /\ k \in 1 .. Len(files) /\ FilesOk
      /\ found.size = files[k].size /\ res.data = Cursor[k] + s
      /\ Cursor[k] \in Nat /\ Offset[k] = Cursor[k] * SECTOR
      /\ s \in Nat
  BY <1>1, <1>7, CopyKnown DEF ReaderInv, CopyInv
<1>9. p \in Nat /\ (s + 1) * SECTOR = p + SECTOR
  BY <1>2, <1>8 DEF p
<1>10. copied = p
  <2>1. copied = Least(p, m)
    BY <1>7 DEF CopyInv, p, m
  <2> QED BY <1>2, <1>3, <1>9, <2>1 DEF Least
<1>11. copied + chunk = Least(p + SECTOR, m)
  BY <1>2, <1>3, <1>9, <1>10 DEF chunk, Least
<1>12. ASSUME NEW b \in 0 .. MaxBuf, copied <= b, b < copied + chunk
       PROVE  tmp[b - copied] = <<k, b>>
  <2>1. b \in Nat /\ b - copied \in 0 .. SECTOR - 1 /\ b < files[k].size
    BY <1>2, <1>3, <1>4, <1>8, <1>12, MaxBufIs
  <2>2. (Cursor[k] + s) * SECTOR = Cursor[k] * SECTOR + p
    BY <1>2, <1>8 DEF p
  <2>3. Cursor[k] * SECTOR \in Nat
    BY <1>2, <1>8
  <2>4. (Cursor[k] + s) * SECTOR + (b - copied) = Offset[k] + b
    BY <1>2, <1>8, <1>9, <1>10, <2>1, <2>2, <2>3
  <2>5. Cursor[k] + s \in Nat
    BY <1>8
  <2>6. DataSector(Cursor[k] + s)[b - copied] = <<k, b>>
    <3> DEFINE l == Cursor[k] + s
               c == b - copied
    <3>1. /\ l \in Nat /\ c \in 0 .. SECTOR - 1 /\ l * SECTOR + c = Offset[k] + b
          /\ b \in Nat /\ b < files[k].size /\ k \in 1 .. Len(files) /\ FilesOk
      BY <1>8, <2>1, <2>4, <2>5
    <3> HIDE DEF l, c
    <3>2. DataSector(l)[c] = <<k, b>>
      BY <3>1, DataByte
    <3> QED BY <3>2 DEF l, c
  <2> QED BY <1>8, <2>6 DEF tmp
<1>13. \A b \in 0 .. MaxBuf : b < copied' => buf'[b] = <<k, b>>
  <2> SUFFICES ASSUME NEW b \in 0 .. MaxBuf, b < copied' PROVE buf'[b] = <<k, b>>
    OBVIOUS
  <2>1. CASE copied <= b
    BY <1>1, <1>12, <2>1
  <2>2. CASE ~(copied <= b)
    <3>1. b < copied
      BY <1>2, <2>2, MaxBufIs
    <3>2. buf[b] = <<k, b>>
      BY <1>7, <3>1 DEF CopyInv
    <3> QED BY <1>1, <2>2, <3>2
  <2> QED BY <2>1, <2>2
<1>14. CopyInv(k)'
  <2>1. copied' = Least(s' * SECTOR, Least(found'.size, buf_size'))
    BY <1>1, <1>9, <1>11 DEF m
  <2>2. s' \in Nat
    BY <1>1, <1>8
  <2> QED BY <1>1, <1>5, <1>7, <1>13, <2>1, <2>2, NamedKept, EntryKept DEF CopyInv
<1> QED BY <1>1, <1>14 DEF FoundInv

LEMMA ReaderPreserved ==
    ReaderInv /\ [Next]_vars => ReaderInv'
<1> SUFFICES ASSUME ReaderInv, [Next]_vars PROVE ReaderInv'
  OBVIOUS
<1>1. CASE ReaderStep
  <2>1. FilesOk' /\ NumberInv' /\ DirInv' /\ BufInv' /\ FoundInv' /\ MissMeansMissing'
    BY <1>1, InitKeeps, FailKeeps, SearchKeeps, NotFoundKeeps, CopyKeeps, FileDoneKeeps
    DEF ReaderStep, Reader
  <2> QED BY <1>1, <2>1, ReaderAsks DEF ReaderInv
<1>2. CASE \E l \in Lbas : Read(l)
  BY <1>2, ReadKeeps
<1>3. CASE AtaStep \/ BlkStep \/ DriveStep \/ ServeStep
  BY <1>3, DriversKeep
<1>4. CASE Call
  BY <1>4, CallKeeps
<1>5. CASE UNCHANGED vars
  <2>1. UNCHANGED <<vfs, driver>>
    BY <1>5 DEF vars
  <2>2. AskInv'
    BY <2>1 DEF ReaderInv, AskInv, Wants, MoreToCopy, sectors_needed, vfs, call, driver
  <2> QED BY <2>1, <2>2, VfsKept DEF vfs, ReaderInv
<1> QED BY <1>1, <1>2, <1>3, <1>4, <1>5 DEF Next, Kernel

LEMMA ReaderIsRight == ReaderInv => ReadRight
<1> SUFFICES ASSUME ReaderInv PROVE ReadRight
  OBVIOUS
<1>1. \A b \in buf_size .. MaxBuf : buf[b] = Old
  BY MaxBufIs DEF ReaderInv, BufInv
<1>2. ASSUME pc = "done", result, ~stale
      PROVE  \E k \in Named :
               /\ \A j \in Named : k <= j
               /\ out_size = files[k].size
               /\ files[k].size + SECTOR - 1 < U32 =>
                    \A b \in 0 .. MaxBuf :
                      buf[b] = IF b < files[k].size /\ b < buf_size THEN <<k, b>> ELSE Old
  <2>1. PICK k \in DOMAIN files :
             /\ CopyInv(k)
             /\ found.size + SECTOR - 1 < U32 => copied = Least(found.size, buf_size)
             /\ out_size = found.size
    BY <1>2 DEF ReaderInv, FoundInv
  <2>2. found.size = files[k].size /\ files[k].size \in Nat /\ buf_size \in Nat
    BY <2>1, CopyKnown DEF ReaderInv, BufInv
  <2>3. ASSUME files[k].size + SECTOR - 1 < U32, NEW b \in 0 .. MaxBuf
        PROVE  buf[b] = IF b < files[k].size /\ b < buf_size THEN <<k, b>> ELSE Old
    <3>1. b \in Nat /\ (b < files[k].size /\ b < buf_size <=> b < copied)
      BY <2>1, <2>2, <2>3, MaxBufIs DEF Least
    <3>2. b < copied => buf[b] = <<k, b>>
      BY <2>1 DEF CopyInv
    <3>3. ~(b < copied) => buf[b] = Old
      BY <3>1 DEF ReaderInv, BufInv
    <3> QED BY <3>1, <3>2, <3>3
  <2> QED BY <2>1, <2>2, <2>3 DEF CopyInv
<1> QED BY <1>1, <1>2 DEF ReadRight

\* vfs_read_file over either driver: a read that succeeds has given the caller
\* the bytes of the first file of that name, unless the disk gave it the sector
\* of an earlier request or the size wraps sectors_needed, and has written not
\* one byte beyond the buffer in any case, for every image mkfs.py writes and
\* every interleaving with a failing or late device.
THEOREM ReadSafe == Spec => []ReadRight
<1>1. ReaderInv /\ [Next]_vars => ReaderInv'
  BY ReaderPreserved
<1> QED BY <1>1, ReaderInit, ReaderIsRight, PTL DEF Spec

\* And a read that fails although no sector did and none was another's has asked
\* for a file that is not in the image.
THEOREM MissSafe == Spec => []MissMeansMissing
<1>1. ReaderInv /\ [Next]_vars => ReaderInv'
  BY ReaderPreserved
<1>2. ReaderInv => MissMeansMissing
  BY DEF ReaderInv
<1> QED BY <1>1, <1>2, ReaderInit, PTL DEF Spec
=============================================================================
