--------------------------------- MODULE Vfs ---------------------------------
(***************************************************************************)
(* The read-only filesystem: the image tools/mkfs.py writes and the reader *)
(* fs/vfs.c, over a disk driver of which it sees the interface of Disk.    *)
(* The two programs share no code, only the format; the properties are     *)
(* about their agreement.  The byte at offset o of the k-th file is        *)
(* <<k, o>>.  Module Storage puts a driver under it.                       *)
(***************************************************************************)
EXTENDS Integers, Sequences

CONSTANTS
    SECTOR,             \* bytes of a sector, 512
    ENTRIES_PER_SECTOR, \* directory entries of a sector, 8
    FileNames,          \* names given to mkfs
    AskNames,           \* names given to vfs_read_file
    Trunc,              \* file name -> what fits into name[32] with its NUL
    MaxFiles, Sizes, BufSizes,
    U32,                \* modulus of the reader's integers, 2^32
    Junk,               \* what file contents may look like as directory entries
    NoLba

ASSUME VfsAssumption ==
    /\ SECTOR \in Nat \ {0} /\ ENTRIES_PER_SECTOR \in Nat \ {0}
    /\ Trunc \in [FileNames -> AskNames]
    /\ MaxFiles \in Nat /\ U32 \in Nat \ {0}
    /\ Sizes \subseteq 0 .. U32 - 1 /\ BufSizes \subseteq 0 .. U32 - 1
    /\ \A e \in Junk : e.start \in Nat /\ e.size \in 0 .. U32 - 1
    /\ \A S \in {Sizes, BufSizes} : \E m \in S : \A z \in S : z <= m
    /\ NoLba \notin Nat

VARIABLES
    files,      \* what mkfs was given: a sequence of [name, size]
    available,
    pc,         \* "ready" and "done" between two calls
    name, buf_size,         \* arguments of vfs_read_file
    remaining, dir_sector,
    found,                  \* the directory entry that matched
    s, copied, buf,
    result, out_size,
    asked,                  \* inside arch_disk_read_sector
    failed,                 \* history: a disk read of this call has failed
    stale,                  \* history: the disk has given this call a sector it
                            \* had not asked for
    disk_present, ask, res  \* the driver's interface, see Disk

call == <<name, buf_size, remaining, dir_sector, found, s, copied, buf, out_size, failed,
          stale>>
vfs  == <<files, available, pc, call, result, asked>>

Pad == << >>
NoName  == "no name"    \* that of an entry of zeroes
NoEntry == [name |-> NoName, start |-> 0, size |-> 0]
Old == <<"old">>    \* a byte of the caller's buffer not written

CeilDiv(a, b) == (a + b - 1) \div b
Least(a, b)   == IF a < b THEN a ELSE b

-----------------------------------------------------------------------------
(* tools/mkfs.py.                                                          *)

dir_start  == 1
data_start == dir_start + CeilDiv(Len(files), ENTRIES_PER_SECTOR)

\* The cursor of the directory: whole sectors of the files before.
Cursor[k \in DOMAIN files] ==
    IF k = 1 THEN data_start ELSE Cursor[k - 1] + CeilDiv(files[k - 1].size, SECTOR)

Entry(k) == [name |-> Trunc[files[k].name], start |-> Cursor[k], size |-> files[k].size]

\* Sector l as directory: its entries, and none where the file list has ended.
DirSector(l) ==
    [i \in 0 .. ENTRIES_PER_SECTOR - 1 |->
       LET k == (l - dir_start) * ENTRIES_PER_SECTOR + i + 1
       IN  IF k \in DOMAIN files THEN Entry(k) ELSE NoEntry]

\* Mutant of pad: a full last sector is padded with another one.
pad_always(n) == SECTOR - (n % SECTOR)

pad(n) == (-n) % SECTOR

\* Where the bytes of file k are written: after the directory, each file and
\* its padding in turn.
Offset[k \in DOMAIN files] ==
    IF k = 1 THEN data_start * SECTOR
    ELSE Offset[k - 1] + files[k - 1].size + pad(files[k - 1].size)

\* Sector l of the image, in its data part.
DataSector(l) ==
    [b \in 0 .. SECTOR - 1 |->
       LET at   == l * SECTOR + b
           Here == {k \in DOMAIN files : Offset[k] <= at /\ at < Offset[k] + files[k].size}
       IN  IF Here = {} THEN Pad
           ELSE LET k == CHOOSE k \in Here : TRUE IN <<k, at - Offset[k]>>]

\* What the reader may find in sector l when it takes it for a directory.
AsDirectory(l) ==
    IF l \in dir_start .. data_start - 1 THEN {DirSector(l)}
    ELSE [0 .. ENTRIES_PER_SECTOR - 1 -> Junk]

-----------------------------------------------------------------------------
MaxBuf  == CHOOSE m \in BufSizes : \A b \in BufSizes : b <= m
OldBuf  == [b \in 0 .. MaxBuf |-> Old]

VfsInit ==
    /\ files \in UNION {[1 .. n -> [name : FileNames, size : Sizes]] : n \in 1 .. MaxFiles}
    /\ available = FALSE
    /\ pc = "init"
    /\ name = NoName /\ buf_size = 0
    /\ remaining = 0 /\ dir_sector = 0
    /\ found = NoEntry
    /\ s = 0 /\ copied = 0
    /\ buf = OldBuf
    /\ result = FALSE /\ out_size = 0
    /\ asked = FALSE /\ failed = FALSE /\ stale = FALSE

-----------------------------------------------------------------------------
(* Reading a sector: the call, and what follows with its answer.           *)

\* size + SECTOR_SIZE - 1 is a u32.
sectors_needed == ((found.size + SECTOR - 1) % U32) \div SECTOR

\* The condition of the copy loop; sectors_needed and to_copy are its bounds.
MoreToCopy ==
    /\ s < sectors_needed
    /\ copied < Least(found.size, buf_size)

\* The sector the reader wants next.
Wants(l) ==
    \/ pc = "init" /\ disk_present /\ l = 0
    \/ pc = "dir"  /\ remaining > 0 /\ l = dir_sector
    \/ pc = "data" /\ MoreToCopy /\ l = found.start + s

\* arch_disk_read_sector is entered; the driver's ReadSector(l) goes with it.
AskDisk(l) ==
    /\ ~asked /\ Wants(l)
    /\ asked' = TRUE
    /\ UNCHANGED <<files, available, pc, call, result>>

\* arch_disk_read_sector has returned.
Answered(ok) ==
    /\ asked /\ ask = NoLba /\ res.ok = ok
    /\ asked' = FALSE

Return(ok) == result' = ok /\ pc' = "done"

-----------------------------------------------------------------------------
\* vfs_init: no disk, an unreadable sector 0 or another magic leaves it off.
vfs_init ==
    /\ pc = "init"
    /\ \/ ~disk_present /\ UNCHANGED <<available, asked>>
       \/ Answered(FALSE) /\ UNCHANGED available
       \/ Answered(TRUE) /\ available' \in BOOLEAN
    /\ pc' = "ready"
    /\ UNCHANGED <<files, call, result>>

\* vfs_read_file(n, buf, b, out_size): the superblock gives the directory.
vfs_read_file(n, b) ==
    /\ pc \in {"ready", "done"}
    /\ name' = n /\ buf_size' = b
    /\ remaining' = Len(files) /\ dir_sector' = dir_start
    /\ found' = NoEntry /\ s' = 0 /\ copied' = 0
    /\ buf' = OldBuf /\ out_size' = 0 /\ failed' = FALSE /\ stale' = FALSE
    /\ IF available THEN pc' = "dir" /\ UNCHANGED result ELSE Return(FALSE)
    /\ UNCHANGED <<files, available, asked>>

DiskFails ==
    /\ pc \in {"dir", "data"}
    /\ Answered(FALSE)
    /\ failed' = TRUE
    /\ Return(FALSE)
    /\ UNCHANGED <<files, available, name, buf_size, remaining, dir_sector, found,
                   s, copied, buf, out_size, stale>>

\* Mutant of NextDir: the next directory sector is not gone to.
NextDirStays(n) == remaining' = remaining - n /\ UNCHANGED dir_sector

NextDir(n) == remaining' = remaining - n /\ dir_sector' = dir_sector + 1

\* One directory sector has been read and is searched.
SearchDir ==
    /\ pc = "dir"
    /\ Answered(TRUE)
    /\ \E sector \in AsDirectory(res.data) :
         LET n == Least(remaining, ENTRIES_PER_SECTOR)
             Hit == {i \in 0 .. n - 1 : sector[i].name = name}
         IN  IF Hit # {}
             THEN /\ found' = sector[CHOOSE i \in Hit : \A j \in Hit : i <= j]
                  /\ pc' = "data"
                  /\ UNCHANGED <<remaining, dir_sector>>
             ELSE NextDir(n) /\ UNCHANGED <<found, pc>>
    /\ stale' = (stale \/ res.data # dir_sector)
    /\ UNCHANGED <<files, available, name, buf_size, s, copied, buf, out_size,
                   failed, result>>

NotFound ==
    /\ pc = "dir"
    /\ remaining = 0
    /\ Return(FALSE)
    /\ UNCHANGED <<files, available, call, asked>>

\* One data sector has been read, the part that fits is copied.
CopySector ==
    /\ pc = "data"
    /\ Answered(TRUE)
    /\ LET tmp   == DataSector(res.data)
           chunk == Least(Least(found.size, buf_size) - copied, SECTOR)
       IN  /\ buf' = [b \in 0 .. MaxBuf |->
                        IF copied <= b /\ b < copied + chunk THEN tmp[b - copied] ELSE buf[b]]
           /\ copied' = copied + chunk
    /\ s' = s + 1
    /\ stale' = (stale \/ res.data # found.start + s)
    /\ UNCHANGED <<files, available, pc, name, buf_size, remaining, dir_sector,
                   found, out_size, failed, result>>

FileDone ==
    /\ pc = "data"
    /\ ~MoreToCopy
    /\ out_size' = found.size
    /\ Return(TRUE)
    /\ UNCHANGED <<files, available, name, buf_size, remaining, dir_sector, found,
                   s, copied, buf, failed, stale, asked>>

Reader == vfs_init \/ DiskFails \/ SearchDir \/ NotFound \/ CopySector \/ FileDone

-----------------------------------------------------------------------------
\* Files the name asked for is the stored name of; the first one counts.
Named == {k \in DOMAIN files : Trunc[files[k].name] = name}

\* A successful read has given the caller the real size of the first file of
\* that name, its first bytes if size + SECTOR_SIZE - 1 does not overflow, and
\* not a byte more than the buffer holds, unless the disk gave it a sector it
\* had not asked for (the buffer is safe even then).
ReadRight ==
    /\ (pc = "done" /\ result /\ ~stale) =>
         \E k \in Named :
           /\ \A j \in Named : k <= j
           /\ out_size = files[k].size
           /\ files[k].size + SECTOR - 1 < U32 =>
                \A b \in 0 .. MaxBuf :
                  buf[b] = IF b < files[k].size /\ b < buf_size THEN <<k, b>> ELSE Old
    /\ \A b \in buf_size .. MaxBuf : buf[b] = Old

\* A read that fails though every sector was readable asked for a file that is
\* not there: no entry of any directory sector is overlooked, unless the disk
\* gave it a sector it had not asked for.
MissMeansMissing ==
    (pc = "done" /\ ~result /\ available /\ ~failed /\ ~stale) => Named = {}
=============================================================================
