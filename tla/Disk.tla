-------------------------------- MODULE Disk --------------------------------
(***************************************************************************)
(* What arch_disk_read_sector promises: one request at a time, answered    *)
(* with failure or with the contents of that very sector.  The exception   *)
(* is a request that follows one that was given up: the drive may still    *)
(* have the answer to that one, and it may be taken for this one's.        *)
(***************************************************************************)
CONSTANT NoLba

VARIABLES
    ask,    \* the sector being read, NoLba between two requests
    res,    \* [ok, data] of the last request; a sector's contents are
            \* stood for by its number
    late    \* the sector of a request that was given up and may still be
            \* answered, if it is not the one being read; NoLba otherwise

disk == <<ask, res, late>>

DiskInit == ask = NoLba /\ ~res.ok /\ late = NoLba

Ask ==
    /\ ask = NoLba /\ ask' # NoLba
    /\ late' = IF late = ask' THEN NoLba ELSE late
    /\ UNCHANGED res

\* A failed request is the only one whose answer may come late; a success
\* leaves nothing behind.
Answer ==
    /\ ask # NoLba
    /\ ask' = NoLba
    /\ \/ ~res'.ok /\ late' \in {ask, NoLba}
       \/ res'.ok /\ res'.data \in {ask, late} \ {NoLba} /\ late' = NoLba

\* The drive drops what it has, for an error or for a new command.
Forget == late # NoLba /\ late' = NoLba /\ UNCHANGED <<ask, res>>

DiskNext == Ask \/ Answer \/ Forget

DiskSafety == DiskInit /\ [][DiskNext]_disk
=============================================================================
