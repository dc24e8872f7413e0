------------------------------ MODULE MCStorage ------------------------------
(***************************************************************************)
(* Sectors of two bytes and two entries; "long" does not fit into an entry *)
(* and is stored as "lon".  Three files need a second directory sector,    *)
(* which is half full; an empty file takes no sector, three bytes take one *)
(* and a half, and seven are the size that overflows sectors_needed.  A    *)
(* buffer ends with a sector or holds the whole of a file of three bytes.  *)
(***************************************************************************)
EXTENDS Storage

\* File contents that look like no entry, or like one of a file.
MC_Junk == {NoEntry, [name |-> "a", start |-> 1, size |-> 7]}

MC_Trunc == [n \in {"a", "long"} |-> IF n = "long" THEN "lon" ELSE n]
=============================================================================
