------------------------------- MODULE MCVmm -------------------------------
(***************************************************************************)
(* Four levels of three entries.  The first page lies in a block of both   *)
(* boot maps; the second in one of aarch64's, and below x86_64's pdp_table *)
(* where there is none; the others share all their tables.  A full tree    *)
(* has eight tables, six of them without its pages.                        *)
(***************************************************************************)
EXTENDS Vmm, Sequences

MC_BootTables == <<1, 2, 3>>
MC_Pages == {<<0, 0, 0, 0>>, <<0, 1, 0, 1>>, <<2, 0, 1, 0>>, <<2, 0, 1, 2>>}
============================================================================
