------------------------------- MODULE MCBoot -------------------------------
(***************************************************************************)
(* Images of two segments on pages of two bytes: every size and alignment  *)
(* of the first, two of the second, which lies on other pages, as the      *)
(* linker lays them out.  Three virtio slots, at most one device that the  *)
(* probe turns down.  A picture of 3 by 2 pixels on frames of 16 bytes;    *)
(* bytes of 8 values.                                                      *)
(***************************************************************************)
EXTENDS Boot

Seg1 == {s \in [load : BOOLEAN, vaddr : {0, 1}, memsz : 0 .. 3, filesz : 0 .. 3] :
           s.filesz <= s.memsz /\ (~s.load => s.filesz = 3)}
Seg2 == {[load |-> TRUE, vaddr |-> 5, memsz |-> 3, filesz |-> n] : n \in {1, 3}}

Images == {[valid |-> TRUE, segs |-> <<s, t>>] : s \in Seg1, t \in Seg2} \cup {NoImage}

MC_Elfs == {e \in Images : LaidOut(e)}

MC_Machines ==
    {m \in [D!Slots -> [kind : D!Kinds, fault : D!Faults]] :
       /\ Cardinality({s \in D!Slots : m[s].fault # "ok"}) <= 1
       /\ \A s \in D!Slots : m[s].kind \in {"none", "Tablet"} => m[s].fault = "ok"}

Other == [name |-> "etc/other", select |-> <<4, 0>>]
Found == [name |-> "etc/ramfb", select |-> <<4, 1>>]
MC_Dirs == {<<Other>>, <<Other, Found>>}
=============================================================================
