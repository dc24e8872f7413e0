----------------------------- MODULE AddrSpace -----------------------------
(***************************************************************************)
(* What the virtual memory manager promises (include/arch/*/vmm.h): each   *)
(* address space is a map from pages of its own, a new one starts as a     *)
(* copy of the kernel's, and an operation on one changes no other.         *)
(***************************************************************************)
CONSTANTS Spaces, Kernel, Pages, Phys, Unmapped, Block, NoSpace

VARIABLES
    maps,    \* space -> page -> [phys, user], Unmapped or Block; or NoSpace
    active   \* the space loaded in CR3 / TTBR0_EL1

as == <<maps, active>>

Live == {s \in Spaces : maps[s] # NoSpace}

SpaceInit ==
    /\ \E m \in [Pages -> {Unmapped, Block}] :
         maps = [s \in Spaces |-> IF s = Kernel THEN m ELSE NoSpace]
    /\ active = Kernel

\* Boot code gives the kernel an identity-mapped block before any other space.
BlockMap ==
    /\ Live = {Kernel}
    /\ \E P \in SUBSET {p \in Pages : maps[Kernel][p] = Unmapped} :
         maps' = [maps EXCEPT ![Kernel] = [p \in Pages |-> IF p \in P THEN Block ELSE @[p]]]
    /\ UNCHANGED active

Create(s) ==
    /\ maps[s] = NoSpace
    /\ maps' = [maps EXCEPT ![s] = maps[Kernel]]
    /\ UNCHANGED active

Destroy(s) ==
    /\ s \in Live \ {Kernel, active}
    /\ maps' = [maps EXCEPT ![s] = NoSpace]
    /\ UNCHANGED active

\* A request inside a block is ignored.
Set(s, p, v) ==
    /\ s \in Live
    /\ maps' = [maps EXCEPT ![s][p] = IF @ = Block THEN Block ELSE v]
    /\ UNCHANGED active

Switch(s) ==
    /\ s \in Live
    /\ active' = s
    /\ UNCHANGED maps

SpaceNext ==
    \/ BlockMap
    \/ \E s \in Spaces : Create(s) \/ Destroy(s) \/ Switch(s)
    \/ \E s \in Spaces, p \in Pages, v \in [phys : Phys, user : BOOLEAN] \cup {Unmapped} :
         Set(s, p, v)

SpaceSpec == SpaceInit /\ [][SpaceNext]_as
=============================================================================
