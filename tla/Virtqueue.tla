------------------------------ MODULE Virtqueue ------------------------------
(***************************************************************************)
(* One virtio-input event queue (arch/aarch64/drivers/virtio.c and the     *)
(* polling half of virtio_input.c): the driver posts every descriptor,     *)
(* then takes the ones the device has filled, copies the event out and     *)
(* posts the descriptor again.  The device runs beside the driver; the     *)
(* rings are shared memory and the driver's barriers (dmb ish) order its   *)
(* accesses, so one ring access is one step.                               *)
(***************************************************************************)
EXTENDS Integers, Sequences, FiniteSets

CONSTANTS
    QUEUE_SIZE,
    U16,        \* modulus of the ring indices, 65536
    Events,
    NoEvent     \* a buffer no event was written to

ASSUME VirtqueueAssumption ==
    /\ QUEUE_SIZE \in Nat \ {0}
    /\ U16 \in Nat \ {0}
    /\ U16 > QUEUE_SIZE
    /\ U16 % QUEUE_SIZE = 0
    /\ NoEvent \notin Events

VARIABLES
    desc,       \* descriptor -> buffer it points to, -1 in a zeroed table
    avail_ring, avail_idx,
    used_ring, used_idx,
    used_seen,
    bufs,       \* buffer -> event
    pc,         \* where the driver is
    seeded,     \* descriptors seed_queue has posted
    idx,        \* the descriptor the driver holds
    out,        \* the last event poll_event returned
    dev         \* the device: [at, id, last_avail]

driver == <<desc, avail_ring, avail_idx, used_seen, pc, seeded, idx, out>>
device == <<used_ring, used_idx, dev>>
vars   == <<driver, device, bufs>>

Descs   == 0 .. QUEUE_SIZE - 1
Slot(n) == n % QUEUE_SIZE
Inc(n)  == (n + 1) % U16

\* virtio_mmio_probe_nth leaves zeroed rings behind and kmalloc gives the
\* buffers; the driver is about to seed the queue.
Init ==
    /\ desc = [d \in Descs |-> -1]
    /\ avail_ring = [s \in Descs |-> 0] /\ avail_idx = 0
    /\ used_ring = [s \in Descs |-> 0] /\ used_idx = 0
    /\ used_seen = 0
    /\ bufs = [d \in Descs |-> NoEvent]
    /\ pc = "seed" /\ seeded = 0 /\ idx = 0
    /\ out = NoEvent
    /\ dev = [at |-> "idle", id |-> 0, last_avail |-> 0]

-----------------------------------------------------------------------------
(* seed_queue: fill in a descriptor, publish it, until all are posted.     *)

SeedDesc ==
    /\ pc = "seed"
    /\ desc' = [desc EXCEPT ![seeded] = seeded]
    /\ idx' = seeded
    /\ pc' = "publish_ring"
    /\ UNCHANGED <<avail_ring, avail_idx, used_seen, seeded, out, device, bufs>>

(* publish: the descriptor goes into the ring, then the index moves.       *)

PublishRing ==
    /\ pc = "publish_ring"
    /\ avail_ring' = [avail_ring EXCEPT ![Slot(avail_idx)] = idx]
    /\ pc' = "publish_idx"
    /\ UNCHANGED <<desc, avail_idx, used_seen, seeded, idx, out, device, bufs>>

PublishIdx ==
    /\ pc = "publish_idx"
    /\ avail_idx' = Inc(avail_idx)
    /\ seeded' = IF seeded < QUEUE_SIZE THEN seeded + 1 ELSE seeded
    /\ pc' = IF seeded' < QUEUE_SIZE THEN "seed" ELSE "poll"
    /\ UNCHANGED <<desc, avail_ring, used_seen, idx, out, device, bufs>>

-----------------------------------------------------------------------------
(* poll_event and virtio_poll_used.  When nothing is there the caller goes *)
(* on and polls again later.                                               *)

\* Mutant of PollTest: the indices are compared as numbers.
PollTestLess ==
    /\ pc = "poll"
    /\ used_seen < used_idx
    /\ pc' = "elem"
    /\ UNCHANGED <<desc, avail_ring, avail_idx, used_seen, seeded, idx, out, device, bufs>>

PollTest ==
    /\ pc = "poll"
    /\ used_idx # used_seen
    /\ pc' = "elem"
    /\ UNCHANGED <<desc, avail_ring, avail_idx, used_seen, seeded, idx, out, device, bufs>>

\* Mutant of PollElem: the element is read after used_seen was advanced.
PollElemLate ==
    /\ pc = "elem"
    /\ used_seen' = Inc(used_seen)
    /\ idx' = used_ring[Slot(used_seen')]
    /\ pc' = "copy"
    /\ UNCHANGED <<desc, avail_ring, avail_idx, seeded, out, device, bufs>>

PollElem ==
    /\ pc = "elem"
    /\ idx' = used_ring[Slot(used_seen)]
    /\ used_seen' = Inc(used_seen)
    /\ pc' = "copy"
    /\ UNCHANGED <<desc, avail_ring, avail_idx, seeded, out, device, bufs>>

\* Mutant of Copy: the buffer is not recycled.
CopyKeeps ==
    /\ pc = "copy"
    /\ out' = bufs[idx]
    /\ pc' = "poll"
    /\ UNCHANGED <<desc, avail_ring, avail_idx, used_seen, seeded, idx, device, bufs>>

\* The event is copied out before the buffer is recycled.
Copy ==
    /\ pc = "copy"
    /\ out' = bufs[idx]
    /\ pc' = "publish_ring"
    /\ UNCHANGED <<desc, avail_ring, avail_idx, used_seen, seeded, idx, device, bufs>>

Driver == SeedDesc \/ PublishRing \/ PublishIdx \/ PollTest \/ PollElem \/ Copy

-----------------------------------------------------------------------------
(* The device (QEMU's virtio-input): takes the next posted descriptor,     *)
(* writes the event through it, then the used element, then the index.  An *)
(* event that finds no descriptor is dropped inside the device.            *)

DeviceFill(e) ==
    /\ dev.at = "idle"
    /\ dev.last_avail # avail_idx
    /\ LET id == avail_ring[Slot(dev.last_avail)]
       IN  /\ bufs' = IF desc[id] \in Descs THEN [bufs EXCEPT ![desc[id]] = e] ELSE bufs
           /\ dev' = [at |-> "elem", id |-> id, last_avail |-> Inc(dev.last_avail)]
    /\ UNCHANGED <<driver, used_ring, used_idx>>

DeviceElem ==
    /\ dev.at = "elem"
    /\ used_ring' = [used_ring EXCEPT ![Slot(used_idx)] = dev.id]
    /\ dev' = [dev EXCEPT !.at = "idx"]
    /\ UNCHANGED <<driver, bufs, used_idx>>

DeviceIdx ==
    /\ dev.at = "idx"
    /\ used_idx' = Inc(used_idx)
    /\ dev' = [dev EXCEPT !.at = "idle"]
    /\ UNCHANGED <<driver, bufs, used_ring>>

Device == DeviceElem \/ DeviceIdx \/ \E e \in Events : DeviceFill(e)

Next == Driver \/ Device

\* The idle loop polls for ever; the device completes what it has started.
Spec == Init /\ [][Next]_vars /\ WF_vars(Driver) /\ WF_vars(DeviceElem \/ DeviceIdx)

-----------------------------------------------------------------------------
\* How far the index b is ahead of a, and the ring's entries in between.
Ahead(a, b)       == (b - a + U16) % U16
Between(r, a, b)  == [k \in 1 .. Ahead(a, b) |-> r[Slot(a + k - 1)]]
EntriesOf(r, a, b) == {r[Slot(a + k - 1)] : k \in 1 .. Ahead(a, b)}

Held ==
    IF pc \in {"copy", "publish_ring", "publish_idx"} THEN {idx} ELSE {}

\* Posted, being filled, completed, and in the driver's hands: a descriptor
\* seed_queue has got to is in exactly one of the four places, once.  None is
\* lost, so the queue cannot dry up, and none is posted while still in use.
BuffersOwned ==
    LET posted == EntriesOf(avail_ring, dev.last_avail, avail_idx)
        done   == EntriesOf(used_ring, used_seen, used_idx)
        taken  == IF dev.at = "idle" THEN {} ELSE {dev.id}
    IN  /\ Cardinality(posted) = Ahead(dev.last_avail, avail_idx)
        /\ Cardinality(done) = Ahead(used_seen, used_idx)
        /\ \A d \in Descs :
             Cardinality({S \in {<<1, posted>>, <<2, done>>, <<3, taken>>, <<4, Held>>} : d \in S[2]})
               = IF d < seeded \/ d \in Held THEN 1 ELSE 0

\* The events completed and not yet copied out, oldest first.
Queue ==
    LET waiting == Between(used_ring, used_seen, used_idx)
        ids     == IF pc = "copy" THEN <<idx>> \o waiting ELSE waiting
    IN  [k \in 1 .. Len(ids) |-> bufs[ids[k]]]

F == INSTANCE Fifo WITH q <- Queue, lost <- FALSE, Chars <- Events, Capacity <- QUEUE_SIZE

\* Events reach the handlers in the order the device produced them, none
\* twice, none changed by a recycled buffer, across the wrap of the indices.
ImplementsFifo == F!FifoSafety

\* An event the device has announced is handled in the end.
Delivers == F!Drains
=============================================================================
