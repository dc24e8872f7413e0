--------------------------- MODULE TerminalProofs ---------------------------
(***************************************************************************)
(* The keyboard ring implements Fifo, for every buffer size and every pair *)
(* of tables, and the console that echoes what is read from it shows the   *)
(* end of the text, for every size of the screen and every text.           *)
(***************************************************************************)
EXTENDS Terminal, SequenceTheorems, WellFoundedInduction, TLAPS

Bytes == Chars \cup {NoChar}

\* Index after x in the ring.
After(x) == (x + 1) % KB_BUF_SIZE

\* Occupied slots hold characters; a reader about to advance still has the
\* character of the slot it is about to give up.
ReaderOwns ==
    /\ pc # "test" => buf_tail # buf_head
    /\ pc = "advance" => c = buf[buf_tail]

QueueOfChars == \A i \in 1 .. Waiting(buf_head, buf_tail) : Queue[i] \in Chars

IInv == TypeOK /\ ReaderOwns /\ QueueOfChars

-----------------------------------------------------------------------------
\* What the ring arithmetic of buf_push and keyboard_getchar computes.
LEMMA AfterIs ==
    ASSUME NEW x \in Slots
    PROVE  After(x) = IF x + 1 = KB_BUF_SIZE THEN 0 ELSE x + 1
<1>1. KB_BUF_SIZE \in Nat /\ KB_BUF_SIZE >= 2 /\ x \in Nat /\ x < KB_BUF_SIZE
  BY KeyboardAssumption DEF Slots
<1>2. CASE x + 1 = KB_BUF_SIZE
  BY <1>1, <1>2 DEF After
<1>3. CASE x + 1 # KB_BUF_SIZE
  BY <1>1, <1>3 DEF After
<1> QED BY <1>2, <1>3

\* The index after a slot is a slot.
LEMMA AfterSlot == ASSUME NEW x \in Slots PROVE After(x) \in Slots
BY AfterIs, KeyboardAssumption DEF Slots

\* The number of waiting characters is a natural number below the ring's size.
LEMMA WaitingNat ==
    ASSUME NEW h \in Slots, NEW t \in Slots
    PROVE  Waiting(h, t) \in 0 .. KB_BUF_SIZE - 1
BY KeyboardAssumption DEF Slots, Waiting

\* Every waiting character is in a slot of the ring.
LEMMA SlotAtSlot ==
    ASSUME NEW h \in Slots, NEW t \in Slots, NEW i \in 1 .. Waiting(h, t)
    PROVE  SlotAt(t, i - 1) \in Slots /\ SlotAt(t, i - 1) # h
BY KeyboardAssumption DEF Slots, Waiting, SlotAt

\* The contents of a ring are a sequence of bytes.
LEMMA ContentsSeq ==
    ASSUME NEW b \in [Slots -> Bytes], NEW h \in Slots, NEW t \in Slots
    PROVE  /\ Contents(b, h, t) \in Seq(Bytes)
           /\ Len(Contents(b, h, t)) = Waiting(h, t)
<1>1. Waiting(h, t) \in Nat
  BY WaitingNat, KeyboardAssumption
<1>2. \A i \in 1 .. Waiting(h, t) : b[SlotAt(t, i - 1)] \in Bytes
  BY SlotAtSlot
<1> QED BY <1>1, <1>2 DEF Contents

\* Storing at head and advancing it appends, when the ring is not full.
LEMMA PushAppends ==
    ASSUME NEW b \in [Slots -> Bytes], NEW h \in Slots, NEW t \in Slots,
           NEW ch \in Bytes, After(h) # t
    PROVE  Contents([b EXCEPT ![h] = ch], After(h), t) = Append(Contents(b, h, t), ch)
<1> DEFINE w == Waiting(h, t)
           s == Contents(b, h, t)
           s2 == Contents([b EXCEPT ![h] = ch], After(h), t)
<1>1. w \in Nat /\ Waiting(After(h), t) = w + 1 /\ SlotAt(t, w) = h
  BY AfterIs, KeyboardAssumption DEF Slots, Waiting, SlotAt
<1>2. s \in Seq(Bytes) /\ Len(s) = w
  BY ContentsSeq
<1>3. s2 = [i \in 1 .. w + 1 |-> [b EXCEPT ![h] = ch][SlotAt(t, i - 1)]]
  BY <1>1 DEF Contents
<1>4. ASSUME NEW i \in 1 .. w + 1
      PROVE  s2[i] = Append(s, ch)[i]
  <2>1. CASE i = w + 1
    <3>1. s2[i] = [b EXCEPT ![h] = ch][h]
      BY <1>1, <1>3, <2>1
    <3> QED BY <3>1, <1>1, <1>2, <2>1
  <2>2. CASE i # w + 1
    <3>1. i \in 1 .. w
      BY <1>1, <2>2
    <3>2. s2[i] = b[SlotAt(t, i - 1)]
      BY <1>3, <3>1, SlotAtSlot
    <3>3. s[i] = b[SlotAt(t, i - 1)]
      BY <3>1 DEF Contents
    <3> QED BY <1>1, <1>2, <3>1, <3>2, <3>3
  <2> QED BY <2>1, <2>2
<1>5. Append(s, ch) \in Seq(Bytes) /\ Len(Append(s, ch)) = w + 1
  BY <1>1, <1>2
<1>6. s2 \in Seq(Bytes) /\ Len(s2) = w + 1
  <2>1. [b EXCEPT ![h] = ch] \in [Slots -> Bytes]
    OBVIOUS
  <2> QED BY <1>1, <2>1, ContentsSeq, AfterSlot
<1> HIDE DEF s, s2, w
<1> QED BY <1>4, <1>5, <1>6, SeqEqual DEF s, s2

\* Advancing tail removes the first character, when there is one.
LEMMA AdvancePops ==
    ASSUME NEW b \in [Slots -> Bytes], NEW h \in Slots, NEW t \in Slots, h # t
    PROVE  /\ Contents(b, h, t) # << >>
           /\ Head(Contents(b, h, t)) = b[t]
           /\ Contents(b, h, After(t)) = Tail(Contents(b, h, t))
<1> DEFINE w == Waiting(h, t)
           s == Contents(b, h, t)
           s2 == Contents(b, h, After(t))
<1>1. w \in Nat /\ w >= 1 /\ Waiting(h, After(t)) = w - 1 /\ SlotAt(t, 0) = t
  BY AfterIs, KeyboardAssumption DEF Slots, Waiting, SlotAt
<1>2. s \in Seq(Bytes) /\ Len(s) = w
  BY ContentsSeq
<1>3. s2 \in Seq(Bytes) /\ Len(s2) = w - 1
  BY ContentsSeq, AfterSlot, <1>1
<1>4. s[1] = b[t]
  BY <1>1 DEF Contents
<1>5. s # << >> /\ Head(s) = b[t]
  BY <1>1, <1>2, <1>4
<1>6. ASSUME NEW i \in 1 .. w - 1
      PROVE  s2[i] = Tail(s)[i]
  <2>1. s2[i] = b[SlotAt(After(t), i - 1)]
    BY <1>1 DEF Contents
  <2>2. i + 1 \in 1 .. w /\ s[i + 1] = b[SlotAt(t, i)]
    BY <1>1 DEF Contents
  <2>3. SlotAt(After(t), i - 1) = SlotAt(t, i)
    <3>1. /\ KB_BUF_SIZE \in Nat /\ t \in Nat /\ t < KB_BUF_SIZE
          /\ i \in Nat /\ 1 <= i /\ i < KB_BUF_SIZE
      <4>1. w \in 0 .. KB_BUF_SIZE - 1
        BY WaitingNat
      <4> HIDE DEF w
      <4> QED BY <4>1, KeyboardAssumption DEF Slots
    <3>2. CASE t + 1 = KB_BUF_SIZE
      BY <3>1, <3>2, AfterIs DEF SlotAt
    <3>3. CASE t + 1 # KB_BUF_SIZE
      BY <3>1, <3>3, AfterIs DEF SlotAt
    <3> QED BY <3>2, <3>3
  <2>4. Tail(s)[i] = s[i + 1]
    BY <1>1, <1>2
  <2> QED BY <2>1, <2>2, <2>3, <2>4
<1>7. Tail(s) \in Seq(Bytes) /\ Len(Tail(s)) = w - 1
  BY <1>1, <1>2, <1>5
<1>8. s2 = Tail(s)
  <2> HIDE DEF s, s2, w
  <2> QED BY <1>3, <1>6, <1>7, SeqEqual
<1> QED BY <1>5, <1>8

-----------------------------------------------------------------------------
\* IInv holds at boot and is kept by every step of the reader and the handler.
LEMMA InvInit == Init => IInv
<1> SUFFICES ASSUME Init PROVE IInv
  OBVIOUS
<1>1. TypeOK
  <2>1. buf \in [Slots -> Chars \cup {NoChar}]
    BY DEF Init
  <2>2. buf_head \in Slots /\ buf_tail \in Slots
    BY KeyboardAssumption DEF Init, Slots
  <2> QED BY <2>1, <2>2 DEF Init, TypeOK
<1>2. ReaderOwns
  BY DEF Init, ReaderOwns
<1>3. QueueOfChars
  BY DEF Init, QueueOfChars, Waiting
<1> QED BY <1>1, <1>2, <1>3 DEF IInv

\* The steps of the ring: what a push, a read and an advance do to the queue.
LEMMA PushStep ==
    ASSUME IInv, NEW ch \in Chars, buf_push(ch), UNCHANGED <<pc, c, out>>
    PROVE  F!Put(ch) /\ ReaderOwns' /\ QueueOfChars'
           /\ buf' \in [Slots -> Bytes] /\ buf_head' \in Slots
           /\ buf_tail' \in Slots /\ lost' \in BOOLEAN
<1> USE DEF IInv, TypeOK
<1>0. /\ buf \in [Slots -> Bytes] /\ buf_head \in Slots /\ buf_tail \in Slots
      /\ Queue \in Seq(Bytes) /\ Len(Queue) = Waiting(buf_head, buf_tail)
  BY ContentsSeq DEF Bytes, Queue
<1>1. CASE After(buf_head) = buf_tail
  <2>1. lost' = TRUE /\ UNCHANGED ring
    BY <1>1 DEF buf_push, After
  <2>2. Waiting(buf_head, buf_tail) = KB_BUF_SIZE - 1
    BY <1>0, <1>1, AfterIs, KeyboardAssumption DEF Waiting, Slots
  <2>3. UNCHANGED Queue
    BY <2>1 DEF Queue, ring
  <2>4. F!Put(ch)
    BY <1>0, <2>1, <2>2, <2>3, KeyboardAssumption DEF F!Put
  <2> QED BY <1>0, <2>1, <2>3, <2>4 DEF ring, ReaderOwns, QueueOfChars
<1>2. CASE After(buf_head) # buf_tail
  <2>1. /\ buf' = [buf EXCEPT ![buf_head] = ch] /\ buf_head' = After(buf_head)
        /\ lost' = FALSE /\ buf_tail' = buf_tail
    BY <1>2 DEF buf_push, After
  <2>2. ch \in Bytes
    BY DEF Bytes
  <2>3. Queue' = Append(Queue, ch)
    BY <1>0, <1>2, <2>1, <2>2, PushAppends DEF Queue
  <2>4. Waiting(buf_head, buf_tail) < KB_BUF_SIZE - 1
    BY <1>0, <1>2, AfterIs, KeyboardAssumption DEF Waiting, Slots
  <2>5. F!Put(ch)
    BY <1>0, <2>1, <2>3, <2>4 DEF F!Put
  <2>6. buf' \in [Slots -> Bytes] /\ buf_head' \in Slots
    BY <1>0, <2>1, <2>2, AfterSlot
  <2>7. ReaderOwns'
    <3>1. pc # "test" => buf_tail # After(buf_head)
      BY <1>2
    <3>2. buf_tail # buf_head => buf'[buf_tail] = buf[buf_tail]
      BY <1>0, <2>1
    <3> QED BY <2>1, <3>1, <3>2 DEF ReaderOwns
  <2>8. QueueOfChars'
    <3>1. Len(Queue)' = Waiting(buf_head, buf_tail)'
      BY <2>1, <2>6, <1>0, ContentsSeq DEF Queue
    <3>2. Len(Queue)' = Len(Queue) + 1
      BY <1>0, <2>3
    <3>3. ASSUME NEW i \in 1 .. Waiting(buf_head, buf_tail)'
          PROVE  Queue'[i] \in Chars
      BY <1>0, <2>2, <2>3, <3>1, <3>2, AppendProperties DEF QueueOfChars
    <3> QED BY <3>3 DEF QueueOfChars
  <2> QED BY <1>0, <2>1, <2>5, <2>6, <2>7, <2>8
<1> QED BY <1>1, <1>2

\* Every step keeps IInv and is a step of Fifo, or changes nothing of it.
LEMMA StepRefines ==
    ASSUME IInv, [Next]_vars
    PROVE  IInv' /\ [F!FifoNext]_<<Queue, out, lost>>
<1> USE DEF IInv
<1>0. /\ buf \in [Slots -> Bytes] /\ buf_head \in Slots /\ buf_tail \in Slots
      /\ Queue \in Seq(Bytes) /\ Len(Queue) = Waiting(buf_head, buf_tail)
  BY ContentsSeq DEF Bytes, Queue, TypeOK
<1>1. ASSUME NEW down \in BOOLEAN, ShiftIrq(down)
      PROVE  IInv' /\ UNCHANGED <<Queue, out, lost>>
  BY <1>1 DEF ShiftIrq, TypeOK, ReaderOwns, QueueOfChars, Queue, ring
<1>2. ASSUME NEW prefix \in BOOLEAN, HighIrq(prefix)
      PROVE  IInv' /\ UNCHANGED <<Queue, out, lost>>
  BY <1>2 DEF HighIrq, TypeOK, ReaderOwns, QueueOfChars, Queue, ring
<1>3. ASSUME NEW sc \in Make, KeyIrq(sc)
      PROVE  IInv' /\ [F!FifoNext]_<<Queue, out, lost>>
  <2> DEFINE ch == IF shift_held THEN scancode_ascii_shift[sc] ELSE scancode_ascii[sc]
  <2>1. ch \in Chars \cup {NoChar}
    BY KeyboardAssumption DEF TypeOK
  <2>2. extended' = FALSE /\ UNCHANGED <<shift_held, pc, c, out>>
    BY <1>3 DEF KeyIrq
  <2>3. CASE ch # NoChar
    <3>1. ch \in Chars /\ buf_push(ch)
      BY <1>3, <2>1, <2>3 DEF KeyIrq
    <3> HIDE DEF ch
    <3>2. F!Put(ch) /\ ReaderOwns' /\ QueueOfChars'
          /\ buf' \in [Slots -> Bytes] /\ buf_head' \in Slots
          /\ buf_tail' \in Slots /\ lost' \in BOOLEAN
      BY <2>2, <3>1, PushStep
    <3>3. TypeOK'
      BY <2>2, <3>2 DEF TypeOK, ReaderOwns, Bytes
    <3> QED BY <3>1, <3>2, <3>3 DEF F!FifoNext
  <2>4. CASE ch = NoChar
    <3>1. UNCHANGED <<ring, lost>>
      BY <1>3, <2>4 DEF KeyIrq
    <3> QED BY <2>2, <3>1 DEF TypeOK, ReaderOwns, QueueOfChars, Queue, ring
  <2> QED BY <2>3, <2>4
<1>4. CASE GetTest
  BY <1>4 DEF GetTest, TypeOK, ReaderOwns, QueueOfChars, Queue, ring
<1>5. CASE GetLoad
  <2>1. buf[buf_tail] \in Bytes
    BY <1>0
  <2> QED BY <1>5, <2>1 DEF GetLoad, TypeOK, ReaderOwns, QueueOfChars, Queue, ring, Bytes
<1>6. CASE GetAdvance
  <2>1. buf_tail # buf_head /\ c = buf[buf_tail]
    BY <1>6 DEF GetAdvance, ReaderOwns
  <2>2. /\ buf_tail' = After(buf_tail) /\ out' = c /\ pc' = "test"
        /\ UNCHANGED <<buf, buf_head, shift_held, c, extended, lost>>
    BY <1>6 DEF GetAdvance, After
  <2>3. Queue # << >> /\ Head(Queue) = buf[buf_tail] /\ Queue' = Tail(Queue)
    BY <1>0, <2>1, <2>2, AdvancePops DEF Queue
  <2>4. F!Get
    BY <2>1, <2>2, <2>3 DEF F!Get
  <2>5. TypeOK' /\ ReaderOwns'
    BY <1>0, <2>2, AfterSlot DEF TypeOK, ReaderOwns
  <2>6. QueueOfChars'
    <3>1. Len(Queue)' = Waiting(buf_head, buf_tail)'
      BY <2>2, <1>0, AfterSlot, ContentsSeq DEF Queue
    <3>2. Len(Queue)' = Len(Queue) - 1
      BY <1>0, <2>3, HeadTailProperties
    <3>3. ASSUME NEW i \in 1 .. Waiting(buf_head, buf_tail)'
          PROVE  Queue'[i] \in Chars
      BY <1>0, <2>3, <3>1, <3>2, HeadTailProperties DEF QueueOfChars
    <3> QED BY <3>3 DEF QueueOfChars
  <2> QED BY <2>4, <2>5, <2>6 DEF F!FifoNext
<1>7. CASE UNCHANGED vars
  BY <1>7 DEF vars, TypeOK, ReaderOwns, QueueOfChars, Queue
<1> QED
  BY <1>1, <1>2, <1>3, <1>4, <1>5, <1>6, <1>7 DEF Next, keyboard_getchar, keyboard_irq

-----------------------------------------------------------------------------
\* The initial state and every step of the ring are those of the queue.
LEMMA RingIsFifo == Init /\ [][Next]_vars => ImplementsFifo
<1>1. Init => F!FifoInit
  <2> SUFFICES ASSUME Init PROVE F!FifoInit
    OBVIOUS
  <2>1. Waiting(buf_head, buf_tail) = 0 /\ out \notin Chars /\ lost = FALSE
    BY KeyboardAssumption DEF Init, Waiting
  <2>2. Queue = << >>
    BY <2>1 DEF Queue, Contents
  <2> QED BY <2>1, <2>2 DEF F!FifoInit
<1>2. IInv /\ [Next]_vars => IInv' /\ [F!FifoNext]_<<Queue, out, lost>>
  BY StepRefines
<1> QED BY <1>1, <1>2, InvInit, PTL DEF ImplementsFifo, F!FifoSafety, F!fifo

-----------------------------------------------------------------------------
(* Recursion.                                                              *)

\* Every set of natural numbers that is not empty has a least element.
LEMMA LeastNat ==
    ASSUME NEW T \in SUBSET Nat, T # {}
    PROVE  \E m \in T : \A n \in T : m <= n
<1>1. PICK m \in T : \A n \in T : <<n, m>> \notin OpToRel(<, Nat)
  BY NatLessThanWellFounded, WFMin
<1>2. ASSUME NEW n \in T, n < m
      PROVE  <<n, m>> \in OpToRel(<, Nat)
  <2>1. <<n, m>> \in Nat \X Nat
    OBVIOUS
  <2>2. <<n, m>>[1] < <<n, m>>[2]
    BY <1>2
  <2> QED BY <2>1, <2>2 DEF OpToRel
<1>3. \A n \in T : ~(n < m)
  BY <1>1, <1>2
<1> QED BY <1>3

\* A set of numbers up to N with 0 and the successors of its members is full.
LEMMA UpTo ==
    ASSUME NEW N \in Nat, NEW G, 0 \in G, \A n \in 1 .. N : n - 1 \in G => n \in G
    PROVE  \A n \in 0 .. N : n \in G
<1> DEFINE T == {n \in 0 .. N : n \notin G}
<1> SUFFICES ASSUME T # {} PROVE FALSE
  OBVIOUS
<1>1. T \in SUBSET Nat
  OBVIOUS
<1> HIDE DEF T
<1>2. PICK m \in T : \A n \in T : m <= n
  BY <1>1, LeastNat
<1>3. m \in 0 .. N /\ m \notin G
  BY <1>2 DEF T
<1>4. m \in 1 .. N /\ m - 1 \in 0 .. N /\ ~(m <= m - 1)
  BY <1>3
<1>5. m - 1 \notin T
  BY <1>2, <1>4
<1>6. m - 1 \in G
  BY <1>4, <1>5 DEF T
<1> QED BY <1>3, <1>4, <1>6

\* f iterates the functions steps[1], steps[2], ... from x.
Iterates(N, X, steps, x, f) ==
    /\ f \in [0 .. N -> X] /\ f[0] = x
    /\ \A k \in 1 .. N : f[k] = steps[k][f[k - 1]]

LEMMA IterationExists ==
    ASSUME NEW N \in Nat, NEW X, NEW x \in X, NEW steps \in [1 .. N -> [X -> X]]
    PROVE  \E f : Iterates(N, X, steps, x, f)
<1> DEFINE G == {n \in 0 .. N : \E f : Iterates(n, X, steps, x, f)}
<1>1. 0 \in G
  <2>1. Iterates(0, X, steps, x, [k \in 0 .. 0 |-> x])
    BY DEF Iterates
  <2> QED BY <2>1
<1>2. ASSUME NEW n \in 1 .. N, n - 1 \in G PROVE n \in G
  <2>1. PICK g : Iterates(n - 1, X, steps, x, g)
    BY <1>2
  <2>2. g \in [0 .. n - 1 -> X] /\ g[0] = x /\ n - 1 \in 0 .. n - 1 /\ 0 \in 0 .. n - 1
    BY <2>1 DEF Iterates
  <2>3. PICK y \in X : y = steps[n][g[n - 1]]
    BY <2>2
  <2>4. PICK f : f = [k \in 0 .. n |-> IF k < n THEN g[k] ELSE y]
    OBVIOUS
  <2>5. f \in [0 .. n -> X] /\ f[n] = y /\ \A k \in 0 .. n - 1 : f[k] = g[k]
    BY <2>2, <2>4
  <2>6. ASSUME NEW k \in 1 .. n PROVE f[k] = steps[k][f[k - 1]]
    <3>1. k - 1 \in 0 .. n - 1 /\ f[k - 1] = g[k - 1]
      BY <2>5
    <3>2. CASE k = n
      BY <2>3, <2>5, <3>1, <3>2
    <3>3. CASE k # n
      <4>1. k \in 1 .. n - 1 /\ k \in 0 .. n - 1
        BY <3>3
      <4>2. g[k] = steps[k][g[k - 1]]
        BY <2>1, <4>1 DEF Iterates
      <4> QED BY <2>5, <3>1, <4>1, <4>2
    <3> QED BY <3>2, <3>3
  <2>7. f[0] = x
    BY <2>2, <2>5
  <2>8. Iterates(n, X, steps, x, f)
    BY <2>5, <2>6, <2>7 DEF Iterates
  <2> QED BY <2>8
<1> HIDE DEF G
<1>3. N \in G
  <2>1. \A n \in 0 .. N : n \in G
    BY <1>1, <1>2, UpTo
  <2> QED BY <2>1
<1> QED BY <1>3 DEF G

-----------------------------------------------------------------------------
(* Paper.                                                                  *)

Glyphs == Chars \cup {NoChar, Blank} \cup {BootText[k] : k \in DOMAIN BootText}

\* p is where r rows of the paper and c places more end.
LEMMA RowIs ==
    ASSUME NEW r \in Nat, NEW k \in 0 .. VGA_COLS - 1
    PROVE  r * VGA_COLS + k \in Nat /\ (r * VGA_COLS + k) \div VGA_COLS = r
<1>1. VGA_COLS \in Nat \ {0}
  BY ConsoleAssumption
<1>2. \A d \in Nat \ {0} : \A q \in Nat : \A m \in 0 .. d - 1 : (q * d + m) \div d = q
  BY SMTT(60)
<1>3. r * VGA_COLS \in Nat
  BY <1>1
<1> QED BY <1>1, <1>2, <1>3

LEMMA NextPlaceNat == ASSUME NEW p \in Nat, NEW ch PROVE NextPlace(p, ch) \in Nat
<1>1. VGA_COLS \in Nat \ {0} /\ TAB \in Nat \ {0}
  BY ConsoleAssumption
<1>2. \A d \in Nat \ {0} : p \div d \in Nat
  BY SMTT(30)
<1>3. p \div VGA_COLS \in Nat /\ p \div TAB \in Nat
  BY <1>1, <1>2
<1>4. \A x, y \in Nat : x * y \in Nat /\ (x + 1) * y \in Nat
  BY SMTT(30)
<1> QED BY <1>1, <1>3, <1>4 DEF NextPlace

\* The equations of the recursive definition.
LEMMA PlaceIs ==
    ASSUME NEW t \in Seq(Glyphs)
    PROVE  /\ Place(t) \in [0 .. Len(t) -> Nat] /\ Place(t)[0] = 0
           /\ \A k \in 1 .. Len(t) : Place(t)[k] = NextPlace(Place(t)[k - 1], t[k])
<1>1. PICK N \in Nat : N = Len(t)
  OBVIOUS
<1> DEFINE Eq(r) == r = [k \in 0 .. N |-> IF k = 0 THEN 0 ELSE NextPlace(r[k - 1], t[k])]
<1>2. PICK steps : steps = [k \in 1 .. N |-> [p \in Nat |-> NextPlace(p, t[k])]]
  OBVIOUS
<1>3. steps \in [1 .. N -> [Nat -> Nat]]
  BY <1>2, NextPlaceNat
<1>4. PICK f : Iterates(N, Nat, steps, 0, f)
  BY <1>3, IterationExists
<1>5. Eq(f)
  <2>1. f = [k \in 0 .. N |-> f[k]]
    BY <1>4 DEF Iterates
  <2>2. ASSUME NEW k \in 0 .. N
        PROVE  f[k] = IF k = 0 THEN 0 ELSE NextPlace(f[k - 1], t[k])
    <3>1. CASE k = 0
      BY <1>4, <3>1 DEF Iterates
    <3>2. CASE k # 0
      <4>1. k \in 1 .. N /\ k - 1 \in 0 .. N
        BY <3>2
      <4>2. f[k] = steps[k][f[k - 1]] /\ f[k - 1] \in Nat
        BY <1>4, <4>1 DEF Iterates
      <4> QED BY <1>2, <3>2, <4>1, <4>2
    <3> QED BY <3>1, <3>2
  <2> QED BY <2>1, <2>2
<1>6. Place(t) = CHOOSE r : Eq(r)
  BY <1>1 DEF Place
<1>7. PICK r : r = Place(t) /\ Eq(r)
  <2>1. Eq(CHOOSE r : Eq(r))
    BY <1>5
  <2> QED BY <1>6, <2>1
<1>8. r[0] = 0 /\ \A k \in 1 .. N : r[k] = NextPlace(r[k - 1], t[k])
  BY <1>7
<1> DEFINE G == {n \in 0 .. N : r[n] \in Nat}
<1>9. 0 \in G
  BY <1>8
<1>10. ASSUME NEW n \in 1 .. N, n - 1 \in G PROVE n \in G
  BY <1>8, <1>10, NextPlaceNat
<1>11. \A n \in 0 .. N : r[n] \in Nat
  <2> HIDE DEF G
  <2>1. \A n \in 0 .. N : n \in G
    BY <1>9, <1>10, UpTo
  <2> QED BY <2>1 DEF G
<1>12. r \in [0 .. N -> Nat]
  <2>1. r = [k \in 0 .. N |-> r[k]]
    BY <1>7
  <2> QED BY <1>11, <2>1
<1> QED BY <1>1, <1>7, <1>8, <1>12

\* Printing one more character moves no earlier one.
LEMMA PlaceGrows ==
    ASSUME NEW t \in Seq(Glyphs), NEW ch \in Glyphs
    PROVE  /\ \A k \in 0 .. Len(t) : Place(Append(t, ch))[k] = Place(t)[k]
           /\ Place(Append(t, ch))[Len(t) + 1] = NextPlace(Place(t)[Len(t)], ch)
<1>1. PICK u \in Seq(Glyphs) : u = Append(t, ch)
  BY AppendProperties
<1>2. PICK N \in Nat : N = Len(t)
  OBVIOUS
<1>3. Len(u) = N + 1 /\ u[N + 1] = ch /\ \A k \in 1 .. N : u[k] = t[k]
  BY <1>1, <1>2
<1>4. /\ Place(u) \in [0 .. N + 1 -> Nat] /\ Place(u)[0] = 0
      /\ \A k \in 1 .. N + 1 : Place(u)[k] = NextPlace(Place(u)[k - 1], u[k])
  BY <1>3, PlaceIs
<1>5. /\ Place(t) \in [0 .. N -> Nat] /\ Place(t)[0] = 0
      /\ \A k \in 1 .. N : Place(t)[k] = NextPlace(Place(t)[k - 1], t[k])
  BY <1>2, PlaceIs
<1> DEFINE G == {n \in 0 .. N : Place(u)[n] = Place(t)[n]}
<1>6. 0 \in G
  BY <1>4, <1>5
<1>7. ASSUME NEW n \in 1 .. N, n - 1 \in G PROVE n \in G
  <2>1. n \in 1 .. N + 1 /\ u[n] = t[n] /\ Place(u)[n - 1] = Place(t)[n - 1]
    BY <1>3, <1>7
  <2> QED BY <1>4, <1>5, <2>1
<1>8. \A n \in 0 .. N : Place(u)[n] = Place(t)[n]
  <2> HIDE DEF G
  <2>1. \A n \in 0 .. N : n \in G
    BY <1>6, <1>7, UpTo
  <2> QED BY <2>1 DEF G
<1>9. Place(u)[N + 1] = NextPlace(Place(t)[N], ch)
  <2>1. N + 1 \in 1 .. N + 1 /\ N \in 0 .. N /\ (N + 1) - 1 = N
    OBVIOUS
  <2>2. Place(u)[N + 1] = NextPlace(Place(u)[(N + 1) - 1], u[N + 1])
    BY <1>4, <2>1
  <2> QED BY <1>3, <1>8, <2>1, <2>2
<1> QED BY <1>1, <1>2, <1>8, <1>9

LEMMA MaxOfTwo == ASSUME NEW x \in Int PROVE Max({0, x}) = IF x >= 0 THEN x ELSE 0
<1> DEFINE m == IF x >= 0 THEN x ELSE 0
<1>1. m \in {0, x} /\ m \in Int /\ \A y \in {0, x} : m >= y
  OBVIOUS
<1> HIDE DEF m
<1>2. \A z \in {0, x} : (\A y \in {0, x} : z >= y) => z = m
  BY <1>1
<1>3. Max({0, x}) = m
  BY <1>1, <1>2 DEF Max
<1> QED BY <1>3 DEF m

\* The place of the next character alone changes.
LEMMA PrintedGrows ==
    ASSUME NEW t \in Seq(Glyphs), NEW ch \in Glyphs, NEW p
    PROVE  Printed(Append(t, ch), p) =
             IF ch \notin Controls /\ Place(t)[Len(t)] = p THEN ch ELSE Printed(t, p)
<1>1. PICK u \in Seq(Glyphs) : u = Append(t, ch)
  BY AppendProperties
<1>2. PICK N \in Nat : N = Len(t)
  OBVIOUS
<1>3. Len(u) = N + 1 /\ u[N + 1] = ch /\ \A k \in 1 .. N : u[k] = t[k]
  BY <1>1, <1>2
<1>4. DOMAIN u = 1 .. N + 1 /\ DOMAIN t = 1 .. N
  BY <1>2, <1>3
<1>5. \A k \in 1 .. N + 1 : Place(u)[k - 1] = Place(t)[k - 1]
  <2>1. \A k \in 0 .. N : Place(u)[k] = Place(t)[k]
    BY <1>1, <1>2, PlaceGrows
  <2>2. \A k \in 1 .. N + 1 : k - 1 \in 0 .. N
    OBVIOUS
  <2> QED BY <2>1, <2>2
<1>6. PICK K : K = {k \in DOMAIN t : Place(t)[k - 1] = p /\ t[k] \notin Controls}
  OBVIOUS
<1>7. PICK L : L = {k \in DOMAIN u : Place(u)[k - 1] = p /\ u[k] \notin Controls}
  OBVIOUS
<1>8. K \subseteq 1 .. N
  BY <1>4, <1>6
<1>9. \A k \in 1 .. N : k \in K <=> k \in L
  <2> SUFFICES ASSUME NEW k \in 1 .. N PROVE k \in K <=> k \in L
    OBVIOUS
  <2>1. k \in 1 .. N + 1
    OBVIOUS
  <2> QED BY <1>3, <1>4, <1>5, <1>6, <1>7, <2>1
<1>10. N + 1 \in L <=> ch \notin Controls /\ Place(t)[N] = p
  <2>1. N + 1 \in 1 .. N + 1 /\ (N + 1) - 1 = N
    OBVIOUS
  <2>2. Place(u)[(N + 1) - 1] = Place(t)[(N + 1) - 1]
    BY <1>5, <2>1
  <2> QED BY <1>3, <1>4, <1>7, <2>1, <2>2
<1>11. L \subseteq 1 .. N + 1
  BY <1>4, <1>7
<1>12. Printed(u, p) = IF L = {} THEN Blank ELSE u[Max(L)]
  BY <1>7 DEF Printed
<1>13. Printed(t, p) = IF K = {} THEN Blank ELSE t[Max(K)]
  BY <1>6 DEF Printed
<1>14. CASE N + 1 \in L
  <2>1. Max(L) = N + 1
    <3>1. \A y \in L : N + 1 >= y
      BY <1>11
    <3>2. \A z \in L : (\A y \in L : z >= y) => z = N + 1
      BY <1>11, <1>14
    <3> QED BY <1>14, <3>1, <3>2 DEF Max
  <2> QED BY <1>1, <1>2, <1>3, <1>10, <1>12, <1>14, <2>1
<1>15. CASE N + 1 \notin L
  <2>1. L = K
    <3>1. ASSUME NEW k \in L PROVE k \in K
      <4>1. k \in 1 .. N
        BY <1>11, <1>15
      <4> QED BY <1>9, <4>1
    <3>2. ASSUME NEW k \in K PROVE k \in L
      BY <1>8, <1>9
    <3> QED BY <3>1, <3>2
  <2>2. CASE K = {}
    BY <1>1, <1>2, <1>10, <1>12, <1>13, <1>15, <2>1, <2>2
  <2>3. CASE K # {}
    <3>1. \E m \in K : \A y \in K : m >= y
      <4> DEFINE T == {d \in 0 .. N : N - d \in K}
      <4>1. T \in SUBSET Nat /\ T # {}
        <5>1. PICK k \in K : TRUE
          BY <2>3
        <5>2. k \in 1 .. N /\ N - k \in 0 .. N /\ N - (N - k) = k
          BY <1>8
        <5>3. N - k \in T
          BY <5>2
        <5> QED BY <5>3
      <4>2. PICK d \in T : \A e \in T : d <= e
        <5> HIDE DEF T
        <5> QED BY <4>1, LeastNat
      <4>3. ASSUME NEW y \in K PROVE N - d >= y
        <5>1. y \in 1 .. N /\ N - y \in 0 .. N /\ N - (N - y) = y
          BY <1>8
        <5>2. N - y \in T
          BY <5>1
        <5>3. d <= N - y /\ d \in 0 .. N
          BY <4>2, <5>2
        <5> QED BY <5>1, <5>3
      <4>4. N - d \in K
        BY <4>2
      <4> QED BY <4>3, <4>4
    <3>2. Max(K) \in K
      BY <3>1 DEF Max
    <3>3. u[Max(K)] = t[Max(K)]
      BY <1>3, <1>8, <3>2
    <3> QED BY <1>1, <1>2, <1>10, <1>12, <1>13, <1>15, <2>1, <2>3, <3>3
  <2> QED BY <2>2, <2>3
<1> QED BY <1>14, <1>15

-----------------------------------------------------------------------------
(* The screen.                                                             *)

Rows    == 0 .. VGA_ROWS - 1
Columns == 0 .. VGA_COLS - 1
Screens == [vga : [Cells -> Glyphs], cursor_row : Rows, cursor_col : Columns]

\* A screen while a character is put on it.
Drafts == [vga : [Cells -> Glyphs], cursor_row : Nat, cursor_col : Nat]

\* The cell of the cursor, and what the character leaves in a cell.
Under(s) == s.cursor_row * VGA_COLS + s.cursor_col

Drawn(s, ch, i) == IF ch \notin Controls /\ i = Under(s) THEN ch ELSE s.vga[i]

LEMMA SizesNat == /\ VGA_COLS \in Nat \ {0} /\ VGA_ROWS \in Nat \ {0} /\ TAB \in Nat \ {0}
                  /\ VGA_ROWS * VGA_COLS \in Nat
<1>1. VGA_COLS \in Nat \ {0} /\ VGA_ROWS \in Nat \ {0} /\ TAB \in Nat \ {0}
  BY ConsoleAssumption
<1> QED BY <1>1

\* The arithmetic of rows.
LEMMA RowArith ==
    ASSUME NEW d \in Nat, NEW x \in Nat, NEW y \in Nat
    PROVE  /\ x * d \in Nat /\ (x + 1) * d = x * d + d /\ (x + y) * d = x * d + y * d
           /\ x <= y => x * d <= y * d
BY SMTT(30)

LEMMA UnderIsCell == ASSUME NEW s \in Screens PROVE Under(s) \in Cells
<1>1. s.cursor_row \in Nat /\ s.cursor_col \in Nat /\ s.cursor_row + 1 <= VGA_ROWS
      /\ s.cursor_col < VGA_COLS
  BY SizesNat DEF Screens, Rows, Columns
<1>2. PICK r \in Nat : r = s.cursor_row
  BY <1>1
<1>3. (r + 1) * VGA_COLS = r * VGA_COLS + VGA_COLS /\ r * VGA_COLS \in Nat
  BY SizesNat, RowArith
<1>4. (r + 1) * VGA_COLS <= VGA_ROWS * VGA_COLS
  <2>1. r + 1 \in Nat /\ r + 1 <= VGA_ROWS
    BY <1>1, <1>2
  <2> QED BY <2>1, SizesNat, RowArith
<1> QED BY <1>1, <1>2, <1>3, <1>4, SizesNat DEF Under, Cells

\* The tab stop after p is in the row of p or at the start of the next.
LEMMA TabStop ==
    ASSUME NEW r \in Nat, NEW k \in Columns
    PROVE  /\ (k \div TAB + 1) * TAB \in 0 .. VGA_COLS
           /\ NextPlace(r * VGA_COLS + k, "\t") = r * VGA_COLS + (k \div TAB + 1) * TAB
<1>1. PICK q \in Nat : VGA_COLS = q * TAB
  <2>1. \A x \in Nat, d \in Nat \ {0} : x % d = 0 => x \div d \in Nat /\ x = (x \div d) * d
    BY SMTT(60)
  <2> QED BY <2>1, ConsoleAssumption
<1>2. k \in Nat /\ k < VGA_COLS
  BY SizesNat DEF Columns
<1>3. PICK m \in Nat : m = k \div TAB /\ m * TAB <= k /\ k < m * TAB + TAB
  <2>1. \A x \in Nat, d \in Nat \ {0} :
          /\ x \div d \in Nat
          /\ (x \div d) * d <= x /\ x < (x \div d) * d + d
    BY SMTT(60)
  <2> QED BY <1>2, <2>1, SizesNat
<1>4. m + 1 <= q
  <2>1. q <= m => q * TAB <= m * TAB
    BY RowArith, SizesNat
  <2>2. m * TAB \in Nat /\ q * TAB \in Nat
    BY RowArith, SizesNat
  <2> QED BY <1>1, <1>2, <1>3, <2>1, <2>2
<1>5. (m + 1) * TAB <= VGA_COLS /\ (m + 1) * TAB \in Nat /\ (m + 1) * TAB = m * TAB + TAB
  BY <1>1, <1>4, RowArith, SizesNat
<1>6. (r * VGA_COLS + k) \div TAB = r * q + m
  <2>1. PICK x \in Nat : x = r * q
    BY RowArith
  <2>2. r * VGA_COLS = x * TAB
    BY <1>1, <2>1, SizesNat, SMTT(30)
  <2>3. PICK z \in 0 .. TAB - 1 : k = m * TAB + z
    <3>1. m * TAB \in Nat
      BY RowArith, SizesNat
    <3>2. k - m * TAB \in 0 .. TAB - 1 /\ k = m * TAB + (k - m * TAB)
      BY <1>2, <1>3, <3>1, SizesNat
    <3> QED BY <3>2
  <2>4. r * VGA_COLS + k = (x + m) * TAB + z
    <3>1. (x + m) * TAB = x * TAB + m * TAB /\ x * TAB \in Nat /\ m * TAB \in Nat
      BY RowArith, SizesNat
    <3> QED BY <2>2, <2>3, <3>1
  <2>5. ((x + m) * TAB + z) \div TAB = x + m
    <3>1. \A d \in Nat \ {0} : \A w \in Nat : \A n \in 0 .. d - 1 : (w * d + n) \div d = w
      BY SMTT(60)
    <3> QED BY <3>1, SizesNat
  <2> QED BY <2>1, <2>4, <2>5
<1>7. (r * q + m + 1) * TAB = r * VGA_COLS + (m + 1) * TAB
  <2>1. PICK x \in Nat : x = r * q
    BY RowArith
  <2>2. r * VGA_COLS = x * TAB
    BY <1>1, <2>1, SizesNat, SMTT(30)
  <2>3. (x + (m + 1)) * TAB = x * TAB + (m + 1) * TAB
    BY RowArith, SizesNat
  <2> QED BY <2>1, <2>2, <2>3
<1>8. NextPlace(r * VGA_COLS + k, "\t") = ((r * VGA_COLS + k) \div TAB + 1) * TAB
  BY DEF NextPlace
<1> QED BY <1>3, <1>5, <1>6, <1>7, <1>8, SizesNat

\* One character, before the wrap: the cursor goes where it goes on paper.
LEMMA AdvanceIs ==
    ASSUME NEW s \in Screens, NEW ch \in Glyphs, NEW top \in Nat
    PROVE  LET put == Advance(s, ch)
           IN  /\ put \in Drafts
               /\ \/ put.cursor_row = s.cursor_row /\ put.cursor_col \in 0 .. VGA_COLS
                  \/ put.cursor_row = s.cursor_row + 1 /\ put.cursor_col = 0
               /\ NextPlace((top + s.cursor_row) * VGA_COLS + s.cursor_col, ch)
                    = (top + put.cursor_row) * VGA_COLS + put.cursor_col
               /\ \A i \in Cells : put.vga[i] = Drawn(s, ch, i)
<1> DEFINE put == Advance(s, ch)
           r   == top + s.cursor_row
           k   == s.cursor_col
           p   == r * VGA_COLS + k
<1>1. /\ s.cursor_row \in Nat /\ r \in Nat /\ k \in Columns /\ k \in 0 .. VGA_COLS - 1
      /\ k \in Nat /\ s.vga \in [Cells -> Glyphs] /\ s \in Drafts
  BY SizesNat DEF Screens, Rows, Columns, Drafts
<1>2. p \in Nat /\ p \div VGA_COLS = r
  <2>1. PICK x \in Nat : x = r
    BY <1>1
  <2> QED BY <1>1, <2>1, RowIs
<1>3. (r + 1) * VGA_COLS = r * VGA_COLS + VGA_COLS /\ r * VGA_COLS \in Nat
  BY <1>1, SizesNat, RowArith
<1>4. CASE ch = "\n"
  <2>1. put = [s EXCEPT !.cursor_row = @ + 1, !.cursor_col = 0]
    BY <1>4 DEF Advance, Newline
  <2>2. put \in Drafts /\ put.cursor_row = s.cursor_row + 1 /\ put.cursor_col = 0
        /\ put.vga = s.vga
    <3>1. PICK n \in Nat : n = s.cursor_row + 1
      BY <1>1
    <3>2. put = [s EXCEPT !.cursor_row = n, !.cursor_col = 0]
      BY <2>1, <3>1
    <3>3. put = [vga |-> s.vga, cursor_row |-> n, cursor_col |-> 0]
      BY <1>1, <3>2 DEF Drafts
    <3> HIDE DEF put
    <3> QED BY <1>1, <3>1, <3>3 DEF Drafts
  <2>3. NextPlace(p, ch) = (r + 1) * VGA_COLS
    BY <1>2, <1>4 DEF NextPlace
  <2>4. top + put.cursor_row = r + 1 /\ (top + put.cursor_row) * VGA_COLS + 0 = (r + 1) * VGA_COLS
    <3>1. top + put.cursor_row = r + 1
      BY <1>1, <2>2
    <3> QED BY <1>1, <1>3, <3>1, SizesNat
  <2> QED BY <1>4, <2>2, <2>3, <2>4 DEF Drawn, Controls
<1>5. CASE ch = "\r"
  <2>1. put = [s EXCEPT !.cursor_col = 0]
    BY <1>5 DEF Advance
  <2>2. put \in Drafts /\ put.cursor_row = s.cursor_row /\ put.cursor_col = 0
        /\ put.vga = s.vga
    BY <1>1, <2>1 DEF Drafts
  <2>3. NextPlace(p, ch) = r * VGA_COLS
    BY <1>2, <1>5 DEF NextPlace
  <2>4. r * VGA_COLS = r * VGA_COLS + 0 /\ 0 \in 0 .. VGA_COLS
    BY <1>3, SizesNat
  <2> QED BY <1>5, <2>2, <2>3, <2>4 DEF Drawn, Controls
<1>6. CASE ch = "\t"
  <2> DEFINE z == (k \div TAB + 1) * TAB
  <2>1. z \in 0 .. VGA_COLS /\ NextPlace(p, ch) = r * VGA_COLS + z
    <3>1. PICK x \in Nat : x = r
      BY <1>1
    <3> QED BY <1>1, <1>6, <3>1, TabStop
  <2>2. put = [s EXCEPT !.cursor_col = z]
    BY <1>6 DEF Advance
  <2> HIDE DEF z
  <2>3. z \in Nat
    BY <2>1, SizesNat
  <2>4. put \in Drafts /\ put.cursor_row = s.cursor_row /\ put.cursor_col = z
        /\ put.vga = s.vga
    BY <1>1, <2>2, <2>3 DEF Drafts
  <2> QED BY <1>6, <2>1, <2>4 DEF Drawn, Controls
<1>7. CASE ch \notin Controls
  <2>1. put = [s EXCEPT !.vga[s.cursor_row * VGA_COLS + s.cursor_col] = ch,
                        !.cursor_col = @ + 1]
    BY <1>7 DEF Advance, Controls
  <2>2. put \in Drafts /\ put.cursor_row = s.cursor_row /\ put.cursor_col = k + 1
        /\ put.vga = [s.vga EXCEPT ![Under(s)] = ch]
    <3>1. PICK g \in [Cells -> Glyphs] : g = [s.vga EXCEPT ![Under(s)] = ch]
      BY <1>1
    <3>2. PICK n \in Nat : n = k + 1
      BY <1>1
    <3>3. put = [s EXCEPT !.vga = g, !.cursor_col = n]
      BY <2>1, <3>1, <3>2 DEF Under
    <3> QED BY <1>1, <3>1, <3>2, <3>3 DEF Drafts
  <2>3. NextPlace(p, ch) = p + 1
    BY <1>7 DEF NextPlace, Controls
  <2>4. p + 1 = r * VGA_COLS + (k + 1) /\ k + 1 \in 0 .. VGA_COLS
    BY <1>1, <1>3, SizesNat
  <2>5. \A i \in Cells : put.vga[i] = IF i = Under(s) THEN ch ELSE s.vga[i]
    BY <1>1, <2>2
  <2> QED BY <1>7, <2>2, <2>3, <2>4, <2>5 DEF Drawn
<1> QED BY <1>4, <1>5, <1>6, <1>7 DEF Controls

\* The wrap: the place is the same, written with a column of the screen.
LEMMA WrapIs ==
    ASSUME NEW put \in Drafts, NEW row \in Rows, NEW top \in Nat,
           \/ put.cursor_row = row /\ put.cursor_col \in 0 .. VGA_COLS
           \/ put.cursor_row = row + 1 /\ put.cursor_col = 0,
           NEW wrap, wrap = IF put.cursor_col >= VGA_COLS THEN Newline(put) ELSE put
    PROVE  /\ wrap \in Drafts /\ wrap.vga = put.vga /\ wrap.cursor_col \in Columns
           /\ wrap.cursor_row \in {row, row + 1}
           /\ (top + wrap.cursor_row) * VGA_COLS + wrap.cursor_col
                = (top + put.cursor_row) * VGA_COLS + put.cursor_col
<1>1. /\ put.cursor_row \in Nat /\ put.cursor_col \in Nat /\ put.vga \in [Cells -> Glyphs]
      /\ row \in Nat
  BY SizesNat DEF Drafts, Rows
<1>2. CASE put.cursor_col >= VGA_COLS
  <2>1. put.cursor_row = row /\ put.cursor_col = VGA_COLS
    BY <1>1, <1>2, SizesNat
  <2>2. PICK n \in Nat : n = row + 1
    BY <1>1
  <2>3. wrap = [put EXCEPT !.cursor_row = n, !.cursor_col = 0]
    BY <1>2, <2>1, <2>2 DEF Newline
  <2>4. wrap = [vga |-> put.vga, cursor_row |-> n, cursor_col |-> 0]
    BY <2>3 DEF Drafts
  <2>5. wrap \in Drafts /\ wrap.vga = put.vga /\ wrap.cursor_row = n /\ wrap.cursor_col = 0
    BY <1>1, <2>4 DEF Drafts
  <2>6. (top + n) * VGA_COLS + 0 = (top + row) * VGA_COLS + VGA_COLS
    <3>1. PICK x \in Nat : x = top + row
      BY <1>1
    <3>2. (x + 1) * VGA_COLS = x * VGA_COLS + VGA_COLS /\ x * VGA_COLS \in Nat
      BY SizesNat, RowArith
    <3>3. top + n = x + 1
      BY <1>1, <2>2, <3>1
    <3> QED BY <3>1, <3>2, <3>3, SizesNat
  <2> QED BY <2>1, <2>2, <2>5, <2>6, SizesNat DEF Columns
<1>3. CASE ~(put.cursor_col >= VGA_COLS)
  <2>1. wrap = put /\ put.cursor_col \in Columns
    BY <1>1, <1>3, SizesNat DEF Columns
  <2> QED BY <2>1
<1> QED BY <1>2, <1>3

\* What arch_console_putc does to a screen that begins at row top of the paper:
\* up is 1 if the screen scrolls and 0 otherwise.
PutcEffect(s, ch, top, up, new) ==
    /\ new \in Screens
    /\ NextPlace((top + s.cursor_row) * VGA_COLS + s.cursor_col, ch)
         = (top + up + new.cursor_row) * VGA_COLS + new.cursor_col
    /\ up = 1 => s.cursor_row = VGA_ROWS - 1 /\ new.cursor_row = VGA_ROWS - 1
    /\ up = 0 => s.cursor_row <= new.cursor_row
    /\ \A i \in Cells : new.vga[i] = IF i + up * VGA_COLS \in Cells
                                     THEN Drawn(s, ch, i + up * VGA_COLS) ELSE Blank

LEMMA PutcIs ==
    ASSUME NEW s \in Screens, NEW ch \in Glyphs, NEW top \in Nat
    PROVE  \E up \in {0, 1} : PutcEffect(s, ch, top, up, arch_console_putc(s, ch))
<1>1. PICK put : put = Advance(s, ch)
  OBVIOUS
<1>2. /\ put \in Drafts
      /\ \/ put.cursor_row = s.cursor_row /\ put.cursor_col \in 0 .. VGA_COLS
         \/ put.cursor_row = s.cursor_row + 1 /\ put.cursor_col = 0
      /\ NextPlace((top + s.cursor_row) * VGA_COLS + s.cursor_col, ch)
           = (top + put.cursor_row) * VGA_COLS + put.cursor_col
      /\ \A i \in Cells : put.vga[i] = Drawn(s, ch, i)
  BY <1>1, AdvanceIs
<1>3. PICK row \in Rows : row = s.cursor_row
  BY DEF Screens
<1>4. PICK wrap : wrap = IF put.cursor_col >= VGA_COLS THEN Newline(put) ELSE put
  OBVIOUS
<1>5. /\ wrap \in Drafts /\ wrap.vga = put.vga /\ wrap.cursor_col \in Columns
      /\ wrap.cursor_row \in {row, row + 1}
      /\ (top + wrap.cursor_row) * VGA_COLS + wrap.cursor_col
           = (top + put.cursor_row) * VGA_COLS + put.cursor_col
  BY <1>2, <1>3, <1>4, WrapIs
<1>6. arch_console_putc(s, ch) = IF wrap.cursor_row >= VGA_ROWS THEN scroll(wrap) ELSE wrap
  BY <1>1, <1>4 DEF arch_console_putc
<1>7. PICK new : new = arch_console_putc(s, ch)
  OBVIOUS
<1>8. row \in Nat /\ row < VGA_ROWS /\ wrap.cursor_row \in Nat /\ wrap.cursor_row <= VGA_ROWS
      /\ wrap.vga \in [Cells -> Glyphs]
  BY <1>5, SizesNat DEF Rows, Drafts
<1>9. CASE wrap.cursor_row >= VGA_ROWS
  <2>1. wrap.cursor_row = VGA_ROWS /\ row = VGA_ROWS - 1
    BY <1>5, <1>8, <1>9, SizesNat
  <2>2. PICK g : g = [i \in Cells |-> IF i + VGA_COLS \in Cells THEN wrap.vga[i + VGA_COLS]
                                      ELSE Blank]
    OBVIOUS
  <2>3. g \in [Cells -> Glyphs]
    BY <1>8, <2>2 DEF Glyphs
  <2>4. new = [vga |-> g, cursor_row |-> VGA_ROWS - 1, cursor_col |-> wrap.cursor_col]
    <3>1. new = [wrap EXCEPT !.vga = g, !.cursor_row = VGA_ROWS - 1]
      BY <1>6, <1>7, <1>9, <2>2 DEF scroll
    <3> QED BY <1>5, <3>1 DEF Drafts
  <2>5. VGA_ROWS - 1 \in Rows
    BY SizesNat DEF Rows
  <2>6. new \in Screens /\ new.cursor_row = VGA_ROWS - 1 /\ new.vga = g
        /\ new.cursor_col = wrap.cursor_col
    BY <1>5, <2>3, <2>4, <2>5 DEF Screens
  <2>7. top + 1 + (VGA_ROWS - 1) = top + VGA_ROWS /\ 1 * VGA_COLS = VGA_COLS
    BY SizesNat
  <2>8. ASSUME NEW i \in Cells
        PROVE  new.vga[i] = IF i + 1 * VGA_COLS \in Cells
                            THEN Drawn(s, ch, i + 1 * VGA_COLS) ELSE Blank
    <3>1. PICK j : j = i + VGA_COLS
      OBVIOUS
    <3>2. j \in Cells => wrap.vga[j] = Drawn(s, ch, j)
      BY <1>2, <1>5
    <3>3. new.vga[i] = IF j \in Cells THEN wrap.vga[j] ELSE Blank
      BY <2>2, <2>6, <3>1
    <3> QED BY <2>7, <3>1, <3>2, <3>3
  <2>9. PutcEffect(s, ch, top, 1, new)
    BY <1>2, <1>3, <1>5, <2>1, <2>6, <2>7, <2>8 DEF PutcEffect
  <2> QED BY <1>7, <2>9
<1>10. CASE ~(wrap.cursor_row >= VGA_ROWS)
  <2>1. new = wrap /\ new \in Screens
    BY <1>5, <1>6, <1>7, <1>8, <1>10, SizesNat DEF Screens, Drafts, Rows
  <2>2. s.cursor_row <= new.cursor_row
    BY <1>3, <1>5, <1>8, <2>1
  <2>3. top + 0 + new.cursor_row = top + wrap.cursor_row
    BY <1>8, <2>1
  <2>4. ASSUME NEW i \in Cells
        PROVE  new.vga[i] = IF i + 0 * VGA_COLS \in Cells
                            THEN Drawn(s, ch, i + 0 * VGA_COLS) ELSE Blank
    <3>1. i + 0 * VGA_COLS = i
      BY SizesNat DEF Cells
    <3> QED BY <1>2, <1>5, <2>1, <3>1
  <2>5. PutcEffect(s, ch, top, 0, new)
    BY <1>2, <1>5, <2>1, <2>2, <2>3, <2>4 DEF PutcEffect
  <2> QED BY <1>7, <2>5
<1> QED BY <1>9, <1>10

-----------------------------------------------------------------------------
(* The screen shows the end of the paper.                                  *)

\* ScreenShowsTail, for any screen and text.
Shows(s, t) ==
    /\ (Top(t) + s.cursor_row) * VGA_COLS + s.cursor_col = Place(t)[Len(t)]
    /\ \A i \in Cells : s.vga[i] = Printed(t, Top(t) * VGA_COLS + i)

\* Nothing was ever printed below the row of the cursor: why the row that comes
\* in when the screen scrolls is blank on paper too.
NothingBelow(t) ==
    \A k \in 0 .. Len(t) : Place(t)[k] < (Place(t)[Len(t)] \div VGA_COLS + 1) * VGA_COLS

ShowInv(s, t) == s \in Screens /\ t \in Seq(Glyphs) /\ Shows(s, t) /\ NothingBelow(t)

\* Where the screen is on the paper.
LEMMA TopIs ==
    ASSUME NEW s, NEW t, ShowInv(s, t)
    PROVE  /\ Top(t) \in Nat
           /\ Place(t)[Len(t)] \div VGA_COLS = Top(t) + s.cursor_row
           /\ Top(t) > 0 => s.cursor_row = VGA_ROWS - 1
<1>1. PICK here \in Nat : here = Place(t)[Len(t)]
  <2>1. Len(t) \in 0 .. Len(t)
    BY DEF ShowInv
  <2> QED BY <2>1, PlaceIs DEF ShowInv
<1>2. PICK row \in Nat : row = here \div VGA_COLS
  <2>1. \A d \in Nat \ {0} : here \div d \in Nat
    BY SMTT(30)
  <2> QED BY <2>1, SizesNat
<1>3. Top(t) = IF row - (VGA_ROWS - 1) >= 0 THEN row - (VGA_ROWS - 1) ELSE 0
  <2>1. PICK x \in Int : x = row - (VGA_ROWS - 1)
    BY SizesNat
  <2>2. Top(t) = Max({0, x})
    BY <1>1, <1>2, <2>1 DEF Top
  <2> QED BY <2>1, <2>2, MaxOfTwo
<1>4. Top(t) \in Nat
  BY <1>3, SizesNat
<1>5. s.cursor_row \in Nat /\ s.cursor_row < VGA_ROWS /\ s.cursor_col \in 0 .. VGA_COLS - 1
  BY SizesNat DEF ShowInv, Screens, Rows, Columns
<1>6. row = Top(t) + s.cursor_row
  <2>1. PICK x \in Nat : x = Top(t) + s.cursor_row
    BY <1>4, <1>5
  <2>2. (x * VGA_COLS + s.cursor_col) \div VGA_COLS = x
    BY <1>5, RowIs
  <2> QED BY <1>1, <1>2, <2>1, <2>2 DEF ShowInv, Shows
<1>7. Top(t) > 0 => s.cursor_row = VGA_ROWS - 1
  BY <1>3, <1>5, <1>6, SizesNat
<1> QED BY <1>1, <1>2, <1>4, <1>6, <1>7

\* One more character, on the screen and on paper.
LEMMA PutcShows ==
    ASSUME NEW s, NEW t, ShowInv(s, t), NEW ch \in Glyphs
    PROVE  ShowInv(arch_console_putc(s, ch), Append(t, ch))
<1>1. PICK new : new = arch_console_putc(s, ch)
  OBVIOUS
<1>2. PICK u \in Seq(Glyphs) : u = Append(t, ch)
  BY AppendProperties DEF ShowInv
<1>3. PICK N \in Nat : N = Len(t) /\ Len(u) = N + 1
  BY <1>2 DEF ShowInv
<1>4. PICK top \in Nat : top = Top(t)
  BY TopIs
<1>5. PICK row \in Nat : row = top + s.cursor_row
  BY <1>4, SizesNat DEF ShowInv, Screens, Rows
<1>6. PICK here \in Nat : here = Place(t)[N]
  <2>1. N \in 0 .. N
    OBVIOUS
  <2> QED BY <1>3, <2>1, PlaceIs DEF ShowInv
<1>7. here = row * VGA_COLS + s.cursor_col /\ here \div VGA_COLS = row
  BY <1>3, <1>4, <1>5, <1>6, TopIs DEF ShowInv, Shows
<1>8. PICK up \in {0, 1} : PutcEffect(s, ch, top, up, new)
  BY <1>1, PutcIs DEF ShowInv
<1>9. s.cursor_row \in Nat /\ s.cursor_row < VGA_ROWS /\ s.cursor_col \in Nat
      /\ new.cursor_row \in Nat /\ new.cursor_row < VGA_ROWS
      /\ new.cursor_col \in 0 .. VGA_COLS - 1
  <2>1. s \in Screens /\ new \in Screens
    BY <1>8 DEF ShowInv, PutcEffect
  <2> QED BY <2>1, SizesNat DEF Screens, Rows, Columns
<1>10. PICK row2 \in Nat : row2 = top + up + new.cursor_row
  BY <1>9
<1>11. PICK here2 \in Nat : here2 = row2 * VGA_COLS + new.cursor_col
                            /\ here2 \div VGA_COLS = row2
  BY <1>9, RowIs
<1>12. Place(u)[N + 1] = here2
  <2>1. Place(u)[N + 1] = NextPlace(here, ch)
    BY <1>2, <1>3, <1>6, PlaceGrows DEF ShowInv
  <2> QED BY <1>5, <1>7, <1>8, <1>10, <1>11, <2>1 DEF PutcEffect
<1>13. row <= row2 /\ (up = 1 => row2 = row + 1)
  <2>1. /\ up = 1 => s.cursor_row = VGA_ROWS - 1 /\ new.cursor_row = VGA_ROWS - 1
        /\ up = 0 => s.cursor_row <= new.cursor_row
    BY <1>8 DEF PutcEffect
  <2>2. CASE up = 1
    <3>1. row = top + (VGA_ROWS - 1) /\ row2 = top + 1 + (VGA_ROWS - 1)
      BY <1>5, <1>10, <2>1, <2>2
    <3>2. row2 = row + 1
      BY <3>1, SizesNat
    <3> QED BY <3>2
  <2>3. CASE up = 0
    BY <1>5, <1>9, <1>10, <2>1, <2>3, SizesNat
  <2> QED BY <2>2, <2>3
<1>14. Top(u) = top + up
  <2>1. PICK x \in Int : x = row2 - (VGA_ROWS - 1)
    BY SizesNat
  <2>2. Top(u) = IF x >= 0 THEN x ELSE 0
    BY <1>3, <1>11, <1>12, <2>1, MaxOfTwo DEF Top
  <2>3. CASE up = 1
    <3>1. new.cursor_row = VGA_ROWS - 1
      BY <1>8, <2>3 DEF PutcEffect
    <3> QED BY <1>10, <2>1, <2>2, <2>3, <3>1, SizesNat
  <2>4. CASE up = 0
    <3>1. s.cursor_row <= new.cursor_row
      BY <1>8, <2>4 DEF PutcEffect
    <3>2. top > 0 => s.cursor_row = VGA_ROWS - 1
      BY <1>4, TopIs
    <3> QED BY <1>9, <1>10, <2>1, <2>2, <2>4, <3>1, <3>2, SizesNat
  <2> QED BY <2>3, <2>4
<1>15. (row + 1) * VGA_COLS <= (row2 + 1) * VGA_COLS
       /\ (row + 1) * VGA_COLS \in Nat /\ (row2 + 1) * VGA_COLS \in Nat
       /\ (row2 + 1) * VGA_COLS = row2 * VGA_COLS + VGA_COLS /\ row2 * VGA_COLS \in Nat
  <2>1. row + 1 \in Nat /\ row2 + 1 \in Nat /\ row + 1 <= row2 + 1
    BY <1>13
  <2> QED BY <2>1, SizesNat, RowArith
<1>16. \A k \in 0 .. N : Place(t)[k] \in Nat /\ Place(t)[k] < (row + 1) * VGA_COLS
  <2>1. \A k \in 0 .. N : Place(t)[k] \in Nat
    BY <1>3, PlaceIs DEF ShowInv
  <2> QED BY <1>3, <1>6, <1>7, <2>1 DEF ShowInv, NothingBelow
<1>17. NothingBelow(u)
  <2>1. ASSUME NEW k \in 0 .. N + 1 PROVE Place(u)[k] < (row2 + 1) * VGA_COLS
    <3>1. CASE k \in 0 .. N
      <4>1. Place(u)[k] = Place(t)[k]
        BY <1>2, <1>3, <3>1, PlaceGrows DEF ShowInv
      <4> QED BY <1>15, <1>16, <3>1, <4>1
    <3>2. CASE k = N + 1
      BY <1>9, <1>11, <1>12, <1>15, <3>2, SizesNat
    <3> QED BY <3>1, <3>2
  <2> QED BY <1>3, <1>11, <1>12, <2>1 DEF NothingBelow
<1>18. (Top(u) + new.cursor_row) * VGA_COLS + new.cursor_col = Place(u)[Len(u)]
  BY <1>3, <1>10, <1>11, <1>12, <1>14
<1>19. ASSUME NEW i \in Cells PROVE new.vga[i] = Printed(u, Top(u) * VGA_COLS + i)
  <2>1. i \in Nat /\ i < VGA_ROWS * VGA_COLS
    BY SizesNat DEF Cells
  <2>2. PICK x \in Nat : x = up * VGA_COLS
    BY SizesNat
  <2>3. PICK y \in Nat : y = top * VGA_COLS
    BY SizesNat, RowArith
  <2>4. Top(u) * VGA_COLS = y + x
    BY <1>14, <2>2, <2>3, SizesNat, RowArith
  <2>5. PICK j \in Nat : j = i + x
    BY <2>1
  <2>6. new.vga[i] = IF j \in Cells THEN Drawn(s, ch, j) ELSE Blank
    BY <1>8, <2>2, <2>5 DEF PutcEffect
  <2>7. PICK p \in Nat : p = y + j
    OBVIOUS
  <2>8. Top(u) * VGA_COLS + i = p
    BY <2>1, <2>4, <2>5, <2>7
  <2>9. Printed(u, p) = IF ch \notin Controls /\ here = p THEN ch ELSE Printed(t, p)
    BY <1>2, <1>3, <1>6, PrintedGrows DEF ShowInv
  <2>10. CASE j \in Cells
    <3>1. s.vga[j] = Printed(t, p)
      BY <1>4, <2>3, <2>7, <2>10 DEF ShowInv, Shows
    <3>2. here = y + Under(s)
      <4>1. row * VGA_COLS = top * VGA_COLS + s.cursor_row * VGA_COLS
            /\ s.cursor_row * VGA_COLS \in Nat
        BY <1>5, <1>9, SizesNat, RowArith
      <4> QED BY <1>7, <1>9, <2>3, <4>1 DEF Under
    <3>3. Under(s) \in Nat
      <4>1. s.cursor_row * VGA_COLS \in Nat
        BY <1>9, SizesNat, RowArith
      <4> QED BY <1>9, <4>1 DEF Under
    <3>4. j = Under(s) <=> here = p
      BY <2>7, <3>2, <3>3
    <3> QED BY <2>6, <2>8, <2>9, <2>10, <3>1, <3>4 DEF Drawn
  <2>11. CASE j \notin Cells
    <3>1. up = 1 /\ x = VGA_COLS
      BY <2>1, <2>2, <2>5, <2>11, SizesNat DEF Cells
    <3>2. row + 1 = top + VGA_ROWS
      BY <1>5, <1>8, <3>1, SizesNat DEF PutcEffect
    <3>3. (row + 1) * VGA_COLS = y + VGA_ROWS * VGA_COLS
      BY <2>3, <3>2, SizesNat, RowArith
    <3>4. j >= VGA_ROWS * VGA_COLS
      BY <2>11, SizesNat DEF Cells
    <3>5. p >= (row + 1) * VGA_COLS
      BY <2>7, <3>3, <3>4, SizesNat
    <3>6. \A k \in 0 .. N : Place(t)[k] # p
      BY <1>15, <1>16, <3>5
    <3>7. here # p
      BY <1>6, <3>6
    <3>8. Printed(t, p) = Blank
      <4>1. \A k \in DOMAIN t : k - 1 \in 0 .. N
        BY <1>3 DEF ShowInv
      <4>2. {k \in DOMAIN t : Place(t)[k - 1] = p /\ t[k] \notin Controls} = {}
        BY <3>6, <4>1
      <4> QED BY <4>2 DEF Printed
    <3> QED BY <2>6, <2>8, <2>9, <2>11, <3>7, <3>8
  <2> QED BY <2>10, <2>11
<1>20. new \in Screens
  BY <1>8 DEF PutcEffect
<1> QED BY <1>1, <1>2, <1>17, <1>18, <1>19, <1>20 DEF ShowInv, Shows

\* A cleared screen and no text.
LEMMA ClearShows == ShowInv(arch_console_clear, << >>)
<1>1. PICK s : s = arch_console_clear
  OBVIOUS
<1>2. PICK t \in Seq(Glyphs) : t = << >> /\ Len(t) = 0
  BY EmptySeq
<1>3. s \in Screens /\ s.cursor_row = 0 /\ s.cursor_col = 0 /\ \A i \in Cells : s.vga[i] = Blank
  BY <1>1, SizesNat DEF arch_console_clear, Screens, Rows, Columns, Glyphs
<1>4. Len(t) = 0 /\ DOMAIN t = {} /\ Place(t)[0] = 0
  <2>1. DOMAIN t = 1 .. Len(t) /\ Place(t)[0] = 0
    BY PlaceIs
  <2> QED BY <1>2, <2>1
<1>5. 0 \div VGA_COLS = 0 /\ 0 * VGA_COLS = 0
  BY SizesNat
<1>6. Top(t) = 0
  <2>1. PICK x \in Int : x = 0 - (VGA_ROWS - 1)
    BY SizesNat
  <2>2. Top(t) = Max({0, x})
    BY <1>4, <1>5, <2>1 DEF Top
  <2> QED BY <2>1, <2>2, MaxOfTwo, SizesNat
<1>7. \A p : Printed(t, p) = Blank
  BY <1>4 DEF Printed
<1>8. Shows(s, t)
  BY <1>3, <1>4, <1>5, <1>6, <1>7 DEF Shows
<1>9. NothingBelow(t)
  BY <1>4, <1>5, SizesNat DEF NothingBelow
<1> QED BY <1>1, <1>2, <1>3, <1>8, <1>9 DEF ShowInv

LEMMA PutcScreen ==
    ASSUME NEW s \in Screens, NEW ch \in Glyphs
    PROVE  arch_console_putc(s, ch) \in Screens
<1>1. \E up \in {0, 1} : PutcEffect(s, ch, 0, up, arch_console_putc(s, ch))
  BY PutcIs
<1> QED BY <1>1 DEF PutcEffect

\* What kernel_main has printed before the loop.
LEMMA BootShows == ShowInv(console_puts(arch_console_clear, BootText), BootText)
<1>1. BootText \in Seq(Glyphs)
  <2>1. PICK B : B = {BootText[k] : k \in DOMAIN BootText}
    OBVIOUS
  <2>2. BootText \in Seq(B) /\ B \subseteq Glyphs
    BY <2>1, TerminalAssumption DEF Glyphs
  <2>3. Seq(B) \subseteq Seq(Glyphs)
    BY <2>2
  <2> QED BY <2>2, <2>3
<1>2. PICK N \in Nat : N = Len(BootText)
  BY <1>1
<1>3. \A k \in 1 .. N : BootText[k] \in Glyphs
  BY <1>1, <1>2
<1>4. PICK s0 \in Screens : s0 = arch_console_clear
  BY ClearShows DEF ShowInv
<1> DEFINE Eq(r) == r = [k \in 0 .. N |-> IF k = 0 THEN s0
                                          ELSE arch_console_putc(r[k - 1], BootText[k])]
<1>5. PICK steps : steps = [k \in 1 .. N |->
                              [s \in Screens |-> arch_console_putc(s, BootText[k])]]
  OBVIOUS
<1>6. steps \in [1 .. N -> [Screens -> Screens]]
  BY <1>3, <1>5, PutcScreen
<1>7. PICK f : Iterates(N, Screens, steps, s0, f)
  BY <1>6, IterationExists
<1>8. Eq(f)
  <2>1. f = [k \in 0 .. N |-> f[k]]
    BY <1>7 DEF Iterates
  <2>2. ASSUME NEW k \in 0 .. N
        PROVE  f[k] = IF k = 0 THEN s0 ELSE arch_console_putc(f[k - 1], BootText[k])
    <3>1. CASE k = 0
      BY <1>7, <3>1 DEF Iterates
    <3>2. CASE k # 0
      <4>1. k \in 1 .. N /\ k - 1 \in 0 .. N
        BY <3>2
      <4>2. f[k] = steps[k][f[k - 1]] /\ f[k - 1] \in Screens
        BY <1>7, <4>1 DEF Iterates
      <4> QED BY <1>5, <3>2, <4>1, <4>2
    <3> QED BY <3>1, <3>2
  <2> QED BY <2>1, <2>2
<1>9. PICK r : Eq(r) /\ console_puts(arch_console_clear, BootText) = r[N]
  <2>1. Eq(CHOOSE r : Eq(r))
    BY <1>8
  <2>2. console_puts(arch_console_clear, BootText) = (CHOOSE r : Eq(r))[N]
    BY <1>2, <1>4 DEF console_puts
  <2> QED BY <2>1, <2>2
<1>10. r[0] = s0 /\ \A k \in 1 .. N : r[k] = arch_console_putc(r[k - 1], BootText[k])
  BY <1>9
<1> DEFINE G == {n \in 0 .. N : ShowInv(r[n], SubSeq(BootText, 1, n))}
<1>11. 0 \in G
  <2>1. SubSeq(BootText, 1, 0) = << >>
    BY <1>1
  <2>2. ShowInv(r[0], SubSeq(BootText, 1, 0))
    BY <1>4, <1>10, <2>1, ClearShows
  <2> QED BY <2>2
<1>12. ASSUME NEW n \in 1 .. N, n - 1 \in G PROVE n \in G
  <2>1. PICK t : t = SubSeq(BootText, 1, n - 1)
    OBVIOUS
  <2>2. PICK s : s = r[n - 1]
    OBVIOUS
  <2>3. PICK ch \in Glyphs : ch = BootText[n]
    BY <1>3
  <2>4. ShowInv(arch_console_putc(s, ch), Append(t, ch))
    BY <1>12, <2>1, <2>2, PutcShows
  <2>5. Append(t, ch) = SubSeq(BootText, 1, n)
    BY <1>1, <1>2, <2>1, <2>3
  <2> QED BY <1>10, <2>2, <2>3, <2>4, <2>5
<1>13. ShowInv(r[N], SubSeq(BootText, 1, N))
  <2> HIDE DEF G
  <2>1. \A n \in 0 .. N : n \in G
    BY <1>11, <1>12, UpTo
  <2> QED BY <2>1 DEF G
<1>14. SubSeq(BootText, 1, N) = BootText
  BY <1>1, <1>2
<1> QED BY <1>9, <1>13, <1>14

-----------------------------------------------------------------------------
\* The ring is the same queue in the idle loop.
LEMMA TerminalSteps ==
    /\ TerminalInit => Init
    /\ [TerminalNext]_terminal => [Next]_vars
BY DEF TerminalInit, TerminalNext, terminal, IdleLoop, Echo, Typed, Next, keyboard_getchar

\* For every buffer size and every pair of tables, however the IRQ handler
\* interrupts keyboard_getchar, the ring is a bounded first-in first-out queue:
\* by itself, and in the idle loop that echoes what it reads.
THEOREM KeyboardIsFifo == (Spec \/ TerminalSpec) => ImplementsFifo
<1>1. Spec => ImplementsFifo
  BY RingIsFifo, PTL DEF Spec
<1>2. TerminalSpec => ImplementsFifo
  BY RingIsFifo, TerminalSteps, PTL DEF TerminalSpec
<1> QED BY <1>1, <1>2

\* For every size of the screen and every text printed and typed, the text
\* console shows the last rows of it and has the cursor at its end.
THEOREM ScreenSafe == TerminalSpec => []ScreenShowsTail
<1>1. TerminalInit => ShowInv(con, text)
  BY BootShows DEF TerminalInit
<1>2. TypeOK /\ ShowInv(con, text) /\ [TerminalNext]_terminal => ShowInv(con, text)'
  <2> SUFFICES ASSUME TypeOK, ShowInv(con, text), [TerminalNext]_terminal
               PROVE  ShowInv(con, text)'
    OBVIOUS
  <2>1. CASE Echo
    <3>1. c \in Glyphs
      BY DEF TypeOK, Glyphs
    <3> QED BY <2>1, <3>1, PutcShows DEF Echo
  <2>2. CASE UNCHANGED <<con, text>>
    <3>1. ShowInv(con, text)' <=> ShowInv(con', text')
      OBVIOUS
    <3> QED BY <2>2, <3>1
  <2> QED BY <2>1, <2>2 DEF TerminalNext, terminal, IdleLoop, Typed
<1>3. ShowInv(con, text) => ScreenShowsTail
  BY DEF ShowInv, Shows, ScreenShowsTail
<1>4. IInv => TypeOK
  BY DEF IInv
<1>5. IInv /\ [Next]_vars => IInv'
  BY StepRefines
<1> QED BY <1>1, <1>2, <1>3, <1>4, <1>5, InvInit, TerminalSteps, PTL DEF TerminalSpec
=============================================================================
