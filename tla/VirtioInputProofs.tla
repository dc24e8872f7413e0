------------------------- MODULE VirtioInputProofs -------------------------
(***************************************************************************)
(* The event queue and the polled input built on it, for every queue size, *)
(* every width of the ring indices and every set of events: who owns a     *)
(* buffer, that events come out once and in order, that the mouse's state  *)
(* is reported.                                                            *)
(***************************************************************************)
EXTENDS VirtioInput, FiniteSetTheorems, SequenceTheorems, WellFoundedInduction, TLAPS

-----------------------------------------------------------------------------
(* Arithmetic of the indices.                                              *)

Indices == 0 .. U16 - 1

\* A remainder is known by one way to write the number.
LEMMA ModUnique ==
    ASSUME NEW d \in Nat \ {0}, NEW p \in Nat, NEW r \in 0 .. d - 1
    PROVE  (p * d + r) % d = r
  BY SMTT(30)

LEMMA ModIs ==
    ASSUME NEW d \in Nat \ {0}, NEW x \in Nat
    PROVE  /\ x % d \in 0 .. d - 1 /\ x \div d \in Nat
           /\ x = (x \div d) * d + (x % d)
           /\ x < d => x % d = x
           /\ d <= x /\ x < 2 * d => x % d = x - d
<1>1. x % d \in 0 .. d - 1 /\ x \div d \in Nat /\ x = (x \div d) * d + (x % d)
  <2>1. x % d \in 0 .. d - 1
    OBVIOUS
  <2>2. x \div d \in Nat /\ x - (x \div d) * d = x % d
    BY SMTT(30)
  <2>3. (x \div d) * d \in Nat
    BY <2>2
  <2> QED BY <2>1, <2>2, <2>3
<1>2. ASSUME x < d PROVE x % d = x
  <2>1. x \in 0 .. d - 1 /\ x = 0 * d + x
    BY <1>2
  <2> QED BY <2>1, ModUnique
<1>3. ASSUME d <= x, x < 2 * d PROVE x % d = x - d
  <2>1. x - d \in 0 .. d - 1 /\ x = 1 * d + (x - d)
    BY <1>3
  <2> QED BY <2>1, ModUnique
<1> QED BY <1>1, <1>2, <1>3

LEMMA ModSum ==
    ASSUME NEW d \in Nat \ {0}, NEW x \in Nat, NEW y \in Nat
    PROVE  /\ y % d = 0 => (x + y) % d = x % d
           /\ y \in 1 .. d - 1 => (x + y) % d # x % d
<1>1. PICK p \in Nat, r \in 0 .. d - 1 : x = p * d + r /\ x % d = r
  BY ModIs
<1>2. ASSUME y % d = 0 PROVE (x + y) % d = x % d
  <2>1. PICK q \in Nat : y = q * d
    <3>1. y \div d \in Nat /\ y = (y \div d) * d + (y % d)
      BY ModIs
    <3>2. y = (y \div d) * d
      BY <1>2, <3>1
    <3> QED BY <3>1, <3>2
  <2>2. p + q \in Nat /\ x + y = (p + q) * d + r
    BY <1>1, <2>1
  <2> QED BY <1>1, <2>2, ModUnique
<1>3. ASSUME y \in 1 .. d - 1 PROVE (x + y) % d # x % d
  <2>1. CASE r + y < d
    <3>1. x + y = p * d + (r + y) /\ r + y \in 0 .. d - 1
      BY <1>1, <1>3, <2>1
    <3>2. (x + y) % d = r + y
      BY <3>1, ModUnique
    <3> QED BY <1>1, <1>3, <3>2
  <2>2. CASE r + y >= d
    <3>1. x + y = (p + 1) * d + (r + y - d) /\ r + y - d \in 0 .. d - 1 /\ p + 1 \in Nat
      BY <1>1, <1>3, <2>2
    <3>2. (x + y) % d = r + y - d
      BY <3>1, ModUnique
    <3> QED BY <1>1, <1>3, <3>2
  <2> QED BY <1>1, <1>3, <2>1, <2>2
<1> QED BY <1>2, <1>3

LEMMA Sizes ==
    /\ QUEUE_SIZE \in Nat \ {0} /\ U16 \in Nat \ {0} /\ U16 > QUEUE_SIZE /\ U16 % QUEUE_SIZE = 0
    /\ Indices \subseteq Nat /\ Descs \subseteq Nat
  BY VirtqueueAssumption DEF Indices, Descs

LEMMA IncIs ==
    ASSUME NEW n \in Indices
    PROVE  Inc(n) = (IF n = U16 - 1 THEN 0 ELSE n + 1) /\ Inc(n) \in Indices
<1>1. n \in Nat /\ n < U16 /\ U16 \in Nat \ {0}
  BY Sizes DEF Indices
<1>2. CASE n = U16 - 1
  BY <1>1, <1>2, ModIs DEF Inc, Indices
<1>3. CASE n # U16 - 1
  <2>1. n + 1 \in Nat /\ n + 1 < U16
    BY <1>1, <1>3
  <2>2. (n + 1) % U16 = n + 1
    BY <1>1, <2>1, ModIs
  <2> QED BY <1>1, <1>3, <2>1, <2>2 DEF Inc, Indices
<1> QED BY <1>2, <1>3

LEMMA AheadIs ==
    ASSUME NEW a \in Indices, NEW b \in Indices
    PROVE  Ahead(a, b) = (IF a <= b THEN b - a ELSE b - a + U16) /\ Ahead(a, b) \in Indices
<1>1. a \in Nat /\ a < U16 /\ b \in Nat /\ b < U16 /\ U16 \in Nat \ {0}
  BY Sizes DEF Indices
<1>2. PICK x \in Nat : x = b - a + U16 /\ x < 2 * U16
  BY <1>1
<1>3. x % U16 = IF x < U16 THEN x ELSE x - U16
  <2>1. \A d \in Nat \ {0} : \A y \in Nat : (y < d => y % d = y)
                                       /\ (d <= y /\ y < 2 * d => y % d = y - d)
    BY ModIs
  <2>2. x < U16 => x % U16 = x
    BY <1>1, <2>1
  <2>3. U16 <= x => x % U16 = x - U16
    BY <1>1, <1>2, <2>1
  <2> QED BY <1>1, <2>2, <2>3
<1>4. Ahead(a, b) = x % U16
  BY <1>2 DEF Ahead
<1> QED BY <1>1, <1>2, <1>3, <1>4 DEF Indices

LEMMA SlotIs ==
    ASSUME NEW x \in Nat
    PROVE  /\ Slot(x) \in Descs /\ Slot(x + U16) = Slot(x)
           /\ \A j \in 1 .. QUEUE_SIZE - 1 : Slot(x + j) # Slot(x)
<1>1. QUEUE_SIZE \in Nat \ {0} /\ U16 \in Nat /\ U16 % QUEUE_SIZE = 0
  BY Sizes
<1>2. Slot(x) \in Descs
  BY <1>1, ModIs DEF Slot, Descs
<1>3. Slot(x + U16) = Slot(x)
  BY <1>1, ModSum DEF Slot
<1>4. ASSUME NEW j \in 1 .. QUEUE_SIZE - 1 PROVE Slot(x + j) # Slot(x)
  <2>1. j \in Nat
    BY <1>1
  <2> QED BY <1>1, <2>1, ModSum DEF Slot
<1> QED BY <1>2, <1>3, <1>4

-----------------------------------------------------------------------------
(* The entries of a ring between two indices, as a sequence.               *)

LEMMA BetweenSeq ==
    ASSUME NEW r \in [Descs -> Descs], NEW a \in Indices, NEW b \in Indices
    PROVE  /\ Between(r, a, b) \in Seq(Descs) /\ Len(Between(r, a, b)) = Ahead(a, b)
           /\ Ahead(a, b) \in Nat
           /\ \A k \in 1 .. Ahead(a, b) : Between(r, a, b)[k] = r[Slot(a + k - 1)]
           /\ Range(Between(r, a, b)) = EntriesOf(r, a, b)
<1> DEFINE s == Between(r, a, b)
           n == Ahead(a, b)
<1>1. n \in Nat /\ a \in Nat
  BY AheadIs, Sizes
<1>2. \A k \in 1 .. n : a + k - 1 \in Nat /\ r[Slot(a + k - 1)] \in Descs
  <2>1. ASSUME NEW k \in 1 .. n PROVE a + k - 1 \in Nat /\ r[Slot(a + k - 1)] \in Descs
    <3>1. a + k - 1 \in Nat
      BY <1>1
    <3> QED BY <3>1, SlotIs
  <2> QED BY <2>1
<1>3. s = [k \in 1 .. n |-> r[Slot(a + k - 1)]]
  BY DEF Between
<1> HIDE DEF s, n
<1>4. s \in Seq(Descs) /\ Len(s) = n /\ \A k \in 1 .. n : s[k] = r[Slot(a + k - 1)]
  <2>1. DOMAIN s = 1 .. n /\ \A k \in 1 .. n : s[k] = r[Slot(a + k - 1)]
    BY <1>3
  <2>2. s \in [1 .. n -> Descs]
    BY <1>2, <1>3
  <2> QED BY <1>1, <2>1, <2>2
<1>5. Range(s) = EntriesOf(r, a, b)
  BY <1>3 DEF Range, EntriesOf, n
<1> QED BY <1>1, <1>4, <1>5 DEF s, n

\* Moving the near index on drops the first entry.
LEMMA BetweenTail ==
    ASSUME NEW r \in [Descs -> Descs], NEW a \in Indices, NEW b \in Indices, a # b
    PROVE  /\ Between(r, a, b) # << >> /\ Head(Between(r, a, b)) = r[Slot(a)]
           /\ Between(r, Inc(a), b) = Tail(Between(r, a, b))
<1> DEFINE s == Between(r, a, b)
           t == Between(r, Inc(a), b)
           n == Ahead(a, b)
<1>1. a \in Nat /\ b \in Nat /\ a < U16 /\ b < U16 /\ U16 \in Nat /\ Inc(a) \in Indices
  BY IncIs, Sizes DEF Indices
<1>2. n \in Nat /\ n >= 1 /\ Ahead(Inc(a), b) = n - 1
  <2>1. n = IF a <= b THEN b - a ELSE b - a + U16
    BY AheadIs
  <2>2. Ahead(Inc(a), b) = IF Inc(a) <= b THEN b - Inc(a) ELSE b - Inc(a) + U16
    BY <1>1, AheadIs
  <2>3. Inc(a) = IF a = U16 - 1 THEN 0 ELSE a + 1
    BY IncIs
  <2> HIDE DEF n
  <2> QED BY <1>1, <2>1, <2>2, <2>3
<1>3. /\ s \in Seq(Descs) /\ Len(s) = n /\ \A k \in 1 .. n : s[k] = r[Slot(a + k - 1)]
      /\ t \in Seq(Descs) /\ Len(t) = n - 1 /\ \A k \in 1 .. n - 1 : t[k] = r[Slot(Inc(a) + k - 1)]
  <2>1. s \in Seq(Descs) /\ Len(s) = n /\ \A k \in 1 .. n : s[k] = r[Slot(a + k - 1)]
    BY BetweenSeq
  <2>2. PICK c \in Indices : c = Inc(a)
    BY <1>1
  <2>3. /\ Between(r, c, b) \in Seq(Descs) /\ Len(Between(r, c, b)) = Ahead(c, b)
        /\ \A k \in 1 .. Ahead(c, b) : Between(r, c, b)[k] = r[Slot(c + k - 1)]
    BY BetweenSeq
  <2> QED BY <1>2, <2>1, <2>2, <2>3
<1> HIDE DEF s, t, n
<1>4. s # << >> /\ Head(s) = r[Slot(a)]
  <2>1. s[1] = r[Slot(a)]
    BY <1>1, <1>2, <1>3
  <2> QED BY <1>2, <1>3, <2>1
<1>5. ASSUME NEW k \in 1 .. n - 1 PROVE t[k] = Tail(s)[k]
  <2>1. k \in Nat /\ k + 1 \in 1 .. n /\ a + k \in Nat /\ a + (k + 1) - 1 = a + k
    BY <1>1, <1>2
  <2>2. Tail(s)[k] = r[Slot(a + k)]
    BY <1>3, <1>4, <2>1
  <2>3. Slot(Inc(a) + k - 1) = Slot(a + k)
    <3>1. CASE a # U16 - 1
      <4>1. Inc(a) + k - 1 = a + k
        BY <1>1, <2>1, <3>1, IncIs
      <4> QED BY <4>1
    <3>2. CASE a = U16 - 1
      <4>1. Inc(a) + k - 1 = k - 1 /\ k - 1 \in Nat /\ (k - 1) + U16 = a + k
        BY <1>1, <2>1, <3>2, IncIs
      <4>2. Slot((k - 1) + U16) = Slot(k - 1)
        BY <4>1, SlotIs
      <4> QED BY <4>1, <4>2
    <3> QED BY <3>1, <3>2
  <2> QED BY <1>3, <2>2, <2>3
<1>6. Tail(s) \in Seq(Descs) /\ Len(Tail(s)) = n - 1
  BY <1>2, <1>3, <1>4
<1>7. t = Tail(s)
  BY <1>3, <1>5, <1>6, SeqEqual
<1> QED BY <1>4, <1>7 DEF s, t

\* The slot the far index names lies behind all the entries.
LEMMA FarSlot ==
    ASSUME NEW a \in Indices, NEW b \in Indices, Ahead(a, b) < QUEUE_SIZE
    PROVE  /\ Slot(b) \in Descs
           /\ \A k \in 1 .. Ahead(a, b) : Slot(a + k - 1) # Slot(b)
           /\ Slot(a + Ahead(a, b)) = Slot(b)
<1> DEFINE n == Ahead(a, b)
<1>1. /\ a \in Nat /\ b \in Nat /\ n \in Nat /\ QUEUE_SIZE \in Nat /\ U16 \in Nat
      /\ n = IF a <= b THEN b - a ELSE b - a + U16
  BY AheadIs, Sizes DEF Indices
<1>2. Slot(b) \in Descs
  BY <1>1, SlotIs
<1>3. Slot(a + n) = Slot(b)
  <2>1. a + n = b \/ a + n = b + U16
    BY <1>1
  <2> QED BY <1>1, <2>1, SlotIs
<1> HIDE DEF n
<1>4. ASSUME NEW k \in 1 .. n PROVE Slot(a + k - 1) # Slot(b)
  <2>1. PICK x \in Nat : x = a + k - 1
    BY <1>1
  <2>2. PICK j \in 1 .. QUEUE_SIZE - 1 : j = n - k + 1
    BY <1>1 DEF n
  <2>3. x + j = a + n
    BY <1>1, <2>1, <2>2
  <2>4. Slot(x + j) # Slot(x)
    BY SlotIs
  <2> QED BY <1>3, <2>1, <2>3, <2>4
<1> QED BY <1>2, <1>3, <1>4 DEF n

\* Writing there leaves them alone.
LEMMA BetweenWrite ==
    ASSUME NEW r \in [Descs -> Descs], NEW a \in Indices, NEW b \in Indices, NEW v \in Descs,
           Ahead(a, b) < QUEUE_SIZE
    PROVE  Between([r EXCEPT ![Slot(b)] = v], a, b) = Between(r, a, b)
<1> DEFINE w == [r EXCEPT ![Slot(b)] = v]
<1>1. \A k \in 1 .. Ahead(a, b) : w[Slot(a + k - 1)] = r[Slot(a + k - 1)]
  <2>1. ASSUME NEW k \in 1 .. Ahead(a, b) PROVE w[Slot(a + k - 1)] = r[Slot(a + k - 1)]
    <3>1. a + k - 1 \in Nat /\ Slot(a + k - 1) # Slot(b)
      BY FarSlot, AheadIs, Sizes
    <3>2. Slot(a + k - 1) \in Descs
      BY <3>1, SlotIs
    <3> QED BY <3>1, <3>2
  <2> QED BY <2>1
<1> HIDE DEF w
<1> QED BY <1>1 DEF Between, w

\* Moving the far index on adds the entry written there.
LEMMA BetweenAppend ==
    ASSUME NEW r \in [Descs -> Descs], NEW a \in Indices, NEW b \in Indices,
           Ahead(a, b) < QUEUE_SIZE
    PROVE  Between(r, a, Inc(b)) = Append(Between(r, a, b), r[Slot(b)])
<1> DEFINE s == Between(r, a, b)
           t == Between(r, a, Inc(b))
           n == Ahead(a, b)
<1>1. a \in Nat /\ b \in Nat /\ a < U16 /\ b < U16 /\ U16 \in Nat /\ Inc(b) \in Indices
      /\ QUEUE_SIZE \in Nat /\ QUEUE_SIZE < U16
  BY IncIs, Sizes DEF Indices
<1>2. n \in Nat /\ Ahead(a, Inc(b)) = n + 1
  <2>1. n = IF a <= b THEN b - a ELSE b - a + U16
    BY AheadIs
  <2>2. Ahead(a, Inc(b)) = IF a <= Inc(b) THEN Inc(b) - a ELSE Inc(b) - a + U16
    BY <1>1, AheadIs
  <2>3. Inc(b) = IF b = U16 - 1 THEN 0 ELSE b + 1
    BY IncIs
  <2>4. n < QUEUE_SIZE
    OBVIOUS
  <2> HIDE DEF n
  <2> QED BY <1>1, <2>1, <2>2, <2>3, <2>4
<1>3. /\ s \in Seq(Descs) /\ Len(s) = n /\ \A k \in 1 .. n : s[k] = r[Slot(a + k - 1)]
      /\ t \in Seq(Descs) /\ Len(t) = n + 1 /\ \A k \in 1 .. n + 1 : t[k] = r[Slot(a + k - 1)]
  BY <1>1, <1>2, BetweenSeq
<1>4. Slot(a + n) = Slot(b) /\ r[Slot(b)] \in Descs
  BY FarSlot
<1> HIDE DEF s, t, n
<1>5. ASSUME NEW k \in 1 .. n + 1 PROVE t[k] = Append(s, r[Slot(b)])[k]
  <2>1. CASE k = n + 1
    <3>1. a + k - 1 = a + n
      BY <1>1, <1>2, <2>1
    <3> QED BY <1>2, <1>3, <1>4, <2>1, <3>1
  <2>2. CASE k # n + 1
    <3>1. k \in 1 .. n /\ k \in 1 .. n + 1
      BY <1>2, <2>2
    <3>2. Append(s, r[Slot(b)])[k] = s[k]
      BY <1>3, <1>4, <3>1
    <3> QED BY <1>3, <3>1, <3>2
  <2> QED BY <2>1, <2>2
<1>6. Append(s, r[Slot(b)]) \in Seq(Descs) /\ Len(Append(s, r[Slot(b)])) = n + 1
  BY <1>2, <1>3, <1>4
<1>7. t = Append(s, r[Slot(b)])
  BY <1>3, <1>5, <1>6, SeqEqual
<1> QED BY <1>7 DEF s, t

LEMMA TakeHead ==
    ASSUME NEW s \in Seq(Descs), s # << >>, IsInjective(s)
    PROVE  /\ IsInjective(Tail(s)) /\ Len(Tail(s)) = Len(s) - 1
           /\ Head(s) \in Range(s) /\ Range(Tail(s)) = Range(s) \ {Head(s)}
<1> DEFINE n == Len(s)
           t == Tail(s)
<1>1. n \in Nat /\ n >= 1 /\ DOMAIN s = 1 .. n /\ Head(s) = s[1]
  OBVIOUS
<1>2. t \in Seq(Descs) /\ Len(t) = n - 1 /\ DOMAIN t = 1 .. n - 1
      /\ \A k \in 1 .. n - 1 : t[k] = s[k + 1]
  OBVIOUS
<1> HIDE DEF n, t
<1>3. \A j, k \in 1 .. n : s[j] = s[k] => j = k
  BY <1>1 DEF IsInjective
<1>4. IsInjective(t)
  <2>1. ASSUME NEW j \in 1 .. n - 1, NEW k \in 1 .. n - 1, t[j] = t[k] PROVE j = k
    <3>1. j + 1 \in 1 .. n /\ k + 1 \in 1 .. n /\ s[j + 1] = s[k + 1]
      BY <1>1, <1>2, <2>1
    <3> QED BY <1>1, <1>3, <3>1
  <2> QED BY <1>2, <2>1 DEF IsInjective
<1>5. Head(s) \in Range(s)
  BY <1>1 DEF Range
<1>6. ASSUME NEW x \in Range(t) PROVE x \in Range(s) \ {Head(s)}
  <2>1. PICK k \in 1 .. n - 1 : x = t[k]
    BY <1>2 DEF Range
  <2>2. k + 1 \in 1 .. n /\ x = s[k + 1] /\ k + 1 # 1 /\ 1 \in 1 .. n
    BY <1>1, <1>2, <2>1
  <2> QED BY <1>1, <1>3, <2>2 DEF Range
<1>7. ASSUME NEW x \in Range(s) \ {Head(s)} PROVE x \in Range(t)
  <2>1. PICK k \in 1 .. n : x = s[k] /\ k # 1
    BY <1>1 DEF Range
  <2>2. k - 1 \in 1 .. n - 1 /\ (k - 1) + 1 = k
    BY <1>1, <2>1
  <2>3. x = t[k - 1]
    BY <1>2, <2>1, <2>2
  <2> QED BY <1>2, <2>2, <2>3 DEF Range
<1> QED BY <1>2, <1>4, <1>5, <1>6, <1>7 DEF t, n

LEMMA PutLast ==
    ASSUME NEW s \in Seq(Descs), NEW d \in Descs, IsInjective(s), d \notin Range(s)
    PROVE  /\ IsInjective(Append(s, d)) /\ Len(Append(s, d)) = Len(s) + 1
           /\ Range(Append(s, d)) = Range(s) \cup {d}
<1> DEFINE n == Len(s)
           t == Append(s, d)
<1>1. n \in Nat /\ DOMAIN s = 1 .. n
  OBVIOUS
<1>2. t \in Seq(Descs) /\ Len(t) = n + 1 /\ DOMAIN t = 1 .. n + 1 /\ t[n + 1] = d
      /\ \A k \in 1 .. n : t[k] = s[k]
  OBVIOUS
<1> HIDE DEF n, t
<1>3. /\ \A j, k \in 1 .. n : s[j] = s[k] => j = k
      /\ \A k \in 1 .. n : s[k] # d
  BY <1>1 DEF IsInjective, Range
<1>4. ASSUME NEW j \in 1 .. n + 1, NEW k \in 1 .. n + 1, t[j] = t[k] PROVE j = k
  <2>1. (j = n + 1 \/ j \in 1 .. n) /\ (k = n + 1 \/ k \in 1 .. n)
    BY <1>1
  <2> QED BY <1>2, <1>3, <1>4, <2>1
<1>5. ASSUME NEW x \in Range(t) PROVE x \in Range(s) \cup {d}
  <2>1. PICK k \in 1 .. n + 1 : x = t[k]
    BY <1>2 DEF Range
  <2>2. k = n + 1 \/ k \in 1 .. n
    BY <1>1
  <2> QED BY <1>1, <1>2, <2>1, <2>2 DEF Range
<1>6. ASSUME NEW x \in Range(s) \cup {d} PROVE x \in Range(t)
  <2>1. CASE x = d
    <3>1. n + 1 \in 1 .. n + 1
      BY <1>1
    <3> QED BY <1>2, <2>1, <3>1 DEF Range
  <2>2. CASE x \in Range(s)
    <3>1. PICK k \in 1 .. n : x = s[k]
      BY <1>1, <2>2 DEF Range
    <3>2. k \in 1 .. n + 1 /\ t[k] = x
      BY <1>1, <1>2, <3>1
    <3> QED BY <1>2, <3>2 DEF Range
  <2> QED BY <2>1, <2>2
<1>7. IsInjective(t)
  BY <1>2, <1>4 DEF IsInjective
<1> QED BY <1>2, <1>5, <1>6, <1>7 DEF t, n

-----------------------------------------------------------------------------
(* The inductive invariant.                                                *)

Pcs == {"seed", "publish_ring", "publish_idx", "poll", "elem", "copy"}

QueueTypes ==
    /\ avail_ring \in [Descs -> Descs] /\ used_ring \in [Descs -> Descs]
    /\ desc \in [Descs -> Descs \cup {-1}]
    /\ avail_idx \in Indices /\ used_idx \in Indices /\ used_seen \in Indices
    /\ bufs \in [Descs -> Events \cup {NoEvent}]
    /\ pc \in Pcs /\ seeded \in 0 .. QUEUE_SIZE /\ idx \in Descs
    /\ dev \in [at : {"idle", "elem", "idx"}, id : Descs, last_avail : Indices]

\* The four places of a descriptor: posted, taken by the device, completed, and
\* (Held) in the driver's hands.
Posted == Between(avail_ring, dev.last_avail, avail_idx)
Done   == Between(used_ring, used_seen, used_idx)
Taken  == IF dev.at = "idle" THEN {} ELSE {dev.id}

Started == {d \in Descs : d < seeded \/ d \in Held}

\* Every started descriptor is in one place, and the places are counted.
Places ==
    /\ IsInjective(Posted) /\ IsInjective(Done)
    /\ Started = Range(Posted) \cup Range(Done) \cup Taken \cup Held
    /\ Range(Posted) \cap Range(Done) = {} /\ Range(Posted) \cap Taken = {}
    /\ Range(Posted) \cap Held = {} /\ Range(Done) \cap Taken = {}
    /\ Range(Done) \cap Held = {} /\ Taken \cap Held = {}
    /\ Len(Posted) + Len(Done) + (IF dev.at = "idle" THEN 0 ELSE 1)
         + (IF Held = {} THEN 0 ELSE 1) = IF seeded \in Held THEN seeded + 1 ELSE seeded

\* seed_queue posts the descriptors in their order, each pointing to its buffer.
Seeding ==
    /\ pc = "seed" => seeded < QUEUE_SIZE
    /\ pc \in {"poll", "elem", "copy"} => seeded = QUEUE_SIZE
    /\ pc \in {"publish_ring", "publish_idx"} /\ seeded < QUEUE_SIZE => idx = seeded
    /\ \A d \in Started : desc[d] = d

\* What was written before an index moves is still there when it does.
Written ==
    /\ pc = "publish_idx" => avail_ring[Slot(avail_idx)] = idx
    /\ dev.at = "idx" => used_ring[Slot(used_idx)] = dev.id
    /\ pc = "elem" => used_idx # used_seen

\* Buffers on their way to the handlers hold an event.
Filled ==
    /\ \A d \in Range(Done) \cup Taken : bufs[d] \in Events
    /\ pc = "copy" => bufs[idx] \in Events

QueueInv == QueueTypes /\ Places /\ Seeding /\ Written /\ Filled

LEMMA QueueFacts ==
    ASSUME QueueInv
    PROVE  /\ Posted \in Seq(Descs) /\ Len(Posted) \in Nat
           /\ Len(Posted) = Ahead(dev.last_avail, avail_idx)
           /\ Done \in Seq(Descs) /\ Len(Done) \in Nat /\ Len(Done) = Ahead(used_seen, used_idx)
           /\ Held # {} => Len(Posted) < QUEUE_SIZE
           /\ dev.at # "idle" => Len(Done) < QUEUE_SIZE
           /\ dev.last_avail \in Indices /\ dev.id \in Descs
           /\ seeded \in Nat /\ QUEUE_SIZE \in Nat /\ Held \subseteq Descs
<1>1. /\ dev.last_avail \in Indices /\ dev.id \in Descs /\ seeded \in 0 .. QUEUE_SIZE
      /\ idx \in Descs /\ QUEUE_SIZE \in Nat
  BY Sizes DEF QueueInv, QueueTypes
<1>2. Held \subseteq Descs /\ seeded \in Nat
  BY <1>1 DEF Held
<1>0. /\ avail_ring \in [Descs -> Descs] /\ used_ring \in [Descs -> Descs]
      /\ avail_idx \in Indices /\ used_idx \in Indices /\ used_seen \in Indices
  BY DEF QueueInv, QueueTypes
<1>9. \A r \in [Descs -> Descs] : \A a, b \in Indices :
        Between(r, a, b) \in Seq(Descs) /\ Len(Between(r, a, b)) = Ahead(a, b) /\ Ahead(a, b) \in Nat
  BY BetweenSeq
<1>3. Posted \in Seq(Descs) /\ Len(Posted) \in Nat /\ Len(Posted) = Ahead(dev.last_avail, avail_idx)
  BY <1>0, <1>1, <1>9 DEF Posted
<1>4. Done \in Seq(Descs) /\ Len(Done) \in Nat /\ Len(Done) = Ahead(used_seen, used_idx)
  BY <1>0, <1>9 DEF Done
<1>5. (IF seeded \in Held THEN seeded + 1 ELSE seeded) <= QUEUE_SIZE
  BY <1>1, <1>2 DEF Descs
<1>6. Len(Posted) + Len(Done) + (IF dev.at = "idle" THEN 0 ELSE 1)
        + (IF Held = {} THEN 0 ELSE 1) <= QUEUE_SIZE
  BY <1>5 DEF QueueInv, Places
<1> QED BY <1>1, <1>2, <1>3, <1>4, <1>6

LEMMA QueueInit == Init => QueueInv
<1> SUFFICES ASSUME Init PROVE QueueInv
  OBVIOUS
<1>1. QUEUE_SIZE \in Nat \ {0} /\ U16 \in Nat \ {0} /\ 0 \in Indices /\ 0 \in Descs
  BY Sizes DEF Indices, Descs
<1>2. QueueTypes
  BY <1>1 DEF Init, QueueTypes, Pcs
<1>3. Ahead(0, 0) = 0
  BY <1>1, AheadIs
<1>4. Posted = << >> /\ Done = << >> /\ Taken = {} /\ Held = {}
  BY <1>3 DEF Init, Posted, Done, Between, Taken, Held
<1>5. Started = {}
  BY <1>4 DEF Init, Started, Descs
<1>6. Range(<< >>) = {} /\ IsInjective(<< >>) /\ Len(<< >>) = 0
  BY DEF Range, IsInjective
<1>7. Places
  BY <1>4, <1>5, <1>6 DEF Init, Places
<1>8. Seeding /\ Written
  BY <1>1, <1>5 DEF Init, Seeding, Written
<1>9. Filled
  BY <1>4, <1>6 DEF Init, Filled
<1> QED BY <1>2, <1>7, <1>8, <1>9 DEF QueueInv

LEMMA SeedKeeps == ASSUME QueueInv, SeedDesc PROVE QueueInv'
<1>1. /\ pc = "seed" /\ desc' = [desc EXCEPT ![seeded] = seeded] /\ idx' = seeded
      /\ pc' = "publish_ring"
      /\ UNCHANGED <<avail_ring, avail_idx, used_seen, seeded, used_ring, used_idx, dev, bufs>>
  BY DEF SeedDesc, device
<1>2. seeded < QUEUE_SIZE /\ seeded \in Descs /\ Held = {} /\ Held' = {seeded} /\ QUEUE_SIZE \in Nat
  BY <1>1, Sizes DEF QueueInv, QueueTypes, Seeding, Held, Descs
<1>3. Posted' = Posted /\ Done' = Done /\ Taken' = Taken
  BY <1>1 DEF Posted, Done, Taken
<1>4. Started' = Started \cup {seeded} /\ seeded \notin Started
  BY <1>1, <1>2 DEF Started, Descs
<1>5. QueueTypes'
  BY <1>1, <1>2 DEF QueueInv, QueueTypes, Pcs
<1>6. Places'
  <2>1. seeded \in Held' /\ Held' # {} /\ seeded \notin Held
    BY <1>2
  <2>2. Len(Posted) \in Nat /\ Len(Done) \in Nat /\ seeded \in Nat
    BY QueueFacts
  <2>3. Len(Posted) + Len(Done) + (IF dev.at = "idle" THEN 0 ELSE 1) + 0 = seeded
    BY <1>2 DEF QueueInv, Places
  <2>4. Len(Posted) + Len(Done) + (IF dev.at = "idle" THEN 0 ELSE 1) + 1 = seeded + 1
    BY <2>2, <2>3
  <2>5. seeded \notin Range(Posted) /\ seeded \notin Range(Done) /\ seeded \notin Taken
    BY <1>4 DEF QueueInv, Places
  <2> QED BY <1>1, <1>2, <1>3, <1>4, <2>1, <2>4, <2>5 DEF QueueInv, Places
<1>7. Seeding'
  BY <1>1, <1>2, <1>4 DEF QueueInv, QueueTypes, Seeding, Started
<1>8. Written' /\ Filled'
  BY <1>1, <1>3 DEF QueueInv, Written, Filled
<1> QED BY <1>5, <1>6, <1>7, <1>8 DEF QueueInv

LEMMA PublishKeeps == ASSUME QueueInv, PublishRing PROVE QueueInv'
<1>1. /\ pc = "publish_ring" /\ pc' = "publish_idx"
      /\ avail_ring' = [avail_ring EXCEPT ![Slot(avail_idx)] = idx]
      /\ UNCHANGED <<desc, avail_idx, used_seen, seeded, idx, used_ring, used_idx, dev, bufs>>
  BY DEF PublishRing, device
<1>2. Held = {idx} /\ Held' = Held
  BY <1>1 DEF Held
<1>3. avail_idx \in Indices /\ avail_idx \in Nat /\ idx \in Descs /\ Slot(avail_idx) \in Descs
  BY Sizes, SlotIs DEF QueueInv, QueueTypes
<1>4. Posted' = Posted
  <2>1. Ahead(dev.last_avail, avail_idx) < QUEUE_SIZE /\ dev.last_avail \in Indices
    BY <1>2, QueueFacts
  <2>2. avail_ring \in [Descs -> Descs]
    BY DEF QueueInv, QueueTypes
  <2>3. \A r \in [Descs -> Descs] : \A a, b \in Indices : \A v \in Descs :
          Ahead(a, b) < QUEUE_SIZE =>
            Between([r EXCEPT ![Slot(b)] = v], a, b) = Between(r, a, b)
    BY BetweenWrite
  <2> QED BY <1>1, <1>3, <2>1, <2>2, <2>3 DEF Posted
<1>5. Done' = Done /\ Taken' = Taken /\ Started' = Started
  BY <1>1, <1>2 DEF Done, Taken, Started
<1>6. QueueTypes'
  BY <1>1, <1>3 DEF QueueInv, QueueTypes, Pcs
<1>7. Places'
  BY <1>1, <1>2, <1>4, <1>5 DEF QueueInv, Places
<1>8. Seeding' /\ Filled'
  BY <1>1, <1>5 DEF QueueInv, Seeding, Filled
<1>9. Written'
  BY <1>1, <1>3 DEF QueueInv, QueueTypes, Written
<1> QED BY <1>6, <1>7, <1>8, <1>9 DEF QueueInv

LEMMA AdvanceKeeps == ASSUME QueueInv, PublishIdx PROVE QueueInv'
<1>1. /\ pc = "publish_idx" /\ avail_idx' = Inc(avail_idx)
      /\ seeded' = (IF seeded < QUEUE_SIZE THEN seeded + 1 ELSE seeded)
      /\ pc' = (IF seeded' < QUEUE_SIZE THEN "seed" ELSE "poll")
      /\ UNCHANGED <<desc, avail_ring, used_seen, idx, used_ring, used_idx, dev, bufs>>
  BY DEF PublishIdx, device
<1>2. Held = {idx} /\ Held' = {}
  BY <1>1 DEF Held
<1>3. /\ avail_idx \in Indices /\ idx \in Descs /\ avail_ring[Slot(avail_idx)] = idx
      /\ Inc(avail_idx) \in Indices /\ seeded \in 0 .. QUEUE_SIZE /\ QUEUE_SIZE \in Nat
  BY <1>1, IncIs, Sizes DEF QueueInv, QueueTypes, Written
<1>4. Posted' = Append(Posted, idx)
  <2>1. Ahead(dev.last_avail, avail_idx) < QUEUE_SIZE /\ dev.last_avail \in Indices
    BY <1>2, QueueFacts
  <2>2. Between(avail_ring, dev.last_avail, Inc(avail_idx)) = Append(Posted, idx)
    BY <1>3, <2>1, BetweenAppend DEF QueueInv, QueueTypes, Posted
  <2> QED BY <1>1, <2>2 DEF Posted
<1>5. Done' = Done /\ Taken' = Taken
  BY <1>1 DEF Done, Taken
<1>6. Started' = Started
  BY <1>1, <1>2, <1>3 DEF QueueInv, Seeding, Started, Descs
<1>7. QueueTypes'
  BY <1>1, <1>3 DEF QueueInv, QueueTypes, Pcs
<1>8. Places'
  <2>1. Posted \in Seq(Descs) /\ Len(Posted) \in Nat /\ Len(Done) \in Nat
    BY QueueFacts
  <2>2. idx \notin Range(Posted) /\ IsInjective(Posted)
    BY <1>2 DEF QueueInv, Places
  <2>3. /\ IsInjective(Posted') /\ Len(Posted') = Len(Posted) + 1
        /\ Range(Posted') = Range(Posted) \cup {idx}
    BY <1>3, <1>4, <2>1, <2>2, PutLast
  <2>4. Len(Posted) + Len(Done) + (IF dev.at = "idle" THEN 0 ELSE 1) + 1 = seeded'
    <3>1. CASE seeded < QUEUE_SIZE
      <4>1. seeded = idx /\ seeded' = seeded + 1
        BY <1>1, <3>1 DEF QueueInv, Seeding
      <4> QED BY <1>2, <4>1 DEF QueueInv, Places
    <3>2. CASE seeded = QUEUE_SIZE
      <4>1. seeded \notin Held /\ seeded' = seeded
        BY <1>1, <1>2, <1>3, <3>2 DEF Descs
      <4> QED BY <1>2, <4>1 DEF QueueInv, Places
    <3> QED BY <1>3, <3>1, <3>2
  <2>5. Len(Posted') + Len(Done) + (IF dev.at = "idle" THEN 0 ELSE 1) + 0 = seeded'
    BY <2>1, <2>3, <2>4
  <2>6. /\ IsInjective(Done)
        /\ Started = Range(Posted') \cup Range(Done) \cup Taken
        /\ Range(Posted') \cap Range(Done) = {} /\ Range(Posted') \cap Taken = {}
        /\ Range(Done) \cap Taken = {}
    BY <1>2, <2>3 DEF QueueInv, Places
  <2> QED BY <1>1, <1>2, <1>5, <1>6, <2>3, <2>5, <2>6 DEF Places
<1>9. Seeding'
  BY <1>1, <1>3, <1>6 DEF QueueInv, Seeding
<1>10. Written' /\ Filled'
  BY <1>1, <1>5 DEF QueueInv, Written, Filled
<1> QED BY <1>7, <1>8, <1>9, <1>10 DEF QueueInv

LEMMA PollKeeps == ASSUME QueueInv, PollTest \/ Copy PROVE QueueInv'
<1>1. /\ \/ pc = "poll" /\ pc' = "elem" /\ used_idx # used_seen
         \/ pc = "copy" /\ pc' = "publish_ring"
      /\ UNCHANGED <<desc, avail_ring, avail_idx, used_seen, seeded, idx, used_ring, used_idx, dev,
                     bufs>>
  BY DEF PollTest, Copy, device
<1>2. Held' = Held
  BY <1>1 DEF Held
<1>3. Posted' = Posted /\ Done' = Done /\ Taken' = Taken /\ Started' = Started
  BY <1>1, <1>2 DEF Posted, Done, Taken, Started
<1>4. QueueTypes'
  BY <1>1 DEF QueueInv, QueueTypes, Pcs
<1>5. Places'
  BY <1>1, <1>2, <1>3 DEF QueueInv, Places
<1>6. Seeding'
  BY <1>1, <1>3 DEF QueueInv, QueueTypes, Seeding, Descs
<1>7. Written' /\ Filled'
  BY <1>1, <1>3 DEF QueueInv, Written, Filled
<1> QED BY <1>4, <1>5, <1>6, <1>7 DEF QueueInv

LEMMA ElemKeeps ==
    ASSUME QueueInv, PollElem
    PROVE  QueueInv' /\ Done # << >> /\ idx' = Head(Done) /\ Done' = Tail(Done)
<1>1. /\ pc = "elem" /\ pc' = "copy" /\ idx' = used_ring[Slot(used_seen)]
      /\ used_seen' = Inc(used_seen)
      /\ UNCHANGED <<desc, avail_ring, avail_idx, seeded, used_ring, used_idx, dev, bufs>>
  BY DEF PollElem, device
<1>2. /\ used_ring \in [Descs -> Descs] /\ used_seen \in Indices /\ used_idx \in Indices
      /\ used_seen # used_idx /\ Inc(used_seen) \in Indices /\ seeded = QUEUE_SIZE
      /\ QUEUE_SIZE \in Nat
  BY <1>1, IncIs, Sizes DEF QueueInv, QueueTypes, Written, Seeding
<1>3. Done # << >> /\ idx' = Head(Done) /\ Done' = Tail(Done)
  BY <1>1, <1>2, BetweenTail DEF Done
<1>4. Done \in Seq(Descs) /\ Len(Done) \in Nat /\ Len(Posted) \in Nat /\ IsInjective(Done)
  BY QueueFacts DEF QueueInv, Places
<1>5. /\ IsInjective(Done') /\ Len(Done') = Len(Done) - 1
      /\ Head(Done) \in Range(Done) /\ Range(Done') = Range(Done) \ {Head(Done)}
  BY <1>3, <1>4, TakeHead
<1>6. Held = {} /\ Held' = {Head(Done)} /\ idx' \in Descs
  BY <1>1, <1>3, <1>4 DEF Held
<1>7. Posted' = Posted /\ Taken' = Taken
  BY <1>1 DEF Posted, Taken
<1>8. Started = Descs /\ Started' = Descs
  BY <1>1, <1>2 DEF Started, Descs
<1>9. QueueTypes'
  BY <1>1, <1>2, <1>6 DEF QueueInv, QueueTypes, Pcs
<1>10. Places'
  <2>1. seeded \notin Held /\ seeded \notin Held'
    BY <1>1, <1>2, <1>3, <1>6 DEF Descs
  <2>2. Len(Posted) + Len(Done) + (IF dev.at = "idle" THEN 0 ELSE 1) + 0 = seeded
    BY <1>6, <2>1 DEF QueueInv, Places
  <2>3. Len(Posted) + Len(Done') + (IF dev.at = "idle" THEN 0 ELSE 1) + 1 = seeded
    BY <1>4, <1>5, <2>2
  <2>4. /\ IsInjective(Posted)
        /\ Started = Range(Posted) \cup Range(Done) \cup Taken
        /\ Range(Posted) \cap Range(Done) = {} /\ Range(Posted) \cap Taken = {}
        /\ Range(Done) \cap Taken = {}
    BY <1>6 DEF QueueInv, Places
  <2>5. Started = Range(Posted) \cup Range(Done') \cup Taken \cup Held'
    BY <1>5, <1>6, <2>4
  <2>6. /\ Range(Posted) \cap Range(Done') = {} /\ Range(Posted) \cap Held' = {}
        /\ Range(Done') \cap Taken = {} /\ Range(Done') \cap Held' = {} /\ Taken \cap Held' = {}
    BY <1>5, <1>6, <2>4
  <2> QED BY <1>1, <1>5, <1>6, <1>7, <1>8, <2>1, <2>3, <2>4, <2>5, <2>6 DEF Places
<1>11. Seeding'
  BY <1>1, <1>2, <1>8 DEF QueueInv, Seeding
<1>12. Written' /\ Filled'
  BY <1>1, <1>3, <1>5, <1>7 DEF QueueInv, Written, Filled
<1> QED BY <1>3, <1>9, <1>10, <1>11, <1>12 DEF QueueInv

LEMMA FillKeeps ==
    ASSUME QueueInv, NEW e \in Events, DeviceFill(e)
    PROVE  /\ QueueInv' /\ Posted # << >> /\ dev'.id = Head(Posted)
           /\ bufs' = [bufs EXCEPT ![Head(Posted)] = e]
<1> DEFINE id == Head(Posted)
<1>1. /\ avail_ring \in [Descs -> Descs] /\ dev.last_avail \in Indices /\ avail_idx \in Indices
      /\ dev.at = "idle" /\ dev.last_avail # avail_idx
      /\ Inc(dev.last_avail) \in Indices /\ QUEUE_SIZE \in Nat
  BY IncIs, Sizes DEF QueueInv, QueueTypes, DeviceFill
<1>2. /\ Posted # << >> /\ id = avail_ring[Slot(dev.last_avail)]
      /\ Between(avail_ring, Inc(dev.last_avail), avail_idx) = Tail(Posted)
  BY <1>1, BetweenTail DEF Posted
<1>3. Posted \in Seq(Descs) /\ Len(Posted) \in Nat /\ Len(Done) \in Nat /\ IsInjective(Posted)
  BY QueueFacts DEF QueueInv, Places
<1>4. id \in Range(Posted) /\ id \in Descs /\ id \in Started /\ desc[id] = id
  BY <1>2, <1>3, TakeHead DEF QueueInv, Places, Seeding, Started
<1>5. /\ bufs' = [bufs EXCEPT ![id] = e]
      /\ dev' = [at |-> "elem", id |-> id, last_avail |-> Inc(dev.last_avail)]
      /\ UNCHANGED <<desc, avail_ring, avail_idx, used_seen, pc, seeded, idx, used_ring, used_idx>>
  BY <1>2, <1>4 DEF DeviceFill, driver
<1> HIDE DEF id
<1>6. dev'.at = "elem" /\ dev'.id = id /\ dev'.last_avail = Inc(dev.last_avail)
  BY <1>5
<1>7. Posted' = Tail(Posted) /\ Done' = Done /\ Taken = {} /\ Taken' = {id}
  BY <1>1, <1>2, <1>5, <1>6 DEF Posted, Done, Taken
<1>8. /\ IsInjective(Posted') /\ Len(Posted') = Len(Posted) - 1
      /\ Range(Posted') = Range(Posted) \ {id}
  BY <1>2, <1>3, <1>7, TakeHead DEF id
<1>9. Held' = Held /\ Started' = Started
  BY <1>5 DEF Held, Started
<1>10. QueueTypes'
  BY <1>1, <1>4, <1>5 DEF QueueInv, QueueTypes
<1>11. Places'
  <2>1. /\ IsInjective(Done)
        /\ Started = Range(Posted) \cup Range(Done) \cup Held
        /\ Range(Posted) \cap Range(Done) = {} /\ Range(Posted) \cap Held = {}
        /\ Range(Done) \cap Held = {}
        /\ Len(Posted) + Len(Done) + 0 + (IF Held = {} THEN 0 ELSE 1)
             = IF seeded \in Held THEN seeded + 1 ELSE seeded
    BY <1>1, <1>7 DEF QueueInv, Places
  <2>2. Len(Posted') + Len(Done) + 1 + (IF Held = {} THEN 0 ELSE 1)
          = IF seeded \in Held THEN seeded + 1 ELSE seeded
    BY <1>3, <1>8, <2>1
  <2>3. /\ Started = Range(Posted') \cup Range(Done) \cup Taken' \cup Held
        /\ Range(Posted') \cap Range(Done) = {} /\ Range(Posted') \cap Taken' = {}
        /\ Range(Posted') \cap Held = {} /\ Range(Done) \cap Taken' = {} /\ Taken' \cap Held = {}
    BY <1>4, <1>7, <1>8, <2>1
  <2> QED BY <1>5, <1>6, <1>7, <1>8, <1>9, <2>1, <2>2, <2>3 DEF Places
<1>12. Seeding' /\ Written'
  BY <1>5, <1>6, <1>9 DEF QueueInv, Seeding, Written
<1>13. Filled'
  <2>1. id \notin Range(Done) /\ id \notin Held
    BY <1>4 DEF QueueInv, Places
  <2>2. bufs'[id] = e /\ \A d \in Descs \ {id} : bufs'[d] = bufs[d]
    BY <1>4, <1>5 DEF QueueInv, QueueTypes
  <2>3. Range(Done) \subseteq Descs /\ idx \in Descs
    BY QueueFacts DEF QueueInv, QueueTypes, Range
  <2>4. \A d \in Range(Done) : bufs'[d] \in Events
    BY <2>1, <2>2, <2>3 DEF QueueInv, Filled
  <2>5. pc = "copy" => idx # id /\ bufs[idx] \in Events
    BY <2>1 DEF QueueInv, Filled, Held
  <2> QED BY <1>5, <1>7, <2>2, <2>3, <2>4, <2>5 DEF Filled
<1> QED BY <1>2, <1>5, <1>6, <1>10, <1>11, <1>12, <1>13 DEF QueueInv, id

LEMMA AnswerKeeps == ASSUME QueueInv, DeviceElem PROVE QueueInv' /\ Done' = Done
<1>1. /\ dev.at = "elem" /\ used_ring' = [used_ring EXCEPT ![Slot(used_idx)] = dev.id]
      /\ dev' = [dev EXCEPT !.at = "idx"]
      /\ UNCHANGED <<desc, avail_ring, avail_idx, used_seen, pc, seeded, idx, used_idx, bufs>>
  BY DEF DeviceElem, driver
<1>2. /\ used_idx \in Indices /\ used_idx \in Nat /\ used_seen \in Indices
      /\ dev.id \in Descs /\ Slot(used_idx) \in Descs /\ used_ring \in [Descs -> Descs]
  BY Sizes, SlotIs DEF QueueInv, QueueTypes
<1>3. dev'.at = "idx" /\ dev'.id = dev.id /\ dev'.last_avail = dev.last_avail
  BY <1>1 DEF QueueInv, QueueTypes
<1>4. Done' = Done
  <2>1. Ahead(used_seen, used_idx) < QUEUE_SIZE
    BY <1>1, QueueFacts
  <2>2. \A r \in [Descs -> Descs] : \A a, b \in Indices : \A v \in Descs :
          Ahead(a, b) < QUEUE_SIZE =>
            Between([r EXCEPT ![Slot(b)] = v], a, b) = Between(r, a, b)
    BY BetweenWrite
  <2> QED BY <1>1, <1>2, <2>1, <2>2 DEF Done
<1>5. Posted' = Posted /\ Taken' = Taken /\ Held' = Held /\ Started' = Started
  BY <1>1, <1>3 DEF Posted, Taken, Held, Started
<1>6. QueueTypes'
  BY <1>1, <1>2 DEF QueueInv, QueueTypes
<1>7. Places'
  BY <1>1, <1>3, <1>4, <1>5 DEF QueueInv, Places
<1>8. Seeding' /\ Filled'
  BY <1>1, <1>4, <1>5 DEF QueueInv, Seeding, Filled
<1>9. Written'
  BY <1>1, <1>2, <1>3 DEF QueueInv, Written
<1> QED BY <1>4, <1>6, <1>7, <1>8, <1>9 DEF QueueInv

LEMMA AnnounceKeeps ==
    ASSUME QueueInv, DeviceIdx
    PROVE  QueueInv' /\ Done' = Append(Done, dev.id)
<1>1. /\ dev.at = "idx" /\ used_idx' = Inc(used_idx) /\ dev' = [dev EXCEPT !.at = "idle"]
      /\ UNCHANGED <<desc, avail_ring, avail_idx, used_ring, used_seen, pc, seeded, idx, bufs>>
  BY DEF DeviceIdx, driver
<1>2. /\ used_idx \in Indices /\ used_seen \in Indices /\ Inc(used_idx) \in Indices
      /\ dev.id \in Descs /\ used_ring \in [Descs -> Descs] /\ used_ring[Slot(used_idx)] = dev.id
  BY <1>1, IncIs DEF QueueInv, QueueTypes, Written
<1>3. dev'.at = "idle" /\ dev'.id = dev.id /\ dev'.last_avail = dev.last_avail
  BY <1>1 DEF QueueInv, QueueTypes
<1>4. Done' = Append(Done, dev.id)
  <2>1. Ahead(used_seen, used_idx) < QUEUE_SIZE
    BY <1>1, QueueFacts
  <2> QED BY <1>1, <1>2, <2>1, BetweenAppend DEF Done
<1>5. Posted' = Posted /\ Taken = {dev.id} /\ Taken' = {} /\ Held' = Held /\ Started' = Started
  BY <1>1, <1>3 DEF Posted, Taken, Held, Started
<1>6. Done \in Seq(Descs) /\ Len(Done) \in Nat /\ Len(Posted) \in Nat /\ IsInjective(Done)
      /\ dev.id \notin Range(Done)
  BY <1>5, QueueFacts DEF QueueInv, Places
<1>7. /\ IsInjective(Done') /\ Len(Done') = Len(Done) + 1 /\ Range(Done') = Range(Done) \cup {dev.id}
  BY <1>2, <1>4, <1>6, PutLast
<1>8. QueueTypes'
  BY <1>1, <1>2 DEF QueueInv, QueueTypes
<1>9. Places'
  <2>1. /\ IsInjective(Posted)
        /\ Started = Range(Posted) \cup Range(Done) \cup Taken \cup Held
        /\ Range(Posted) \cap Range(Done) = {} /\ Range(Posted) \cap Taken = {}
        /\ Range(Posted) \cap Held = {} /\ Range(Done) \cap Held = {} /\ Taken \cap Held = {}
        /\ Len(Posted) + Len(Done) + 1 + (IF Held = {} THEN 0 ELSE 1)
             = IF seeded \in Held THEN seeded + 1 ELSE seeded
    BY <1>1 DEF QueueInv, Places
  <2>2. Len(Posted) + Len(Done') + 0 + (IF Held = {} THEN 0 ELSE 1)
          = IF seeded \in Held THEN seeded + 1 ELSE seeded
    BY <1>6, <1>7, <2>1
  <2>3. /\ Started = Range(Posted) \cup Range(Done') \cup Held
        /\ Range(Posted) \cap Range(Done') = {} /\ Range(Done') \cap Held = {}
    BY <1>5, <1>7, <2>1
  <2> QED BY <1>1, <1>3, <1>5, <1>7, <2>1, <2>2, <2>3 DEF Places
<1>10. Seeding'
  BY <1>1, <1>5 DEF QueueInv, Seeding
<1>11. Filled'
  BY <1>1, <1>5, <1>7 DEF QueueInv, Filled
<1>12. Written'
  <2>1. pc = "elem" => used_idx' # used_seen
    <3>1. U16 \in Nat /\ QUEUE_SIZE \in Nat
      BY Sizes
    <3>2. Len(Done') = Ahead(used_seen, used_idx')
      <4>1. used_idx' \in Indices
        BY <1>1, <1>2
      <4> QED BY <1>1, <1>2, <4>1, BetweenSeq DEF Done
    <3>3. Ahead(used_seen, used_seen) = 0
      BY <1>2, AheadIs, Sizes
    <3> QED BY <1>6, <1>7, <3>2, <3>3
  <2> QED BY <1>1, <1>3, <2>1 DEF QueueInv, Written
<1> QED BY <1>4, <1>8, <1>9, <1>10, <1>11, <1>12 DEF QueueInv

-----------------------------------------------------------------------------
(* The steps of the idle loop and the device, as the queue sees them.      *)

LEMMA StepKinds ==
    ASSUME InputNext
    PROVE  \/ SeedDesc \/ PublishRing \/ PublishIdx \/ PollTest \/ PollElem \/ Copy
           \/ DeviceElem \/ DeviceIdx \/ (\E e \in Events : DeviceFill(e))
           \/ UNCHANGED vars
<1>1. CASE IdleLoop
  <2>1. CASE PollEvent
    BY <2>1 DEF PollEvent
  <2>2. CASE Recycle
    BY <2>2 DEF Recycle
  <2>3. CASE Handle
    BY <2>3 DEF Handle, vars
  <2>4. CASE virtio_keyboard_getchar
    BY <2>4 DEF virtio_keyboard_getchar
  <2>5. CASE virtio_mouse_get_state
    BY <2>5 DEF virtio_mouse_get_state
  <2> QED BY <1>1, <2>1, <2>2, <2>3, <2>4, <2>5 DEF IdleLoop
<1>2. CASE Announce
  BY <1>2 DEF Announce
<1>3. ASSUME NEW e \in KeyEvents \cup MouseEvents, Happens(e)
      PROVE  \E f \in Events : DeviceFill(f)
  BY <1>3, VirtioInputAssumption DEF Happens
<1> QED BY <1>1, <1>2, <1>3 DEF InputNext

LEMMA StutterKeeps ==
    ASSUME QueueInv, UNCHANGED vars
    PROVE  QueueInv' /\ Posted' = Posted /\ Done' = Done
<1>1. UNCHANGED <<desc, avail_ring, avail_idx, used_seen, pc, seeded, idx, out, used_ring, used_idx,
                  dev, bufs>>
  BY DEF vars, driver, device
<1>2. Posted' = Posted /\ Done' = Done /\ Taken' = Taken /\ Held' = Held /\ Started' = Started
  BY <1>1 DEF Posted, Done, Taken, Held, Started
<1>3. QueueTypes'
  BY <1>1 DEF QueueInv, QueueTypes
<1>4. Places'
  BY <1>1, <1>2 DEF QueueInv, Places
<1>5. Seeding' /\ Written' /\ Filled'
  BY <1>1, <1>2 DEF QueueInv, Seeding, Written, Filled
<1> QED BY <1>2, <1>3, <1>4, <1>5 DEF QueueInv

LEMMA QueuePreserved == QueueInv /\ [InputNext]_<<vars, input>> => QueueInv'
<1> SUFFICES ASSUME QueueInv, [InputNext]_<<vars, input>> PROVE QueueInv'
  OBVIOUS
<1>1. CASE UNCHANGED <<vars, input>>
  <2>1. UNCHANGED vars
    BY <1>1
  <2> QED BY <2>1, StutterKeeps
<1>2. CASE InputNext
  BY <1>2, StepKinds, SeedKeeps, PublishKeeps, AdvanceKeeps, PollKeeps, ElemKeeps, AnswerKeeps,
     AnnounceKeeps, FillKeeps, StutterKeeps
<1> QED BY <1>1, <1>2

LEMMA QueueAlways == InputSpec => []QueueInv
<1>1. InputInit => QueueInv
  BY QueueInit DEF InputInit
<1> QED BY <1>1, QueuePreserved, PTL DEF InputSpec

-----------------------------------------------------------------------------
(* Who owns a buffer.                                                      *)

LEMMA InjectiveCount ==
    ASSUME NEW s \in Seq(Descs), IsInjective(s)
    PROVE  Cardinality(Range(s)) = Len(s)
<1>1. Len(s) \in Nat /\ s \in [1 .. Len(s) -> Descs] /\ DOMAIN s = 1 .. Len(s)
  OBVIOUS
<1>2. s \in [1 .. Len(s) -> Range(s)]
  BY <1>1 DEF Range
<1>3. s \in Injection(1 .. Len(s), Range(s))
  BY <1>1, <1>2 DEF Injection, IsInjective
<1>4. s \in Surjection(1 .. Len(s), Range(s))
  BY <1>1, <1>2 DEF Surjection, Range
<1>5. ExistsBijection(1 .. Len(s), Range(s))
  BY <1>3, <1>4 DEF ExistsBijection, Bijection
<1>6. IsFiniteSet(1 .. Len(s)) /\ Cardinality(1 .. Len(s)) = Len(s)
  BY <1>1, FS_Interval
<1> QED BY <1>5, <1>6, FS_Bijection

HomesOf(d, A, B, C, D) ==
    Cardinality({S \in {<<1, A>>, <<2, B>>, <<3, C>>, <<4, D>>} : d \in S[2]})

\* A value that lies in one of four disjoint sets lies in one of them, once.
LEMMA OneOfFour ==
    ASSUME NEW A, NEW B, NEW C, NEW D, NEW d,
           A \cap B = {}, A \cap C = {}, A \cap D = {}, B \cap C = {}, B \cap D = {}, C \cap D = {}
    PROVE  HomesOf(d, A, B, C, D) = IF d \in A \cup B \cup C \cup D THEN 1 ELSE 0
<1> DEFINE P == {S \in {<<1, A>>, <<2, B>>, <<3, C>>, <<4, D>>} : d \in S[2]}
<1>1. ASSUME d \notin A \cup B \cup C \cup D PROVE Cardinality(P) = 0
  <2>1. P = {}
    BY <1>1
  <2> QED BY <2>1, FS_EmptySet
<1>2. ASSUME d \in A PROVE Cardinality(P) = 1
  <2>1. P = {<<1, A>>}
    BY <1>2
  <2> QED BY <2>1, FS_Singleton
<1>3. ASSUME d \in B PROVE Cardinality(P) = 1
  <2>1. P = {<<2, B>>}
    BY <1>3
  <2> QED BY <2>1, FS_Singleton
<1>4. ASSUME d \in C PROVE Cardinality(P) = 1
  <2>1. P = {<<3, C>>}
    BY <1>4
  <2> QED BY <2>1, FS_Singleton
<1>5. ASSUME d \in D PROVE Cardinality(P) = 1
  <2>1. P = {<<4, D>>}
    BY <1>5
  <2> QED BY <2>1, FS_Singleton
<1>6. HomesOf(d, A, B, C, D) = Cardinality(P)
  BY DEF HomesOf
<1> HIDE DEF P
<1> QED BY <1>1, <1>2, <1>3, <1>4, <1>5, <1>6

LEMMA QueueIsOwned == ASSUME QueueInv PROVE BuffersOwned
<1> DEFINE posted == EntriesOf(avail_ring, dev.last_avail, avail_idx)
           done   == EntriesOf(used_ring, used_seen, used_idx)
<1>1. /\ avail_ring \in [Descs -> Descs] /\ used_ring \in [Descs -> Descs]
      /\ avail_idx \in Indices /\ used_idx \in Indices /\ used_seen \in Indices
      /\ dev.last_avail \in Indices
  BY QueueFacts DEF QueueInv, QueueTypes
<1>2. \A r \in [Descs -> Descs] : \A a, b \in Indices : Range(Between(r, a, b)) = EntriesOf(r, a, b)
  BY BetweenSeq
<1>3. posted = Range(Posted) /\ done = Range(Done)
  BY <1>1, <1>2 DEF Posted, Done
<1> HIDE DEF posted, done
<1>4. /\ Cardinality(Range(Posted)) = Ahead(dev.last_avail, avail_idx)
      /\ Cardinality(Range(Done)) = Ahead(used_seen, used_idx)
  BY QueueFacts, InjectiveCount DEF QueueInv, Places
<1>5. ASSUME NEW d \in Descs
      PROVE  HomesOf(d, posted, done, Taken, Held) = IF d < seeded \/ d \in Held THEN 1 ELSE 0
  <2>1. /\ posted \cap done = {} /\ posted \cap Taken = {} /\ posted \cap Held = {}
        /\ done \cap Taken = {} /\ done \cap Held = {} /\ Taken \cap Held = {}
    BY <1>3 DEF QueueInv, Places
  <2>2. d \in posted \cup done \cup Taken \cup Held <=> d < seeded \/ d \in Held
    <3>1. d \in Started <=> d < seeded \/ d \in Held
      BY DEF Started
    <3> QED BY <1>3, <3>1 DEF QueueInv, Places
  <2>3. HomesOf(d, posted, done, Taken, Held)
          = IF d \in posted \cup done \cup Taken \cup Held THEN 1 ELSE 0
    BY <2>1, OneOfFour
  <2> QED BY <2>2, <2>3
<1> QED BY <1>3, <1>4, <1>5 DEF BuffersOwned, HomesOf, posted, done, Taken

\* A descriptor that was posted is in exactly one place, once (BuffersOwned):
\* virtio.c and virtio_input.c neither lose a buffer nor post one that is still
\* in use, for every size of the queue and across the wrap of the indices.
THEOREM BuffersSafe == InputSpec => []BuffersOwned
<1>1. QueueInv => BuffersOwned
  BY QueueIsOwned
<1> QED BY <1>1, QueueAlways, PTL

-----------------------------------------------------------------------------
(* The queue of announced events, and what each step does to it.           *)

\* The events that buffers hold, in the order of their descriptors.
Contents(b, ids) == [k \in 1 .. Len(ids) |-> b[ids[k]]]

LEMMA ContentsSeq ==
    ASSUME NEW E, NEW b \in [Descs -> E], NEW s \in Seq(Descs)
    PROVE  /\ Contents(b, s) \in Seq(E) /\ Len(Contents(b, s)) = Len(s)
           /\ \A k \in 1 .. Len(s) : Contents(b, s)[k] = b[s[k]]
<1>1. Len(s) \in Nat /\ \A k \in 1 .. Len(s) : s[k] \in Descs
  OBVIOUS
<1>2. PICK n \in Nat : n = Len(s)
  BY <1>1
<1>3. PICK c : c = [k \in 1 .. n |-> b[s[k]]]
  OBVIOUS
<1>4. c \in [1 .. n -> E]
  BY <1>1, <1>2, <1>3
<1>5. c \in Seq(E) /\ Len(c) = n /\ \A k \in 1 .. n : c[k] = b[s[k]]
  BY <1>3, <1>4
<1> QED BY <1>2, <1>3, <1>5 DEF Contents

LEMMA ContentsAppend ==
    ASSUME NEW E, NEW b \in [Descs -> E], NEW s \in Seq(Descs), NEW d \in Descs
    PROVE  Contents(b, Append(s, d)) = Append(Contents(b, s), b[d])
<1>0. Len(s) \in Nat
  OBVIOUS
<1>1. PICK n \in Nat : n = Len(s)
  BY <1>0
<1>2. PICK t \in Seq(Descs) : t = Append(s, d)
  <2>1. Append(s, d) \in Seq(Descs)
    OBVIOUS
  <2> QED BY <2>1
<1>3. Len(t) = n + 1 /\ t[n + 1] = d /\ \A k \in 1 .. n : t[k] = s[k]
  BY <1>1, <1>2
<1>4. PICK c \in Seq(E) : c = Contents(b, s) /\ Len(c) = n /\ \A k \in 1 .. n : c[k] = b[s[k]]
  <2>1. Contents(b, s) \in Seq(E) /\ Len(Contents(b, s)) = Len(s)
        /\ \A k \in 1 .. Len(s) : Contents(b, s)[k] = b[s[k]]
    BY ContentsSeq
  <2> QED BY <1>1, <2>1
<1>5. PICK u \in Seq(E) :
        u = Contents(b, t) /\ Len(u) = n + 1 /\ \A k \in 1 .. n + 1 : u[k] = b[t[k]]
  <2>1. Contents(b, t) \in Seq(E) /\ Len(Contents(b, t)) = Len(t)
        /\ \A k \in 1 .. Len(t) : Contents(b, t)[k] = b[t[k]]
    BY ContentsSeq
  <2> QED BY <1>3, <2>1
<1>6. b[d] \in E /\ Append(c, b[d]) \in Seq(E) /\ Len(Append(c, b[d])) = n + 1
  BY <1>4
<1>7. ASSUME NEW k \in 1 .. n + 1 PROVE u[k] = Append(c, b[d])[k]
  <2>1. CASE k = n + 1
    BY <1>1, <1>3, <1>4, <1>5, <1>6, <2>1
  <2>2. CASE k # n + 1
    <3>1. k \in 1 .. n
      BY <2>2
    <3>2. Append(c, b[d])[k] = c[k]
      BY <1>4, <1>6, <3>1
    <3> QED BY <1>3, <1>4, <1>5, <3>1, <3>2
  <2> QED BY <2>1, <2>2
<1>8. u = Append(c, b[d])
  BY <1>5, <1>6, <1>7, SeqEqual
<1> QED BY <1>2, <1>4, <1>5, <1>8

LEMMA ContentsTail ==
    ASSUME NEW E, NEW b \in [Descs -> E], NEW s \in Seq(Descs), NEW d \in Descs
    PROVE  /\ Contents(b, <<d>> \o s) # << >> /\ Head(Contents(b, <<d>> \o s)) = b[d]
           /\ Tail(Contents(b, <<d>> \o s)) = Contents(b, s)
<1>0. Len(s) \in Nat
  OBVIOUS
<1>1. PICK n \in Nat : n = Len(s)
  BY <1>0
<1>2. PICK t \in Seq(Descs) : t = <<d>> \o s
  <2>1. <<d>> \o s \in Seq(Descs)
    OBVIOUS
  <2> QED BY <2>1
<1>3. Len(t) = n + 1 /\ t[1] = d /\ \A k \in 1 .. n : t[k + 1] = s[k]
  BY <1>1, <1>2
<1>4. PICK c \in Seq(E) : c = Contents(b, s) /\ Len(c) = n /\ \A k \in 1 .. n : c[k] = b[s[k]]
  <2>1. Contents(b, s) \in Seq(E) /\ Len(Contents(b, s)) = Len(s)
        /\ \A k \in 1 .. Len(s) : Contents(b, s)[k] = b[s[k]]
    BY ContentsSeq
  <2> QED BY <1>1, <2>1
<1>5. PICK u \in Seq(E) :
        u = Contents(b, t) /\ Len(u) = n + 1 /\ \A k \in 1 .. n + 1 : u[k] = b[t[k]]
  <2>1. Contents(b, t) \in Seq(E) /\ Len(Contents(b, t)) = Len(t)
        /\ \A k \in 1 .. Len(t) : Contents(b, t)[k] = b[t[k]]
    BY ContentsSeq
  <2> QED BY <1>3, <2>1
<1>6. u # << >> /\ Head(u) = b[d]
  <2>1. 1 \in 1 .. n + 1 /\ u[1] = b[d]
    BY <1>3, <1>5
  <2> QED BY <1>5, <2>1
<1>7. Tail(u) \in Seq(E) /\ Len(Tail(u)) = n /\ \A k \in 1 .. n : Tail(u)[k] = u[k + 1]
  BY <1>5, <1>6
<1>8. ASSUME NEW k \in 1 .. n PROVE Tail(u)[k] = c[k]
  <2>1. k + 1 \in 1 .. n + 1
    OBVIOUS
  <2> QED BY <1>3, <1>4, <1>5, <1>7, <2>1
<1>9. Tail(u) = c
  BY <1>4, <1>7, <1>8, SeqEqual
<1> QED BY <1>2, <1>4, <1>5, <1>6, <1>9

\* The descriptors of Queue.
Ids == IF pc = "copy" THEN <<idx>> \o Done ELSE Done

LEMMA QueueIs == Queue = Contents(bufs, Ids)
  BY DEF Queue, Contents, Ids, Done

LEMMA QueueTyped ==
    ASSUME QueueInv
    PROVE  /\ Ids \in Seq(Descs) /\ bufs \in [Descs -> Events \cup {NoEvent}]
           /\ Done \in Seq(Descs) /\ idx \in Descs
           /\ Queue \in Seq(Events \cup {NoEvent}) /\ Len(Queue) = Len(Ids)
<1>1. Ids \in Seq(Descs) /\ Done \in Seq(Descs) /\ idx \in Descs
  BY QueueFacts DEF Ids, QueueInv, QueueTypes
<1>2. bufs \in [Descs -> Events \cup {NoEvent}]
  BY DEF QueueInv, QueueTypes
<1> QED BY <1>1, <1>2, QueueIs, ContentsSeq

LEMMA QueueSame ==
    ASSUME QueueInv, \/ SeedDesc \/ PublishRing \/ PublishIdx \/ PollTest \/ DeviceElem
                     \/ UNCHANGED vars
    PROVE  UNCHANGED <<Queue, out>>
<1>1. UNCHANGED <<bufs, out>> /\ (pc' = "copy" <=> pc = "copy") /\ (pc = "copy" => idx' = idx)
  BY DEF SeedDesc, PublishRing, PublishIdx, PollTest, DeviceElem, vars, driver
<1>2. Done' = Done
  <2>1. CASE DeviceElem
    BY <2>1, AnswerKeeps
  <2>2. CASE ~DeviceElem
    BY <2>2 DEF SeedDesc, PublishRing, PublishIdx, PollTest, vars, driver, device, Done
  <2> QED BY <2>1, <2>2
<1>3. Ids' = Ids
  BY <1>1, <1>2 DEF Ids
<1>4. Queue' = Contents(bufs', Ids')
  BY DEF Queue, Contents, Ids, Done
<1> QED BY <1>1, <1>3, <1>4, QueueIs

LEMMA FillSame ==
    ASSUME QueueInv, NEW e \in Events, DeviceFill(e)
    PROVE  UNCHANGED <<Queue, out>>
<1>1. PICK id \in Descs : id \in Range(Posted) /\ bufs' = [bufs EXCEPT ![id] = e]
  <2>1. Posted # << >> /\ bufs' = [bufs EXCEPT ![Head(Posted)] = e]
    BY FillKeeps
  <2>2. Posted \in Seq(Descs) /\ IsInjective(Posted)
    BY QueueFacts DEF QueueInv, Places
  <2>3. Head(Posted) \in Range(Posted) /\ Head(Posted) \in Descs
    BY <2>1, <2>2, TakeHead
  <2> QED BY <2>1, <2>3
<1>2. UNCHANGED <<out, pc, idx, used_ring, used_seen, used_idx>>
  BY DEF DeviceFill, driver
<1>3. Ids' = Ids
  BY <1>2 DEF Ids, Done
<1>4. ASSUME NEW k \in 1 .. Len(Ids) PROVE bufs'[Ids[k]] = bufs[Ids[k]]
  <2>1. id \notin Range(Done) /\ id \notin Held
    BY <1>1 DEF QueueInv, Places
  <2>2. Ids[k] \in Descs /\ (Ids[k] \in Range(Done) \/ (pc = "copy" /\ Ids[k] = idx))
    <3>1. CASE pc = "copy"
      <4>1. Ids = <<idx>> \o Done /\ Done \in Seq(Descs) /\ idx \in Descs
        BY <3>1, QueueTyped DEF Ids
      <4>2. Len(Ids) = 1 + Len(Done) /\ Len(Done) \in Nat /\ Ids[1] = idx
            /\ \A j \in 1 .. Len(Done) : Ids[j + 1] = Done[j]
        BY <4>1
      <4>3. CASE k = 1
        BY <3>1, <4>1, <4>2, <4>3
      <4>4. CASE k # 1
        <5>1. k - 1 \in 1 .. Len(Done) /\ (k - 1) + 1 = k
          BY <4>2, <4>4
        <5>2. Ids[k] = Done[k - 1]
          BY <4>2, <5>1
        <5>3. Done[k - 1] \in Descs /\ DOMAIN Done = 1 .. Len(Done)
          BY <4>1, <5>1
        <5> QED BY <5>1, <5>2, <5>3 DEF Range
      <4> QED BY <4>3, <4>4
    <3>2. CASE pc # "copy"
      <4>1. Ids = Done /\ Done \in Seq(Descs)
        BY <3>2, QueueTyped DEF Ids
      <4>2. Done[k] \in Descs /\ k \in DOMAIN Done
        BY <4>1
      <4> QED BY <4>1, <4>2 DEF Range
    <3> QED BY <3>1, <3>2
  <2>3. Ids[k] # id
    BY <2>1, <2>2 DEF Held
  <2>4. bufs \in [Descs -> Events \cup {NoEvent}]
    BY QueueTyped
  <2> QED BY <1>1, <2>2, <2>3, <2>4
<1>5. Contents(bufs', Ids) = Contents(bufs, Ids)
  BY <1>4 DEF Contents
<1>6. Queue' = Contents(bufs', Ids')
  BY DEF Queue, Contents, Ids, Done
<1> QED BY <1>2, <1>3, <1>5, <1>6, QueueIs

\* virtio_poll_used takes the descriptor; the event is still to be copied out.
LEMMA ElemSame == ASSUME QueueInv, PollElem PROVE UNCHANGED <<Queue, out>>
<1>1. pc = "elem" /\ pc' = "copy" /\ UNCHANGED <<bufs, out>>
  BY DEF PollElem
<1>2. Done # << >> /\ idx' = Head(Done) /\ Done' = Tail(Done) /\ Done \in Seq(Descs)
  BY ElemKeeps, QueueTyped
<1>3. PICK d \in Seq(Descs) : d = Done
  BY <1>2
<1>4. <<Head(d)>> \o Tail(d) = d
  <2>1. d # << >>
    BY <1>2, <1>3
  <2> QED BY <2>1
<1>5. Ids = d /\ Ids' = <<Head(d)>> \o Tail(d)
  BY <1>1, <1>2, <1>3 DEF Ids
<1>6. Queue' = Contents(bufs', Ids')
  BY DEF Queue, Contents, Ids, Done
<1> QED BY <1>1, <1>4, <1>5, <1>6, QueueIs

LEMMA CopyGets ==
    ASSUME QueueInv, Copy
    PROVE  Queue # << >> /\ out' = Head(Queue) /\ Queue' = Tail(Queue)
<1>1. pc = "copy" /\ pc' = "publish_ring" /\ out' = bufs[idx]
      /\ UNCHANGED <<bufs, used_ring, used_seen, used_idx>>
  BY DEF Copy, device
<1>2. Ids = <<idx>> \o Done /\ Ids' = Done
  BY <1>1 DEF Ids, Done
<1>3. Done \in Seq(Descs) /\ idx \in Descs /\ bufs \in [Descs -> Events \cup {NoEvent}]
  BY QueueTyped
<1>4. Queue' = Contents(bufs', Ids')
  BY DEF Queue, Contents, Ids, Done
<1>5. /\ Contents(bufs, <<idx>> \o Done) # << >> /\ Head(Contents(bufs, <<idx>> \o Done)) = bufs[idx]
      /\ Tail(Contents(bufs, <<idx>> \o Done)) = Contents(bufs, Done)
  BY <1>3, ContentsTail
<1> QED BY <1>1, <1>2, <1>4, <1>5, QueueIs

LEMMA AnnouncePuts ==
    ASSUME QueueInv, DeviceIdx
    PROVE  /\ Len(Queue) < QUEUE_SIZE /\ bufs[dev.id] \in Events
           /\ Queue' = Append(Queue, bufs[dev.id]) /\ UNCHANGED <<out, bufs>>
<1>1. dev.at = "idx" /\ UNCHANGED <<bufs, out, pc, idx>>
  BY DEF DeviceIdx, driver
<1>2. Done' = Append(Done, dev.id) /\ Done \in Seq(Descs) /\ dev.id \in Descs /\ idx \in Descs
  BY AnnounceKeeps, QueueFacts, QueueTyped
<1>3. Ids' = Append(Ids, dev.id)
  <2>1. CASE pc = "copy"
    <3>1. PICK d \in Seq(Descs), i \in Descs, x \in Descs : d = Done /\ i = idx /\ x = dev.id
      BY <1>2
    <3>2. <<i>> \o Append(d, x) = Append(<<i>> \o d, x)
      OBVIOUS
    <3> QED BY <1>1, <1>2, <2>1, <3>1, <3>2 DEF Ids
  <2>2. CASE pc # "copy"
    BY <1>1, <1>2, <2>2 DEF Ids
  <2> QED BY <2>1, <2>2
<1>4. Queue' = Append(Queue, bufs[dev.id])
  <2>1. Queue' = Contents(bufs', Ids')
    BY DEF Queue, Contents, Ids, Done
  <2>2. Contents(bufs, Append(Ids, dev.id)) = Append(Contents(bufs, Ids), bufs[dev.id])
    BY <1>2, QueueTyped, ContentsAppend
  <2> QED BY <1>1, <1>3, <2>1, <2>2, QueueIs
<1>5. bufs[dev.id] \in Events
  BY <1>1 DEF QueueInv, Filled, Taken
<1>6. Len(Queue) < QUEUE_SIZE
  <2>1. /\ Len(Posted) \in Nat /\ Len(Done) \in Nat /\ seeded \in Nat /\ QUEUE_SIZE \in Nat
        /\ Held \subseteq Descs /\ seeded <= QUEUE_SIZE
    BY QueueFacts DEF QueueInv, QueueTypes
  <2>2. Len(Posted) + Len(Done) + 1 + (IF Held = {} THEN 0 ELSE 1)
          = IF seeded \in Held THEN seeded + 1 ELSE seeded
    BY <1>1 DEF QueueInv, Places
  <2>3. (IF seeded \in Held THEN seeded + 1 ELSE seeded) <= QUEUE_SIZE
    BY <2>1 DEF Descs
  <2>4. Len(Ids) = Len(Done) + IF pc = "copy" THEN 1 ELSE 0
    BY <1>2 DEF Ids
  <2>5. pc = "copy" => Held # {}
    BY DEF Held
  <2> QED BY <2>1, <2>2, <2>3, <2>4, <2>5, QueueTyped
<1> QED BY <1>1, <1>4, <1>5, <1>6

\* The event queue is the bounded queue of Fifo (ImplementsFifo): the rings,
\* their indices and the recycled buffers of virtio.c and virtio_input.c hand
\* over every announced event once, unchanged and in order, and no event finds
\* the queue full.
THEOREM QueueIsFifo == InputSpec => ImplementsFifo
<1>1. InputInit => F!FifoInit
  <2> SUFFICES ASSUME Init PROVE F!FifoInit
    BY DEF InputInit
  <2>1. out \notin Events
    BY VirtqueueAssumption DEF Init
  <2>2. Queue = << >>
    <3>1. 0 \in Indices
      BY Sizes DEF Indices
    <3>2. QueueInv /\ Ahead(0, 0) = 0
      BY <3>1, QueueInit, AheadIs, Sizes
    <3>3. Len(Done) = 0 /\ Ids = Done
      BY <3>2, QueueFacts DEF Init, Ids
    <3>4. Queue \in Seq(Events \cup {NoEvent}) /\ Len(Queue) = 0
      BY <3>2, <3>3, QueueTyped
    <3> QED BY <3>4, EmptySeq
  <2> QED BY <2>1, <2>2 DEF F!FifoInit
<1>2. QueueInv /\ [InputNext]_<<vars, input>> => [F!FifoNext]_(F!fifo)
  <2> SUFFICES ASSUME QueueInv, [InputNext]_<<vars, input>> PROVE [F!FifoNext]_(F!fifo)
    OBVIOUS
  <2>1. ASSUME UNCHANGED <<Queue, out>> PROVE UNCHANGED F!fifo
    BY <2>1 DEF F!fifo
  <2>2. CASE Copy
    BY <2>2, CopyGets DEF F!FifoNext, F!Get
  <2>3. CASE DeviceIdx
    BY <2>3, AnnouncePuts DEF F!FifoNext, F!Put
  <2>4. CASE PollElem
    BY <2>1, <2>4, ElemSame
  <2>5. CASE \E e \in Events : DeviceFill(e)
    BY <2>1, <2>5, FillSame
  <2>6. CASE \/ SeedDesc \/ PublishRing \/ PublishIdx \/ PollTest \/ DeviceElem
             \/ UNCHANGED vars
    BY <2>1, <2>6, QueueSame
  <2>7. UNCHANGED <<vars, input>> => UNCHANGED vars
    OBVIOUS
  <2> QED BY <2>2, <2>3, <2>4, <2>5, <2>6, <2>7, StepKinds
<1> QED BY <1>1, <1>2, QueueAlways, PTL DEF InputSpec, ImplementsFifo, F!FifoSafety

-----------------------------------------------------------------------------
(* The mouse's state.                                                      *)

\* A state that differs from the one handed out is marked as new.
Reported == mouse_dirty \in BOOLEAN /\ (~mouse_dirty => seen = State)

\* When virtio_mouse_get_state answers false the caller has the latest state
\* (FalseMeansNothingNew): no event is handled without setting mouse_dirty.
THEOREM MouseSafe == InputSpec => []FalseMeansNothingNew
<1>1. InputInit => Reported
  BY DEF InputInit, Reported
<1>2. Reported /\ [InputNext]_<<vars, input>> => Reported'
  <2> SUFFICES ASSUME Reported, [InputNext]_<<vars, input>> PROVE Reported'
    OBVIOUS
  <2>1. ASSUME UNCHANGED mouse PROVE Reported'
    BY <2>1 DEF mouse, Reported, State
  <2>2. CASE IdleLoop
    <3>1. CASE PollEvent \/ Recycle \/ virtio_keyboard_getchar
      BY <2>1, <3>1 DEF PollEvent, Recycle, virtio_keyboard_getchar, input
    <3>2. CASE Handle
      <4>1. CASE UNCHANGED mouse
        BY <2>1, <4>1
      <4>2. ASSUME handle_mouse_event(out) PROVE Reported'
        BY <4>2 DEF handle_mouse_event, Move, Press, Reported, State
      <4> QED BY <3>2, <4>1, <4>2 DEF Handle
    <3>3. CASE virtio_mouse_get_state
      BY <3>3 DEF virtio_mouse_get_state, Reported, State
    <3> QED BY <2>2, <3>1, <3>2, <3>3 DEF IdleLoop
  <2>3. CASE Announce
    BY <2>1, <2>3 DEF Announce, input
  <2>4. ASSUME NEW e, Happens(e) PROVE Reported'
    BY <2>1, <2>4 DEF Happens
  <2>5. CASE UNCHANGED <<vars, input>>
    BY <2>1, <2>5 DEF input
  <2> QED BY <2>2, <2>3, <2>4, <2>5 DEF InputNext
<1>3. Reported => FalseMeansNothingNew
  BY DEF Reported, FalseMeansNothingNew
<1> QED BY <1>1, <1>2, <1>3, PTL DEF InputSpec

-----------------------------------------------------------------------------
(* The key buffer as a sequence.                                           *)

Chars == {0} \cup {plain[c] : c \in DOMAIN plain} \cup {shifted[c] : c \in DOMAIN plain}
Slots == 0 .. KB_BUF_SIZE - 1

Wrap(x) == IF x < KB_BUF_SIZE THEN x ELSE x - KB_BUF_SIZE

\* What lies in the key buffer b between the tail t and the head h.
KeyCount(t, h) == (h - t + KB_BUF_SIZE) % KB_BUF_SIZE
Keys(b, t, h)  == [k \in 1 .. KeyCount(t, h) |-> b[(t + k - 1) % KB_BUF_SIZE]]

LEMMA WrapIs ==
    ASSUME NEW x \in Nat, x < 2 * KB_BUF_SIZE
    PROVE  x % KB_BUF_SIZE = Wrap(x) /\ x % KB_BUF_SIZE \in Slots
<1>1. KB_BUF_SIZE \in Nat \ {0}
  BY VirtioInputAssumption
<1>2. \A d \in Nat \ {0} : \A y \in Nat : (y < d => y % d = y)
                                     /\ (d <= y /\ y < 2 * d => y % d = y - d)
  BY ModIs
<1>3. x < KB_BUF_SIZE => x % KB_BUF_SIZE = x
  BY <1>1, <1>2
<1>4. KB_BUF_SIZE <= x => x % KB_BUF_SIZE = x - KB_BUF_SIZE
  BY <1>1, <1>2
<1> QED BY <1>1, <1>3, <1>4 DEF Slots, Wrap

LEMMA KeysSeq ==
    ASSUME NEW b \in [Slots -> Chars], NEW t \in Slots, NEW h \in Slots
    PROVE  /\ Keys(b, t, h) \in Seq(Chars) /\ Len(Keys(b, t, h)) = KeyCount(t, h)
           /\ KeyCount(t, h) = IF t <= h THEN h - t ELSE h - t + KB_BUF_SIZE
           /\ KeyCount(t, h) \in Slots
           /\ \A k \in 1 .. KeyCount(t, h) :
                Keys(b, t, h)[k] = b[Wrap(t + k - 1)]
<1>1. KB_BUF_SIZE \in Nat /\ KB_BUF_SIZE > 1 /\ t \in Nat /\ h \in Nat /\ t < KB_BUF_SIZE
      /\ h < KB_BUF_SIZE
  BY VirtioInputAssumption DEF Slots
<1>2. PICK n \in Slots : n = KeyCount(t, h) /\ n = IF t <= h THEN h - t ELSE h - t + KB_BUF_SIZE
  <2>1. PICK x \in Nat : x = h - t + KB_BUF_SIZE /\ x < 2 * KB_BUF_SIZE
    BY <1>1
  <2>2. x % KB_BUF_SIZE = Wrap(x) /\ x % KB_BUF_SIZE \in Slots
    BY <2>1, WrapIs
  <2>3. x % KB_BUF_SIZE = KeyCount(t, h)
    BY <2>1 DEF KeyCount
  <2> QED BY <1>1, <2>1, <2>2, <2>3 DEF Wrap
<1>3. n \in Nat /\ n < KB_BUF_SIZE
  BY <1>1 DEF Slots
<1>4. ASSUME NEW k \in 1 .. n
      PROVE  /\ (t + k - 1) % KB_BUF_SIZE = Wrap(t + k - 1)
             /\ (t + k - 1) % KB_BUF_SIZE \in Slots
  <2>1. PICK x \in Nat : x = t + k - 1 /\ x < 2 * KB_BUF_SIZE
    BY <1>1, <1>3
  <2>2. x % KB_BUF_SIZE = Wrap(x) /\ x % KB_BUF_SIZE \in Slots
    BY <2>1, WrapIs
  <2>3. (t + k - 1) % KB_BUF_SIZE = x % KB_BUF_SIZE
    BY <2>1
  <2>4. Wrap(x) = Wrap(t + k - 1)
    BY <2>1
  <2> QED BY <2>2, <2>3, <2>4
<1>5. PICK s : s = [k \in 1 .. n |-> b[(t + k - 1) % KB_BUF_SIZE]]
  OBVIOUS
<1>6. s \in [1 .. n -> Chars] /\ \A k \in 1 .. n : s[k] = b[(t + k - 1) % KB_BUF_SIZE]
  BY <1>4, <1>5
<1>7. s \in Seq(Chars) /\ Len(s) = n
  BY <1>3, <1>6
<1>8. s = Keys(b, t, h)
  BY <1>2, <1>5 DEF Keys
<1> QED BY <1>2, <1>4, <1>6, <1>7, <1>8

LEMMA KeysPush ==
    ASSUME NEW b \in [Slots -> Chars], NEW t \in Slots, NEW h \in Slots, NEW c \in Chars,
           (h + 1) % KB_BUF_SIZE # t
    PROVE  /\ Keys([b EXCEPT ![h] = c], t, (h + 1) % KB_BUF_SIZE) = Append(Keys(b, t, h), c)
           /\ (h + 1) % KB_BUF_SIZE \in Slots
<1>1. KB_BUF_SIZE \in Nat /\ KB_BUF_SIZE > 1 /\ t \in Nat /\ h \in Nat /\ t < KB_BUF_SIZE
      /\ h < KB_BUF_SIZE
  BY VirtioInputAssumption DEF Slots
<1>2. PICK g \in Slots : g = (h + 1) % KB_BUF_SIZE /\ g = IF h + 1 < KB_BUF_SIZE THEN h + 1 ELSE 0
  <2>1. PICK x \in Nat : x = h + 1 /\ x < 2 * KB_BUF_SIZE
    BY <1>1
  <2>2. x % KB_BUF_SIZE = Wrap(x) /\ x % KB_BUF_SIZE \in Slots
    BY <2>1, WrapIs
  <2> QED BY <1>1, <2>1, <2>2 DEF Wrap
<1>3. PICK w \in [Slots -> Chars] : w = [b EXCEPT ![h] = c]
  <2>1. [b EXCEPT ![h] = c] \in [Slots -> Chars]
    OBVIOUS
  <2> QED BY <2>1
<1>4. w[h] = c /\ \A j \in Slots : j # h => w[j] = b[j]
  BY <1>3
<1>5. PICK n \in Nat : n = KeyCount(t, h)
  BY <1>1, KeysSeq DEF Slots
<1>6. g # t /\ KeyCount(t, g) = n + 1 /\ n < KB_BUF_SIZE
      /\ n = IF t <= h THEN h - t ELSE h - t + KB_BUF_SIZE
  <2>1. KeyCount(t, g) = IF t <= g THEN g - t ELSE g - t + KB_BUF_SIZE
    BY KeysSeq
  <2>2. n = IF t <= h THEN h - t ELSE h - t + KB_BUF_SIZE
    BY <1>5, KeysSeq
  <2>3. g # t /\ g \in Nat
    BY <1>1, <1>2 DEF Slots
  <2> QED BY <1>1, <1>2, <2>1, <2>2, <2>3
<1>7. PICK s \in Seq(Chars) :
        /\ s = Keys(b, t, h) /\ Len(s) = n
        /\ \A k \in 1 .. n : s[k] = b[Wrap(t + k - 1)]
  BY <1>5, KeysSeq
<1>8. PICK u \in Seq(Chars) :
        /\ u = Keys(w, t, g) /\ Len(u) = n + 1
        /\ \A k \in 1 .. n + 1 : u[k] = w[Wrap(t + k - 1)]
  BY <1>6, KeysSeq
<1>9. Append(s, c) \in Seq(Chars) /\ Len(Append(s, c)) = n + 1
  BY <1>7
<1>10. ASSUME NEW k \in 1 .. n + 1 PROVE u[k] = Append(s, c)[k]
  <2>1. CASE k = n + 1
    <3>1. Wrap(t + k - 1) = h
      BY <1>1, <1>6, <2>1 DEF Wrap
    <3>2. Append(s, c)[k] = c
      BY <1>7, <2>1
    <3> QED BY <1>4, <1>8, <3>1, <3>2
  <2>2. CASE k # n + 1
    <3>1. k \in 1 .. n
      BY <1>5, <2>2
    <3>2. Append(s, c)[k] = s[k]
      BY <1>7, <1>9, <3>1
    <3>3. PICK j \in Slots : j = Wrap(t + k - 1) /\ j # h
      <4>1. PICK x \in Nat : x = t + k - 1 /\ x < t + n /\ t <= x
        BY <1>1, <1>5, <3>1
      <4>2. Wrap(x) \in Slots
        BY <1>1, <1>6, <4>1 DEF Slots, Wrap
      <4>3. Wrap(x) # h
        BY <1>1, <1>6, <4>1 DEF Wrap
      <4> QED BY <4>1, <4>2, <4>3
    <3> QED BY <1>4, <1>7, <1>8, <3>1, <3>2, <3>3
  <2> QED BY <2>1, <2>2
<1>11. u = Append(s, c)
  BY <1>8, <1>9, <1>10, SeqEqual
<1> QED BY <1>2, <1>3, <1>7, <1>8, <1>11

LEMMA KeysPop ==
    ASSUME NEW b \in [Slots -> Chars], NEW t \in Slots, NEW h \in Slots, t # h
    PROVE  /\ Keys(b, t, h) = <<b[t]>> \o Keys(b, (t + 1) % KB_BUF_SIZE, h)
           /\ (t + 1) % KB_BUF_SIZE \in Slots
<1>1. KB_BUF_SIZE \in Nat /\ KB_BUF_SIZE > 1 /\ t \in Nat /\ h \in Nat /\ t < KB_BUF_SIZE
      /\ h < KB_BUF_SIZE
  BY VirtioInputAssumption DEF Slots
<1>2. PICK g \in Slots : g = (t + 1) % KB_BUF_SIZE /\ g = IF t + 1 < KB_BUF_SIZE THEN t + 1 ELSE 0
  <2>1. PICK x \in Nat : x = t + 1 /\ x < 2 * KB_BUF_SIZE
    BY <1>1
  <2>2. x % KB_BUF_SIZE = Wrap(x) /\ x % KB_BUF_SIZE \in Slots
    BY <2>1, WrapIs
  <2> QED BY <1>1, <2>1, <2>2 DEF Wrap
<1>3. PICK n \in Nat : n = KeyCount(g, h)
  BY <1>1, KeysSeq DEF Slots
<1>4. KeyCount(t, h) = n + 1 /\ n < KB_BUF_SIZE
  <2>1. n = IF g <= h THEN h - g ELSE h - g + KB_BUF_SIZE
    BY <1>3, KeysSeq
  <2>2. KeyCount(t, h) = IF t <= h THEN h - t ELSE h - t + KB_BUF_SIZE
    BY KeysSeq
  <2> QED BY <1>1, <1>2, <2>1, <2>2
<1>5. PICK s \in Seq(Chars) :
        /\ s = Keys(b, t, h) /\ Len(s) = n + 1
        /\ \A k \in 1 .. n + 1 : s[k] = b[Wrap(t + k - 1)]
  <2>1. /\ Keys(b, t, h) \in Seq(Chars) /\ Len(Keys(b, t, h)) = KeyCount(t, h)
        /\ \A k \in 1 .. KeyCount(t, h) :
             Keys(b, t, h)[k] = b[Wrap(t + k - 1)]
    BY KeysSeq
  <2> QED BY <1>4, <2>1
<1>6. PICK u \in Seq(Chars) :
        /\ u = Keys(b, g, h) /\ Len(u) = n
        /\ \A k \in 1 .. n : u[k] = b[Wrap(g + k - 1)]
  BY <1>3, KeysSeq
<1>7. PICK v \in Seq(Chars) : v = <<b[t]>> \o u
  <2>1. <<b[t]>> \o u \in Seq(Chars)
    OBVIOUS
  <2> QED BY <2>1
<1>8. Len(v) = n + 1 /\ v[1] = b[t] /\ \A k \in 1 .. n : v[k + 1] = u[k]
  BY <1>6, <1>7
<1>9. ASSUME NEW k \in 1 .. n + 1 PROVE s[k] = v[k]
  <2>1. CASE k = 1
    <3>1. Wrap(t + k - 1) = t
      BY <1>1, <2>1 DEF Wrap
    <3> QED BY <1>5, <1>8, <2>1, <3>1
  <2>2. CASE k # 1
    <3>1. PICK j \in 1 .. n : k = j + 1
      <4>1. k - 1 \in 1 .. n /\ k = (k - 1) + 1
        BY <1>3, <2>2
      <4> QED BY <4>1
    <3>2. Wrap(t + k - 1) = Wrap(g + j - 1)
      <4>1. j \in Nat /\ j < KB_BUF_SIZE /\ 1 <= j /\ g \in Nat /\ k \in Nat
        BY <1>1, <1>3, <1>4, <3>1 DEF Slots
      <4>2. CASE t + 1 < KB_BUF_SIZE
        <5>1. g + j - 1 = t + k - 1
          BY <1>1, <1>2, <3>1, <4>1, <4>2
        <5> QED BY <5>1
      <4>3. CASE ~(t + 1 < KB_BUF_SIZE)
        <5>1. g = 0 /\ t = KB_BUF_SIZE - 1 /\ t + k - 1 = KB_BUF_SIZE + (j - 1)
          BY <1>1, <1>2, <3>1, <4>1, <4>3
        <5> QED BY <1>1, <4>1, <5>1 DEF Wrap
      <4> QED BY <4>2, <4>3
    <3>3. v[k] = u[j]
      BY <1>8, <3>1
    <3> QED BY <1>5, <1>6, <3>1, <3>2, <3>3
  <2> QED BY <2>1, <2>2
<1>10. s = v
  BY <1>5, <1>8, <1>9, SeqEqual
<1> QED BY <1>2, <1>5, <1>6, <1>7, <1>10

-----------------------------------------------------------------------------
(* What a sequence of events types.                                        *)

\* Every set of natural numbers that is not empty has a least element.
LEMMA LeastNat ==
    ASSUME NEW T \in SUBSET Nat, T # {}
    PROVE  \E m \in T : \A n \in T : m <= n
<1>1. PICK m \in T : \A n \in T : <<n, m>> \notin OpToRel(<, Nat)
  BY NatLessThanWellFounded, WFMin
<1>2. ASSUME NEW n \in T, n < m
      PROVE  <<n, m>> \in OpToRel(<, Nat)
  <2>1. <<n, m>> \in Nat \X Nat
    OBVIOUS
  <2>2. <<n, m>>[1] < <<n, m>>[2]
    BY <1>2
  <2> QED BY <2>1, <2>2 DEF OpToRel
<1>3. \A n \in T : ~(n < m)
  BY <1>1, <1>2
<1> QED BY <1>3

\* A set of numbers up to N with 0 and the successors of its members is full.
LEMMA UpTo ==
    ASSUME NEW N \in Nat, NEW G, 0 \in G, \A n \in 1 .. N : n - 1 \in G => n \in G
    PROVE  \A n \in 0 .. N : n \in G
<1> DEFINE T == {n \in 0 .. N : n \notin G}
<1> SUFFICES ASSUME T # {} PROVE FALSE
  OBVIOUS
<1>1. T \in SUBSET Nat
  OBVIOUS
<1> HIDE DEF T
<1>2. PICK m \in T : \A n \in T : m <= n
  BY <1>1, LeastNat
<1>3. m \in 0 .. N /\ m \notin G
  BY <1>2 DEF T
<1>4. m \in 1 .. N /\ m - 1 \in 0 .. N /\ ~(m <= m - 1)
  BY <1>3
<1>5. m - 1 \notin T
  BY <1>2, <1>4
<1>6. m - 1 \in G
  BY <1>4, <1>5 DEF T
<1> QED BY <1>3, <1>4, <1>6

Texts == [shift : BOOLEAN, text : Seq(Chars)]

LEMMA CharIs == ASSUME NEW h \in BOOLEAN, NEW e PROVE Char(h, e) \in Chars
  BY VirtioInputAssumption DEF Char, Chars

LEMMA TypeIs ==
    ASSUME NEW r \in Texts, NEW e
    PROVE  /\ Type(r, e) \in Texts
           /\ Type(r, e).shift = (IF e.type = "key" /\ e.code \in Shifts THEN e.value # 0 ELSE r.shift)
           /\ Type(r, e).text = IF \/ e.type # "key" \/ e.code \in Shifts \/ Char(r.shift, e) = 0
                                THEN r.text ELSE Append(r.text, Char(r.shift, e))
<1>1. r.shift \in BOOLEAN /\ r.text \in Seq(Chars) /\ (e.value # 0) \in BOOLEAN
  BY DEF Texts
<1>2. Char(r.shift, e) \in Chars
  BY <1>1, CharIs
<1>3. Append(r.text, Char(r.shift, e)) \in Seq(Chars)
  BY <1>1, <1>2
<1>4. CASE e.type # "key"
  BY <1>4 DEF Type
<1>5. CASE e.type = "key" /\ e.code \in Shifts
  BY <1>1, <1>5 DEF Type, Texts
<1>6. CASE e.type = "key" /\ e.code \notin Shifts /\ Char(r.shift, e) = 0
  BY <1>6 DEF Type
<1>7. CASE e.type = "key" /\ e.code \notin Shifts /\ Char(r.shift, e) # 0
  BY <1>1, <1>3, <1>7 DEF Type, Texts
<1> QED BY <1>4, <1>5, <1>6, <1>7

\* The readings f of the first n events of s.
Reads(n, f, h, s) ==
    /\ f \in [0 .. n -> Texts] /\ f[0] = [shift |-> h, text |-> << >>]
    /\ \A k \in 1 .. n : f[k] = Type(f[k - 1], s[k])

LEMMA ReadsExist ==
    ASSUME NEW N \in Nat, NEW h \in BOOLEAN, NEW s
    PROVE  \E f : Reads(N, f, h, s)
<1> DEFINE G == {n \in 0 .. N : \E f : Reads(n, f, h, s)}
<1>1. 0 \in G
  <2>1. PICK b : b = [shift |-> h, text |-> << >>] /\ b \in Texts
    <3>1. << >> \in Seq(Chars)
      OBVIOUS
    <3>2. [shift |-> h, text |-> << >>] \in Texts
      BY <3>1 DEF Texts
    <3> QED BY <3>2
  <2>2. Reads(0, [k \in 0 .. 0 |-> b], h, s)
    BY <2>1 DEF Reads
  <2> QED BY <2>2
<1>2. ASSUME NEW n \in 1 .. N, n - 1 \in G PROVE n \in G
  <2>1. PICK g : Reads(n - 1, g, h, s)
    BY <1>2
  <2>2. /\ g \in [0 .. n - 1 -> Texts] /\ g[0] = [shift |-> h, text |-> << >>]
        /\ \A k \in 1 .. n - 1 : g[k] = Type(g[k - 1], s[k])
    BY <2>1 DEF Reads
  <2>3. n \in Nat /\ n >= 1 /\ n - 1 \in 0 .. n - 1
    OBVIOUS
  <2>4. PICK x \in Texts : x = Type(g[n - 1], s[n])
    <3>1. g[n - 1] \in Texts
      BY <2>2, <2>3
    <3>2. Type(g[n - 1], s[n]) \in Texts
      BY <3>1, TypeIs
    <3> QED BY <3>2
  <2>5. PICK f : f = [k \in 0 .. n |-> IF k < n THEN g[k] ELSE x]
    OBVIOUS
  <2>6. f \in [0 .. n -> Texts] /\ f[n] = x /\ \A k \in 0 .. n - 1 : f[k] = g[k]
    BY <2>2, <2>3, <2>4, <2>5
  <2>7. ASSUME NEW k \in 1 .. n PROVE f[k] = Type(f[k - 1], s[k])
    <3>1. k - 1 \in 0 .. n - 1 /\ f[k - 1] = g[k - 1]
      BY <2>3, <2>6
    <3>2. CASE k = n
      BY <2>4, <2>6, <3>1, <3>2
    <3>3. CASE k # n
      <4>1. k \in 1 .. n - 1 /\ k \in 0 .. n - 1
        BY <2>3, <3>3
      <4> QED BY <2>2, <2>6, <3>1, <4>1
    <3> QED BY <3>2, <3>3
  <2>8. f[0] = g[0]
    BY <2>3, <2>6
  <2>9. Reads(n, f, h, s)
    BY <2>2, <2>6, <2>7, <2>8 DEF Reads
  <2> QED BY <2>9
<1> HIDE DEF G
<1>3. \A n \in 0 .. N : n \in G
  BY <1>1, <1>2, UpTo
<1>4. N \in G
  BY <1>3
<1> QED BY <1>4 DEF G

\* Readings of two sequences agree as far as the sequences do.
LEMMA ReadsAgree ==
    ASSUME NEW N \in Nat, NEW M \in Nat, N <= M, NEW f, NEW g, NEW h, NEW s, NEW u,
           Reads(N, f, h, s), Reads(M, g, h, u), \A k \in 1 .. N : s[k] = u[k]
    PROVE  \A k \in 0 .. N : f[k] = g[k]
<1> DEFINE G == {n \in 0 .. N : f[n] = g[n]}
<1>1. 0 \in G
  BY DEF Reads
<1>2. ASSUME NEW n \in 1 .. N, n - 1 \in G PROVE n \in G
  <2>1. f[n - 1] = g[n - 1] /\ s[n] = u[n] /\ n \in 1 .. M
    BY <1>2
  <2>2. f[n] = Type(f[n - 1], s[n]) /\ g[n] = Type(g[n - 1], u[n])
    BY <2>1 DEF Reads
  <2> QED BY <2>1, <2>2
<1> HIDE DEF G
<1>3. \A n \in 0 .. N : n \in G
  BY <1>1, <1>2, UpTo
<1> QED BY <1>3 DEF G

LEMMA ReadingIs ==
    ASSUME NEW h \in BOOLEAN, NEW s, Len(s) \in Nat
    PROVE  Reads(Len(s), Reading(h, s), h, s)
<1>1. PICK N \in Nat : N = Len(s)
  OBVIOUS
<1> DEFINE Eq(r) == r = [n \in 0 .. N |-> IF n = 0 THEN [shift |-> h, text |-> << >>]
                                          ELSE Type(r[n - 1], s[n])]
<1>2. PICK f : Reads(N, f, h, s)
  BY ReadsExist
<1>3. Eq(f)
  <2>1. f = [n \in 0 .. N |-> f[n]]
    BY <1>2 DEF Reads
  <2>2. \A n \in 0 .. N : f[n] = IF n = 0 THEN [shift |-> h, text |-> << >>]
                                 ELSE Type(f[n - 1], s[n])
    BY <1>2 DEF Reads
  <2> QED BY <2>1, <2>2
<1>4. Reading(h, s) = CHOOSE r : Eq(r)
  BY <1>1 DEF Reading
<1>5. PICK r : r = Reading(h, s) /\ Eq(r)
  <2>1. Eq(CHOOSE r : Eq(r))
    BY <1>3
  <2> QED BY <1>4, <2>1
<1>6. /\ r[0] = [shift |-> h, text |-> << >>]
      /\ \A k \in 1 .. N : r[k] = Type(r[k - 1], s[k])
  BY <1>5
<1> DEFINE G == {n \in 0 .. N : f[n] = r[n]}
<1>7. 0 \in G
  BY <1>2, <1>6 DEF Reads
<1>8. ASSUME NEW n \in 1 .. N, n - 1 \in G PROVE n \in G
  <2>1. f[n] = Type(f[n - 1], s[n]) /\ r[n] = Type(r[n - 1], s[n]) /\ f[n - 1] = r[n - 1]
    BY <1>2, <1>6, <1>8 DEF Reads
  <2> QED BY <2>1
<1>9. \A n \in 0 .. N : f[n] = r[n]
  <2> HIDE DEF G
  <2>1. \A n \in 0 .. N : n \in G
    BY <1>7, <1>8, UpTo
  <2> QED BY <2>1 DEF G
<1>10. r = f
  <2>1. r = [n \in 0 .. N |-> r[n]] /\ f = [n \in 0 .. N |-> f[n]]
    BY <1>2, <1>5 DEF Reads
  <2> QED BY <1>9, <2>1
<1> QED BY <1>1, <1>2, <1>5, <1>10

\* u is the end of s.
IsRest(u, s) ==
    /\ u \in Seq(Events \cup {NoEvent}) /\ s \in Seq(Events \cup {NoEvent}) /\ Len(u) <= Len(s)
    /\ \A j \in 1 .. Len(u) : u[j] = s[Len(s) - Len(u) + j]

\* Reading all of s is reading its beginning, and then the rest with the shift
\* state that is reached there.
LEMMA ReadingSplit ==
    ASSUME NEW u, NEW s, IsRest(u, s), NEW h \in BOOLEAN
    PROVE  LET r == Reading(h, s)[Len(s) - Len(u)]
           IN  r \in Texts /\ Reading(h, s)[Len(s)].text = r.text \o Typed(r.shift, u)
<1>1. PICK N \in Nat, M \in Nat : N = Len(s) /\ M = Len(u) /\ M <= N
  BY DEF IsRest
<1>2. PICK m \in 0 .. N : m = N - M
  <2>1. N - M \in 0 .. N
    BY <1>1
  <2> QED BY <2>1
<1>3. PICK R : R = Reading(h, s) /\ Reads(N, R, h, s)
  BY <1>1, ReadingIs
<1>4. PICK r \in Texts : r = R[m]
  BY <1>3 DEF Reads
<1>5. r.shift \in BOOLEAN /\ r.text \in Seq(Chars)
  BY DEF Texts
<1>6. PICK Q : Q = Reading(r.shift, u) /\ Reads(M, Q, r.shift, u)
  <2>1. Reads(Len(u), Reading(r.shift, u), r.shift, u)
    BY <1>1, <1>5, ReadingIs
  <2> QED BY <1>1, <2>1
<1> DEFINE G == {j \in 0 .. M : R[m + j].shift = Q[j].shift /\ R[m + j].text = r.text \o Q[j].text}
<1>7. 0 \in G
  <2>1. Q[0].shift = r.shift /\ Q[0].text = << >> /\ m + 0 = m
    BY <1>6 DEF Reads
  <2>2. r.text \o << >> = r.text
    BY <1>5
  <2>3. R[m + 0].shift = Q[0].shift /\ R[m + 0].text = r.text \o Q[0].text
    BY <1>4, <2>1, <2>2
  <2>4. 0 \in 0 .. M
    OBVIOUS
  <2> QED BY <2>3, <2>4
<1>8. ASSUME NEW j \in 1 .. M, j - 1 \in G PROVE j \in G
  <2>1. /\ m + j \in 1 .. N /\ (m + j) - 1 = m + (j - 1) /\ m + (j - 1) \in 0 .. N
        /\ j - 1 \in 0 .. M /\ m + j = N - M + j
    BY <1>1, <1>2
  <2>2. PICK a \in Texts, b \in Texts, e \in Events \cup {NoEvent} :
          /\ a = R[m + (j - 1)] /\ b = Q[j - 1] /\ e = u[j] /\ e = s[m + j]
          /\ R[m + j] = Type(a, e) /\ Q[j] = Type(b, e)
    <3>1. R[m + (j - 1)] \in Texts /\ Q[j - 1] \in Texts
      BY <1>3, <1>6, <2>1 DEF Reads
    <3>2. R[m + j] = Type(R[m + (j - 1)], s[m + j]) /\ Q[j] = Type(Q[j - 1], u[j])
      BY <1>3, <1>6, <2>1 DEF Reads
    <3>3. u[j] = s[m + j] /\ u[j] \in Events \cup {NoEvent}
      BY <1>1, <2>1 DEF IsRest
    <3> QED BY <3>1, <3>2, <3>3
  <2>3. a.shift = b.shift /\ a.text = r.text \o b.text
    BY <1>8, <2>2
  <2>4. b.text \in Seq(Chars) /\ b.shift \in BOOLEAN
    BY DEF Texts
  <2>5. Type(a, e).shift = Type(b, e).shift
    BY <2>3, TypeIs
  <2>6. Type(a, e).text = r.text \o Type(b, e).text
    <3>1. PICK c \in Chars : c = Char(b.shift, e)
      BY <2>4, CharIs
    <3>2. Append(r.text \o b.text, c) = r.text \o Append(b.text, c)
      <4>1. \A p, q \in Seq(Chars) : Append(p \o q, c) = p \o Append(q, c)
        OBVIOUS
      <4> QED BY <1>5, <2>4, <4>1
    <3>3. Type(a, e).text = IF \/ e.type # "key" \/ e.code \in Shifts \/ c = 0
                            THEN r.text \o b.text ELSE Append(r.text \o b.text, c)
      BY <2>3, <3>1, TypeIs
    <3>4. Type(b, e).text = IF \/ e.type # "key" \/ e.code \in Shifts \/ c = 0
                            THEN b.text ELSE Append(b.text, c)
      BY <3>1, TypeIs
    <3> QED BY <3>2, <3>3, <3>4
  <2>7. R[m + j].shift = Q[j].shift /\ R[m + j].text = r.text \o Q[j].text
    BY <2>2, <2>5, <2>6
  <2>8. j \in 0 .. M
    OBVIOUS
  <2> QED BY <2>7, <2>8
<1> HIDE DEF G
<1>9. \A j \in 0 .. M : j \in G
  BY <1>7, <1>8, UpTo
<1>10. M \in G
  BY <1>9
<1>11. R[m + M].text = r.text \o Q[M].text
  BY <1>10 DEF G
<1>12. m + M = N
  BY <1>1, <1>2
<1>13. Typed(r.shift, u) = Q[M].text
  BY <1>1, <1>6 DEF Typed
<1> QED BY <1>1, <1>2, <1>3, <1>4, <1>11, <1>12, <1>13

-----------------------------------------------------------------------------
(* The events on their way, and the text they have become.                 *)

All      == Events \cup {NoEvent}
Front    == IF fresh THEN <<out>> ELSE << >>
InFlight == IF dev.at = "idle" THEN << >> ELSE <<bufs[desc[dev.id]]>>

\* What the handlers have seen of the events, and what it comes to.
Handled == Reading(FALSE, events)[Len(events) - Len(Unhandled)]

InputTypes ==
    /\ out \in All /\ fresh \in BOOLEAN /\ dropped \in BOOLEAN /\ shift_held \in BOOLEAN
    /\ kb_buf \in [Slots -> Chars] /\ kb_head \in Slots /\ kb_tail \in Slots
    /\ got \in Seq(Chars)

KeysTyped ==
    which = "keyboard" =>
      /\ shift_held = Handled.shift
      /\ ~dropped => got \o Keys(kb_buf, kb_tail, kb_head) = Handled.text

TextInv == InputTypes /\ IsRest(Unhandled, events) /\ KeysTyped

LEMMA UnhandledIs ==
    ASSUME QueueInv, InputTypes
    PROVE  /\ Unhandled = Front \o Queue \o InFlight
           /\ Front \in Seq(All) /\ Queue \in Seq(All) /\ InFlight \in Seq(All)
<1>1. Queue \in Seq(All) /\ bufs \in [Descs -> All]
  BY QueueTyped DEF All
<1>2. Front \in Seq(All)
  BY DEF Front, InputTypes
<1>3. dev.at # "idle" => bufs[desc[dev.id]] = bufs[dev.id] /\ bufs[dev.id] \in All
  <2> SUFFICES ASSUME dev.at # "idle"
               PROVE  bufs[desc[dev.id]] = bufs[dev.id] /\ bufs[dev.id] \in All
    OBVIOUS
  <2>1. dev.id \in Started /\ dev.id \in Descs
    BY QueueFacts DEF QueueInv, Places, Taken
  <2>2. desc[dev.id] = dev.id
    BY <2>1 DEF QueueInv, Seeding
  <2> QED BY <1>1, <2>1, <2>2
<1>4. InFlight \in Seq(All)
  BY <1>3 DEF InFlight
<1> QED BY <1>1, <1>2, <1>4 DEF Unhandled, Front, InFlight

\* The device's buffer is the one it was told of.
LEMMA InFlightIs ==
    ASSUME QueueInv, dev.at # "idle"
    PROVE  InFlight = <<bufs[dev.id]>> /\ bufs[dev.id] \in All /\ dev.id \in Descs /\ desc[dev.id] = dev.id
<1>1. dev.id \in Started /\ dev.id \in Descs
  BY QueueFacts DEF QueueInv, Places, Taken
<1>2. desc[dev.id] = dev.id /\ bufs \in [Descs -> All]
  BY <1>1, QueueTyped DEF QueueInv, Seeding, All
<1> QED BY <1>1, <1>2 DEF InFlight

LEMMA Concats ==
    ASSUME NEW f \in Seq(All), NEW q \in Seq(All), NEW g \in Seq(All), NEW x \in All
    PROVE  /\ f \o Append(q, x) \o << >> = f \o q \o <<x>>
           /\ Append(f \o q \o << >>, x) = f \o q \o <<x>>
           /\ q # << >> => <<Head(q)>> \o Tail(q) \o g = << >> \o q \o g
           /\ <<x>> \o q \o g # << >> /\ Head(<<x>> \o q \o g) = x
           /\ Tail(<<x>> \o q \o g) = << >> \o q \o g
<1>1. f \o Append(q, x) \o << >> = f \o q \o <<x>>
  OBVIOUS
<1>2. Append(f \o q \o << >>, x) = f \o q \o <<x>>
  OBVIOUS
<1>3. ASSUME q # << >> PROVE <<Head(q)>> \o Tail(q) \o g = << >> \o q \o g
  <2>1. <<Head(q)>> \o Tail(q) = q /\ << >> \o q = q
    BY <1>3
  <2> QED BY <2>1
<1>4. /\ <<x>> \o q \o g # << >> /\ Head(<<x>> \o q \o g) = x
      /\ Tail(<<x>> \o q \o g) = << >> \o q \o g
  OBVIOUS
<1> QED BY <1>1, <1>2, <1>3, <1>4

\* Filling a buffer adds the event at the end.
LEMMA FillAdds ==
    ASSUME QueueInv, InputTypes, NEW e \in Events, DeviceFill(e), UNCHANGED fresh
    PROVE  Unhandled' = Append(Unhandled, e)
<1>1. Queue' = Queue /\ out' = out /\ QueueInv'
  BY FillSame, FillKeeps
<1>2. dev.at = "idle" /\ dev'.at # "idle" /\ e \in All
  BY DEF DeviceFill, All
<1>3. bufs'[dev'.id] = e
  <2>1. Posted # << >> /\ dev'.id = Head(Posted) /\ bufs' = [bufs EXCEPT ![Head(Posted)] = e]
    BY FillKeeps
  <2>2. Posted \in Seq(Descs) /\ bufs \in [Descs -> All]
    BY QueueFacts, QueueTyped DEF All
  <2>3. Head(Posted) \in Descs
    BY <2>1, <2>2
  <2> QED BY <2>1, <2>2, <2>3
<1>4. (desc[dev.id])' = dev'.id
  <2>1. QueueInv' /\ (dev.at # "idle")' => (desc[dev.id] = dev.id)'
    BY InFlightIs, PTL
  <2> QED BY <1>1, <1>2, <2>1
<1>5. InFlight = << >> /\ InFlight' = <<e>> /\ Front' = Front
  BY <1>1, <1>2, <1>3, <1>4 DEF InFlight, Front
<1>6. Unhandled' = Front' \o Queue' \o InFlight'
  BY DEF Unhandled, Front, InFlight
<1>7. Append(Front \o Queue \o << >>, e) = Front \o Queue \o <<e>>
  BY <1>2, UnhandledIs, Concats
<1> QED BY <1>1, <1>5, <1>6, <1>7, UnhandledIs

\* Announcing it, polling for it and copying it out leave it where it is.
LEMMA UnhandledSame ==
    ASSUME QueueInv, InputTypes,
           \/ /\ SeedDesc \/ PublishRing \/ PublishIdx \/ PollTest \/ PollElem
                 \/ DeviceElem \/ DeviceIdx \/ UNCHANGED vars
              /\ UNCHANGED fresh
           \/ Copy /\ ~fresh /\ fresh'
    PROVE  Unhandled' = Unhandled /\ out' \in All
<1>0. Unhandled' = Front' \o Queue' \o InFlight'
  BY DEF Unhandled, Front, InFlight
<1>1. CASE Copy /\ ~fresh /\ fresh'
  <2>1. Queue # << >> /\ out' = Head(Queue) /\ Queue' = Tail(Queue)
    BY <1>1, CopyGets
  <2>2. Front = << >> /\ Front' = <<Head(Queue)>> /\ InFlight' = InFlight
    BY <1>1, <2>1 DEF Front, InFlight, Copy, device
  <2>3. <<Head(Queue)>> \o Tail(Queue) \o InFlight = << >> \o Queue \o InFlight
    BY <2>1, UnhandledIs, Concats DEF InputTypes
  <2>4. out' \in All
    BY <2>1, UnhandledIs
  <2> QED BY <1>0, <2>1, <2>2, <2>3, <2>4, UnhandledIs
<1>2. CASE DeviceIdx /\ UNCHANGED fresh
  <2>1. Queue' = Append(Queue, bufs[dev.id]) /\ out' = out
    BY <1>2, AnnouncePuts
  <2>2. dev.at # "idle" /\ dev'.at = "idle"
    BY <1>2 DEF DeviceIdx, QueueInv, QueueTypes
  <2>3. InFlight = <<bufs[dev.id]>> /\ InFlight' = << >> /\ bufs[dev.id] \in All /\ Front' = Front
    BY <1>2, <2>1, <2>2, InFlightIs DEF InFlight, Front
  <2>4. Front \o Append(Queue, bufs[dev.id]) \o << >> = Front \o Queue \o <<bufs[dev.id]>>
    BY <2>3, UnhandledIs, Concats
  <2> QED BY <1>0, <2>1, <2>3, <2>4, UnhandledIs DEF InputTypes
<1>3. CASE /\ SeedDesc \/ PublishRing \/ PublishIdx \/ PollTest \/ PollElem
              \/ DeviceElem \/ UNCHANGED vars
           /\ UNCHANGED fresh
  <2>1. Queue' = Queue /\ out' = out
    BY <1>3, QueueSame, ElemSame
  <2>2. InFlight' = InFlight
    <3>1. CASE dev.at = "idle"
      <4>1. dev'.at = "idle"
        BY <1>3, <3>1 DEF SeedDesc, PublishRing, PublishIdx, PollTest, PollElem, DeviceElem, vars,
                          driver, device
      <4> QED BY <3>1, <4>1 DEF InFlight
    <3>2. CASE dev.at # "idle"
      <4>1. desc[dev.id] = dev.id /\ dev.id \in Descs /\ dev.id \in Started
        BY <3>2, InFlightIs, QueueFacts DEF QueueInv, Places, Taken
      <4>2. bufs' = bufs /\ dev'.id = dev.id /\ dev'.at # "idle"
        BY <1>3, <3>2 DEF SeedDesc, PublishRing, PublishIdx, PollTest, PollElem, DeviceElem, vars,
                          driver, device, QueueInv, QueueTypes
      <4>3. desc'[dev.id] = dev.id
        <5>1. CASE SeedDesc
          <6>1. desc' = [desc EXCEPT ![seeded] = seeded] /\ desc \in [Descs -> Descs \cup {-1}]
            BY <5>1 DEF SeedDesc, QueueInv, QueueTypes
          <6> QED BY <4>1, <6>1
        <5>2. CASE ~SeedDesc
          BY <1>3, <4>1, <5>2 DEF PublishRing, PublishIdx, PollTest, PollElem, DeviceElem, vars,
                                  driver
        <5> QED BY <5>1, <5>2
      <4> QED BY <3>2, <4>1, <4>2, <4>3 DEF InFlight
    <3> QED BY <3>1, <3>2
  <2>3. Front' = Front
    BY <1>3, <2>1 DEF Front
  <2> QED BY <1>0, <2>1, <2>2, <2>3, UnhandledIs DEF InputTypes
<1> QED BY <1>1, <1>2, <1>3

LEMMA RestAppend ==
    ASSUME NEW u, NEW s, IsRest(u, s), NEW e \in All, NEW h \in BOOLEAN
    PROVE  /\ IsRest(Append(u, e), Append(s, e))
           /\ Len(Append(s, e)) - Len(Append(u, e)) = Len(s) - Len(u)
           /\ Reading(h, Append(s, e))[Len(s) - Len(u)] = Reading(h, s)[Len(s) - Len(u)]
<1>1. PICK N \in Nat, M \in Nat : N = Len(s) /\ M = Len(u) /\ M <= N
  BY DEF IsRest
<1>2. u \in Seq(All) /\ s \in Seq(All) /\ \A j \in 1 .. M : u[j] = s[N - M + j]
  BY <1>1 DEF IsRest, All
<1>3. PICK v \in Seq(All), t \in Seq(All) : v = Append(u, e) /\ t = Append(s, e)
  <2>1. Append(u, e) \in Seq(All) /\ Append(s, e) \in Seq(All)
    BY <1>2
  <2> QED BY <2>1
<1>4. /\ Len(v) = M + 1 /\ v[M + 1] = e /\ \A j \in 1 .. M : v[j] = u[j]
      /\ Len(t) = N + 1 /\ t[N + 1] = e /\ \A j \in 1 .. N : t[j] = s[j]
  BY <1>1, <1>2, <1>3
<1>5. ASSUME NEW j \in 1 .. M + 1 PROVE v[j] = t[(N + 1) - (M + 1) + j]
  <2>1. CASE j = M + 1
    <3>1. (N + 1) - (M + 1) + j = N + 1
      BY <2>1
    <3> QED BY <1>4, <2>1, <3>1
  <2>2. CASE j # M + 1
    <3>1. j \in 1 .. M /\ (N + 1) - (M + 1) + j = N - M + j /\ N - M + j \in 1 .. N
      BY <1>1, <2>2
    <3> QED BY <1>2, <1>4, <3>1
  <2> QED BY <2>1, <2>2
<1>6. IsRest(v, t) /\ Len(t) - Len(v) = N - M
  BY <1>1, <1>4, <1>5 DEF IsRest, All
<1>7. Reads(N, Reading(h, s), h, s) /\ Reads(N + 1, Reading(h, t), h, t)
  <2>1. Len(s) \in Nat /\ Len(t) \in Nat
    BY <1>1, <1>4
  <2>2. Reads(Len(s), Reading(h, s), h, s)
    BY <2>1, ReadingIs
  <2>3. Reads(Len(t), Reading(h, t), h, t)
    BY <2>1, ReadingIs
  <2> QED BY <1>1, <1>4, <2>2, <2>3
<1>8. \A k \in 0 .. N : Reading(h, s)[k] = Reading(h, t)[k]
  <2>1. PICK f, g : f = Reading(h, s) /\ g = Reading(h, t)
    OBVIOUS
  <2>4. PICK m \in Nat : m = N + 1
    OBVIOUS
  <2>2. N + 1 \in Nat /\ N <= N + 1 /\ \A k \in 1 .. N : s[k] = t[k]
    BY <1>4
  <2>3. \A k \in 0 .. N : f[k] = g[k]
    <3>1. Reads(N, f, h, s) /\ Reads(m, g, h, t) /\ N <= m
      BY <1>7, <2>1, <2>4
    <3> QED BY <2>2, <3>1, ReadsAgree
  <2> QED BY <2>1, <2>3
<1>9. N - M \in 0 .. N
  BY <1>1
<1> QED BY <1>1, <1>3, <1>6, <1>8, <1>9

LEMMA RestTail ==
    ASSUME NEW u, NEW s, IsRest(u, s), u # << >>
    PROVE  /\ IsRest(Tail(u), s)
           /\ Reading(FALSE, s)[Len(s) - Len(u)] \in Texts
           /\ Reading(FALSE, s)[Len(s) - Len(Tail(u))]
                = Type(Reading(FALSE, s)[Len(s) - Len(u)], Head(u))
<1>1. PICK N \in Nat, M \in Nat : N = Len(s) /\ M = Len(u) /\ M <= N
  BY DEF IsRest
<1>2. u \in Seq(All) /\ s \in Seq(All) /\ \A j \in 1 .. M : u[j] = s[N - M + j]
  BY <1>1 DEF IsRest, All
<1>3. M >= 1 /\ Head(u) = u[1]
  BY <1>1, <1>2
<1>4. PICK v \in Seq(All) : v = Tail(u) /\ Len(v) = M - 1 /\ \A j \in 1 .. M - 1 : v[j] = u[j + 1]
  <2>1. Tail(u) \in Seq(All) /\ Len(Tail(u)) = M - 1 /\ \A j \in 1 .. M - 1 : Tail(u)[j] = u[j + 1]
    BY <1>1, <1>2, <1>3
  <2> QED BY <2>1
<1>5. ASSUME NEW j \in 1 .. M - 1 PROVE v[j] = s[N - (M - 1) + j]
  <2>1. j + 1 \in 1 .. M /\ N - M + (j + 1) = N - (M - 1) + j
    BY <1>1
  <2> QED BY <1>2, <1>4, <2>1
<1>6. IsRest(v, s)
  BY <1>1, <1>2, <1>3, <1>4, <1>5 DEF IsRest, All
<1>7. PICK R : R = Reading(FALSE, s) /\ Reads(N, R, FALSE, s)
  <2>1. Reads(Len(s), Reading(FALSE, s), FALSE, s)
    BY <1>1, ReadingIs
  <2> QED BY <1>1, <2>1
<1>8. PICK k \in 1 .. N : k = N - (M - 1) /\ k - 1 = N - M /\ k - 1 \in 0 .. N
  <2>1. N - (M - 1) \in 1 .. N /\ (N - (M - 1)) - 1 = N - M /\ N - M \in 0 .. N
    BY <1>1, <1>3
  <2> QED BY <2>1
<1>9. R[k] = Type(R[k - 1], s[k]) /\ R[k - 1] \in Texts
  BY <1>7, <1>8 DEF Reads
<1>10. s[k] = Head(u)
  <2>1. 1 \in 1 .. M /\ N - M + 1 = k
    BY <1>1, <1>3, <1>8
  <2> QED BY <1>2, <1>3, <2>1
<1> QED BY <1>1, <1>4, <1>6, <1>7, <1>8, <1>9, <1>10

LEMMA TextInit == ASSUME InputInit PROVE TextInv
<1>1. KB_BUF_SIZE \in Nat \ {0, 1} /\ 0 \in Slots /\ 0 \in Chars
  BY VirtioInputAssumption DEF Slots, Chars
<1>2. InputTypes
  BY <1>1 DEF InputInit, Init, InputTypes, All, Slots
<1>3. QueueInv
  BY QueueInit DEF InputInit
<1>4. Unhandled = << >> /\ events = << >>
  <2>1. Front = << >> /\ InFlight = << >> /\ events = << >>
    BY DEF InputInit, Init, Front, InFlight
  <2>2. Queue = << >>
    <3>1. 0 \in Indices
      BY Sizes DEF Indices
    <3>2. Ahead(0, 0) = 0
      BY <3>1, AheadIs, Sizes
    <3>3. Len(Done) = 0 /\ Ids = Done
      BY <1>3, <3>2, QueueFacts DEF InputInit, Init, Ids
    <3>4. Queue \in Seq(Events \cup {NoEvent}) /\ Len(Queue) = 0
      BY <1>3, <3>3, QueueTyped
    <3> QED BY <3>4, EmptySeq
  <2> QED BY <1>2, <1>3, <2>1, <2>2, UnhandledIs
<1>5. IsRest(Unhandled, events)
  BY <1>4 DEF IsRest
<1>6. Handled = [shift |-> FALSE, text |-> << >>]
  <2>1. Len(<< >>) = 0 /\ 0 - 0 = 0
    OBVIOUS
  <2>2. Reads(0, Reading(FALSE, << >>), FALSE, << >>)
    BY <2>1, ReadingIs
  <2>3. Reading(FALSE, << >>)[0] = [shift |-> FALSE, text |-> << >>]
    BY <2>2 DEF Reads
  <2> QED BY <1>4, <2>1, <2>3 DEF Handled
<1>7. Keys(kb_buf, kb_tail, kb_head) = << >>
  <2>1. kb_buf \in [Slots -> Chars] /\ kb_tail = 0 /\ kb_head = 0
    BY <1>2 DEF InputTypes, InputInit
  <2>2. KeyCount(0, 0) = 0 /\ Keys(kb_buf, 0, 0) \in Seq(Chars)
        /\ Len(Keys(kb_buf, 0, 0)) = KeyCount(0, 0)
    BY <1>1, <2>1, KeysSeq
  <2> QED BY <2>1, <2>2, EmptySeq
<1>8. KeysTyped
  <2>1. shift_held = FALSE /\ got = << >>
    BY DEF InputInit
  <2>2. Handled.shift = FALSE /\ Handled.text = << >>
    BY <1>6
  <2>3. << >> \o << >> = << >>
    OBVIOUS
  <2> QED BY <1>7, <2>1, <2>2, <2>3 DEF KeysTyped
<1> QED BY <1>2, <1>5, <1>8 DEF TextInv

\* A step that leaves events, keyboard and the events on their way alone.
LEMMA TextSame ==
    ASSUME TextInv, UNCHANGED <<which, kb, events>>, Unhandled' = Unhandled, fresh' \in BOOLEAN,
           out' \in All
    PROVE  TextInv'
<1>1. UNCHANGED <<which, kb_buf, kb_head, kb_tail, shift_held, got, dropped, events>>
  BY DEF kb
<1>2. Handled' = Handled
  BY <1>1 DEF Handled
<1>3. InputTypes'
  BY <1>1 DEF TextInv, InputTypes
<1>4. IsRest(Unhandled, events)'
  BY <1>1 DEF TextInv, IsRest
<1>5. KeysTyped'
  BY <1>1, <1>2 DEF TextInv, KeysTyped
<1> QED BY <1>3, <1>4, <1>5 DEF TextInv

LEMMA TextHappens ==
    ASSUME QueueInv, TextInv, NEW e \in Events, Happens(e)
    PROVE  TextInv'
<1>1. /\ DeviceFill(e) /\ events' = Append(events, e)
      /\ UNCHANGED <<which, fresh, kb_buf, kb_head, kb_tail, shift_held, got, dropped>>
  BY DEF Happens, kb
<1>2. e \in All /\ out' = out
  BY <1>1, FillSame DEF All
<1>3. Unhandled' = Append(Unhandled, e)
  BY <1>1, FillAdds DEF TextInv
<1>4. /\ IsRest(Append(Unhandled, e), Append(events, e))
      /\ Len(Append(events, e)) - Len(Append(Unhandled, e)) = Len(events) - Len(Unhandled)
      /\ Reading(FALSE, Append(events, e))[Len(events) - Len(Unhandled)]
           = Reading(FALSE, events)[Len(events) - Len(Unhandled)]
  <2>1. PICK u, s : u = Unhandled /\ s = events
    OBVIOUS
  <2>2. IsRest(u, s)
    BY <2>1 DEF TextInv
  <2>3. /\ IsRest(Append(u, e), Append(s, e))
        /\ Len(Append(s, e)) - Len(Append(u, e)) = Len(s) - Len(u)
        /\ Reading(FALSE, Append(s, e))[Len(s) - Len(u)] = Reading(FALSE, s)[Len(s) - Len(u)]
    BY <1>2, <2>2, RestAppend
  <2> QED BY <2>1, <2>3
<1>5. Handled' = Handled
  BY <1>1, <1>3, <1>4 DEF Handled
<1>6. InputTypes'
  BY <1>1, <1>2 DEF TextInv, InputTypes
<1>7. IsRest(Unhandled, events)'
  BY <1>1, <1>3, <1>4 DEF IsRest
<1>8. KeysTyped'
  BY <1>1, <1>5 DEF TextInv, KeysTyped
<1> QED BY <1>6, <1>7, <1>8 DEF TextInv

LEMMA TextHandle == ASSUME QueueInv, TextInv, Handle PROVE TextInv'
<1>1. /\ fresh /\ fresh' = FALSE /\ UNCHANGED <<vars, which, events>> /\ InputTypes
      /\ IsRest(Unhandled, events)
  BY DEF Handle, TextInv, vars
<1>2. out' = out /\ dev' = dev /\ bufs' = bufs /\ desc' = desc
  BY <1>1 DEF vars, driver, device
<1>3. Queue' = Queue
  BY <1>1, QueueSame
<1>4. Unhandled # << >> /\ Head(Unhandled) = out /\ Unhandled' = Tail(Unhandled)
  <2>1. Unhandled' = Front' \o Queue' \o InFlight'
    BY DEF Unhandled, Front, InFlight
  <2>2. Front = <<out>> /\ Front' = << >> /\ InFlight' = InFlight
    BY <1>1, <1>2 DEF Front, InFlight
  <2>3. out \in All
    BY <1>1 DEF InputTypes
  <2>4. /\ <<out>> \o Queue \o InFlight # << >> /\ Head(<<out>> \o Queue \o InFlight) = out
        /\ Tail(<<out>> \o Queue \o InFlight) = << >> \o Queue \o InFlight
    BY <1>1, <2>3, UnhandledIs, Concats
  <2> QED BY <1>1, <1>3, <2>1, <2>2, <2>4, UnhandledIs
<1>5. /\ IsRest(Tail(Unhandled), events) /\ Handled \in Texts
      /\ Reading(FALSE, events)[Len(events) - Len(Tail(Unhandled))] = Type(Handled, out)
  <2>1. PICK u, s : u = Unhandled /\ s = events
    OBVIOUS
  <2>2. IsRest(u, s) /\ u # << >>
    BY <1>1, <1>4, <2>1
  <2>3. /\ IsRest(Tail(u), s)
        /\ Reading(FALSE, s)[Len(s) - Len(u)] \in Texts
        /\ Reading(FALSE, s)[Len(s) - Len(Tail(u))]
             = Type(Reading(FALSE, s)[Len(s) - Len(u)], Head(u))
    BY <2>2, RestTail
  <2> QED BY <1>4, <2>1, <2>3 DEF Handled
<1>6. Handled' = Type(Handled, out)
  BY <1>1, <1>4, <1>5 DEF Handled
<1>7. IsRest(Unhandled, events)'
  BY <1>1, <1>4, <1>5 DEF IsRest
<1>8. CASE which = "mouse" /\ UNCHANGED kb
  <2>1. InputTypes'
    BY <1>1, <1>2, <1>8 DEF InputTypes, kb
  <2>2. KeysTyped'
    BY <1>1, <1>8 DEF KeysTyped
  <2> QED BY <1>7, <2>1, <2>2 DEF TextInv
<1>9. CASE which = "keyboard" /\ handle_kbd_event(out)
  <2> DEFINE c == Char(shift_held, out)
             skip == out.type # "key" \/ out.code \in Shifts \/ c = 0
             full == (kb_head + 1) % KB_BUF_SIZE = kb_tail
  <2>1. /\ shift_held = Handled.shift /\ (~dropped => got \o Keys(kb_buf, kb_tail, kb_head) = Handled.text)
        /\ shift_held \in BOOLEAN /\ dropped \in BOOLEAN
        /\ kb_buf \in [Slots -> Chars] /\ kb_head \in Slots /\ kb_tail \in Slots /\ got \in Seq(Chars)
        /\ c \in Chars
    BY <1>1, <1>9, CharIs DEF TextInv, KeysTyped, InputTypes
  <2>2. /\ Handled'.shift = (IF out.type = "key" /\ out.code \in Shifts THEN out.value # 0
                             ELSE shift_held)
        /\ Handled'.text = IF skip THEN Handled.text ELSE Append(Handled.text, c)
    BY <1>5, <1>6, <2>1, TypeIs
  <2>3. /\ kb_tail' = kb_tail /\ got' = got
        /\ shift_held' = (IF out.type = "key" /\ out.code \in Shifts THEN out.value # 0
                          ELSE shift_held)
    BY <1>9, <2>1 DEF handle_kbd_event
  <2>4. CASE skip
    <3>1. kb_buf' = kb_buf /\ kb_head' = kb_head /\ dropped' = dropped
      BY <1>9, <2>1, <2>4 DEF handle_kbd_event, kb_push
    <3>2. InputTypes'
      BY <1>1, <1>2, <2>1, <2>3, <3>1 DEF InputTypes
    <3>3. KeysTyped'
      BY <2>1, <2>2, <2>3, <2>4, <3>1 DEF KeysTyped
    <3> QED BY <1>7, <3>2, <3>3 DEF TextInv
  <2>5. CASE ~skip /\ full
    <3>1. kb_buf' = kb_buf /\ kb_head' = kb_head /\ dropped' = TRUE
      BY <1>9, <2>1, <2>5 DEF handle_kbd_event, kb_push
    <3>2. InputTypes'
      BY <1>1, <1>2, <2>1, <2>3, <3>1 DEF InputTypes
    <3>3. KeysTyped'
      BY <2>1, <2>2, <2>3, <3>1 DEF KeysTyped
    <3> QED BY <1>7, <3>2, <3>3 DEF TextInv
  <2>6. CASE ~skip /\ ~full
    <3>1. /\ kb_buf' = [kb_buf EXCEPT ![kb_head] = c] /\ kb_head' = (kb_head + 1) % KB_BUF_SIZE
          /\ dropped' = dropped
      BY <1>9, <2>1, <2>6 DEF handle_kbd_event, kb_push
    <3> HIDE DEF c, skip
    <3>2. /\ Keys([kb_buf EXCEPT ![kb_head] = c], kb_tail, (kb_head + 1) % KB_BUF_SIZE)
               = Append(Keys(kb_buf, kb_tail, kb_head), c)
          /\ (kb_head + 1) % KB_BUF_SIZE \in Slots
      BY <2>1, <2>6, KeysPush
    <3>3. InputTypes'
      <4>1. kb_buf' \in [Slots -> Chars] /\ kb_head' \in Slots
        BY <2>1, <3>1, <3>2
      <4>2. kb_tail' \in Slots /\ got' \in Seq(Chars) /\ shift_held' \in BOOLEAN /\ dropped' \in BOOLEAN
        BY <2>1, <2>3, <3>1
      <4> QED BY <1>1, <1>2, <4>1, <4>2 DEF InputTypes
    <3>4. ~dropped => got \o Append(Keys(kb_buf, kb_tail, kb_head), c) = Append(Handled.text, c)
      <4>1. \A p, q \in Seq(Chars) : p \o Append(q, c) = Append(p \o q, c)
        BY <2>1
      <4>2. Keys(kb_buf, kb_tail, kb_head) \in Seq(Chars)
        BY <2>1, KeysSeq
      <4> QED BY <2>1, <4>1, <4>2
    <3>5. Keys(kb_buf', kb_tail', kb_head') = Append(Keys(kb_buf, kb_tail, kb_head), c)
      BY <2>3, <3>1, <3>2
    <3>6. Handled'.text = Append(Handled.text, c) /\ shift_held' = Handled'.shift
      BY <2>2, <2>3, <2>6
    <3>7. KeysTyped'
      BY <2>3, <3>1, <3>4, <3>5, <3>6 DEF KeysTyped
    <3> QED BY <1>7, <3>3, <3>7 DEF TextInv
  <2> QED BY <2>4, <2>5, <2>6
<1> QED BY <1>8, <1>9 DEF Handle

LEMMA TextGetchar == ASSUME QueueInv, TextInv, virtio_keyboard_getchar PROVE TextInv'
<1>1. /\ UNCHANGED <<vars, which, fresh, events, kb_buf, kb_head, shift_held, dropped>>
      /\ InputTypes
  BY DEF virtio_keyboard_getchar, TextInv
<1>2. Unhandled' = Unhandled /\ out' \in All
  BY <1>1, UnhandledSame
<1>3. CASE UNCHANGED <<got, kb_tail>>
  <2>1. UNCHANGED <<which, kb, events>> /\ fresh' \in BOOLEAN
    BY <1>1, <1>3 DEF kb, InputTypes
  <2> QED BY <1>2, <2>1, TextSame
<1>4. CASE /\ kb_tail # kb_head /\ got' = Append(got, kb_buf[kb_tail])
           /\ kb_tail' = (kb_tail + 1) % KB_BUF_SIZE
  <2>1. /\ kb_buf \in [Slots -> Chars] /\ kb_head \in Slots /\ kb_tail \in Slots /\ got \in Seq(Chars)
        /\ kb_buf[kb_tail] \in Chars
    BY <1>1 DEF InputTypes
  <2>2. /\ Keys(kb_buf, kb_tail, kb_head)
             = <<kb_buf[kb_tail]>> \o Keys(kb_buf, (kb_tail + 1) % KB_BUF_SIZE, kb_head)
        /\ (kb_tail + 1) % KB_BUF_SIZE \in Slots
    BY <1>4, <2>1, KeysPop
  <2>3. PICK t \in Slots : t = (kb_tail + 1) % KB_BUF_SIZE
    BY <2>2
  <2>4. Append(got, kb_buf[kb_tail]) \o Keys(kb_buf, t, kb_head)
          = got \o Keys(kb_buf, kb_tail, kb_head)
    <3>1. \A p, q \in Seq(Chars) : \A x \in Chars : Append(p, x) \o q = p \o (<<x>> \o q)
      OBVIOUS
    <3>2. Keys(kb_buf, t, kb_head) \in Seq(Chars)
      BY <2>1, KeysSeq
    <3> QED BY <2>1, <2>2, <2>3, <3>1, <3>2
  <2>5. Handled' = Handled
    BY <1>1, <1>2 DEF Handled
  <2>6. InputTypes'
    BY <1>1, <1>2, <1>4, <2>1, <2>2 DEF InputTypes
  <2>7. IsRest(Unhandled, events)'
    BY <1>1, <1>2 DEF TextInv, IsRest
  <2>8. KeysTyped'
    BY <1>1, <1>4, <2>3, <2>4, <2>5 DEF TextInv, KeysTyped
  <2> QED BY <2>6, <2>7, <2>8 DEF TextInv
<1> QED BY <1>3, <1>4 DEF virtio_keyboard_getchar

LEMMA TextPreserved == QueueInv /\ TextInv /\ [InputNext]_<<vars, input>> => TextInv'
<1> SUFFICES ASSUME QueueInv, TextInv, [InputNext]_<<vars, input>> PROVE TextInv'
  OBVIOUS
<1>1. InputTypes /\ fresh \in BOOLEAN
  BY DEF TextInv, InputTypes
<1>2. ASSUME SeedDesc \/ PublishRing \/ PublishIdx \/ PollTest \/ PollElem \/ DeviceElem \/ DeviceIdx
               \/ UNCHANGED vars,
             UNCHANGED <<which, fresh, kb, events>>
      PROVE  TextInv'
  BY <1>1, <1>2, UnhandledSame, TextSame
<1>3. CASE UNCHANGED <<vars, input>>
  BY <1>2, <1>3 DEF input
<1>4. CASE PollEvent
  <2>1. CASE Copy /\ ~fresh /\ fresh' = TRUE /\ UNCHANGED <<which, kb, mouse, events>>
    BY <1>1, <2>1, UnhandledSame, TextSame
  <2>2. CASE (SeedDesc \/ PollTest \/ PollElem) /\ UNCHANGED input
    BY <1>2, <2>2 DEF input
  <2> QED BY <1>4, <2>1, <2>2 DEF PollEvent
<1>5. CASE Recycle \/ Announce
  BY <1>2, <1>5 DEF Recycle, Announce, input
<1>6. CASE virtio_mouse_get_state
  BY <1>2, <1>6 DEF virtio_mouse_get_state
<1>7. ASSUME NEW e \in KeyEvents \cup MouseEvents, Happens(e) PROVE TextInv'
  BY <1>7, TextHappens, VirtioInputAssumption
<1> QED BY <1>3, <1>4, <1>5, <1>6, <1>7, TextHandle, TextGetchar DEF InputNext, IdleLoop

LEMMA TextIsExact == ASSUME TextInv PROVE TextExact
<1> SUFFICES ASSUME which = "keyboard", ~dropped
             PROVE  got \o Waiting \o Typed(shift_held, Unhandled) = Typed(FALSE, events)
  BY DEF TextExact
<1>1. PICK u, s : u = Unhandled /\ s = events
  OBVIOUS
<1>2. IsRest(u, s)
  BY <1>1 DEF TextInv
<1>3. LET r == Reading(FALSE, s)[Len(s) - Len(u)]
      IN  r \in Texts /\ Reading(FALSE, s)[Len(s)].text = r.text \o Typed(r.shift, u)
  BY <1>2, ReadingSplit
<1>4. Typed(FALSE, events) = Handled.text \o Typed(Handled.shift, Unhandled)
  BY <1>1, <1>3 DEF Handled, Typed
<1>5. Waiting = Keys(kb_buf, kb_tail, kb_head)
  BY DEF Waiting, Keys, KeyCount
<1> QED BY <1>4, <1>5 DEF TextInv, KeysTyped

\* As long as the key buffer has not overflowed, what getchar returned, what
\* waits in the buffer and what the events on their way will add is the text
\* that was typed (TextExact), for every sequence of events and every table of
\* characters: virtio_input.c applies shift to the keys pressed while it was held,
\* however late they are polled.
THEOREM TextSafe == InputSpec => []TextExact
<1>1. InputInit => TextInv
  BY TextInit
<1>2. TextInv => TextExact
  BY TextIsExact
<1> QED BY <1>1, <1>2, TextPreserved, QueueAlways, PTL DEF InputSpec
=============================================================================
