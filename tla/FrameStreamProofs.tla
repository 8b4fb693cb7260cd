-------------------------- MODULE FrameStreamProofs --------------------------
(***************************************************************************)
(* Proofs about one end of a connection (FrameStream), for rings, buffers, *)
(* frames and pools of any size and however the socket cuts the bytes: no  *)
(* slot of the pool is lost, shared or handed out unreset, the ring always *)
(* makes progress, and what is delivered is what was sent.                 *)
(***************************************************************************)
EXTENDS FrameStream, MessageCodec, SequenceTheorems, FiniteSetTheorems, WellFoundedInduction, TLAPS

----------------------------------------------------------------------------
(* Remainders *)

\* Multiples of c lie c apart.
LEMMA OneMultiple ==
    ASSUME NEW c \in Nat \ {0}, NEW p \in Int, NEW q \in Int, p < q
    PROVE  c * p + c <= c * q
<1>1. q - p - 1 \in Nat
  OBVIOUS
<1>2. c * (q - p - 1) >= 0
  BY <1>1
<1>3. c * (q - p - 1) = c * q - c * p - c
  OBVIOUS
<1> QED BY <1>2, <1>3

\* The remainder is what is left of a multiple.
LEMMA Remainder ==
    ASSUME NEW c \in Nat \ {0}, NEW a \in Nat
    PROVE  /\ a % c \in 0..(c - 1) /\ a \div c \in Nat
           /\ a = c * (a \div c) + (a % c)
<1>1. a % c \in 0..(c - 1)
  OBVIOUS
<1>2. a \div c \in Nat
  <2>1. a \div c \in Int
    OBVIOUS
  <2>2. c * (a \div c) <= a /\ a < c * (a \div c) + c
    OBVIOUS
  <2> DEFINE q == a \div c
  <2> HIDE DEF q
  <2>3. CASE q < 0
    <3>1. c * q + c <= c * 0
      BY <2>1, <2>3, OneMultiple DEF q
    <3> QED BY <2>2, <3>1 DEF q
  <2> QED BY <2>1, <2>3 DEF q
<1>3. a = c * (a \div c) + (a % c)
  OBVIOUS
<1> QED BY <1>1, <1>2, <1>3

LEMMA RemainderIs ==
    ASSUME NEW c \in Nat \ {0}, NEW q \in Int, NEW r \in 0..(c - 1), NEW a \in Nat, a = c * q + r
    PROVE  a % c = r
<1> DEFINE p == a \div c
           s == a % c
<1>1. s \in 0..(c - 1) /\ p \in Int /\ a = c * p + s
  BY ONLY Remainder, c \in Nat \ {0}, a \in Nat
<1>2. s \in 0..(c - 1) /\ p \in Int /\ c * p + s = c * q + r /\ c * p \in Int /\ c * q \in Int
  <2> HIDE DEF p, s
  <2> QED BY <1>1
<1> HIDE DEF p, s
<1>3. CASE p < q
  <2>1. c * p + c <= c * q
    BY <1>2, <1>3, OneMultiple
  <2> QED BY <1>2, <2>1
<1>4. CASE q < p
  <2>1. c * q + c <= c * p
    BY <1>2, <1>4, OneMultiple
  <2> QED BY <1>2, <2>1
<1>5. CASE p = q
  BY <1>2, <1>5
<1>6. s = r
  BY <1>2, <1>3, <1>4, <1>5
<1> QED BY <1>6 DEF s

\* A step of at most a round.
LEMMA RemainderStep ==
    ASSUME NEW c \in Nat \ {0}, NEW a \in Nat, NEW k \in 0..c
    PROVE  (a + k) % c = IF (a % c) + k < c THEN (a % c) + k ELSE (a % c) + k - c
<1> DEFINE q == a \div c
           r == a % c
<1>1. r \in 0..(c - 1) /\ q \in Nat /\ a = c * q + r /\ c * q \in Int
  <2>1. r \in 0..(c - 1) /\ q \in Nat /\ a = c * q + r
    BY Remainder
  <2> HIDE DEF q, r
  <2> QED BY <2>1
<1>2. c * (q + 1) = c * q + c
  BY <1>1
<1> HIDE DEF q, r
<1>3. CASE r + k < c
  <2>1. a + k = c * q + (r + k) /\ r + k \in 0..(c - 1) /\ a + k \in Nat
    BY <1>1, <1>3
  <2>2. (a + k) % c = r + k
    BY <1>1, <2>1, RemainderIs
  <2> QED BY <1>3, <2>2 DEF r
<1>4. CASE ~(r + k < c)
  <2>1. a + k = c * (q + 1) + (r + k - c) /\ r + k - c \in 0..(c - 1) /\ a + k \in Nat
    BY <1>1, <1>2, <1>4
  <2>2. (a + k) % c = r + k - c
    <3> DEFINE b == a + k
               s == r + k - c
               p == q + 1
    <3>1. b = c * p + s /\ s \in 0..(c - 1) /\ b \in Nat /\ p \in Int
      BY <1>1, <2>1
    <3> HIDE DEF b, s, p
    <3>2. b % c = s
      BY <3>1, RemainderIs
    <3> QED BY <3>2 DEF b, s
  <2> QED BY <1>4, <2>2 DEF r
<1> QED BY <1>3, <1>4

\* A modulus that is a multiple keeps remainders.
LEMMA RemainderOfRemainder ==
    ASSUME NEW c \in Nat \ {0}, NEW m \in Nat \ {0}, m % c = 0, NEW a \in Nat
    PROVE  (a % m) % c = a % c
<1> DEFINE q == a \div m
           r == a % m
           t == m \div c
           u == r \div c
           v == r % c
<1>1. r \in 0..(m - 1) /\ q \in Nat /\ a = m * q + r
  BY Remainder
<1>2. t \in Nat /\ m = c * t
  <2>1. t \in Nat /\ m = c * t + (m % c) /\ c * t \in Nat
    BY Remainder
  <2> QED BY <2>1
<1>3. u \in Nat /\ v \in 0..(c - 1) /\ r = c * u + v
  <2>1. r \in Nat
    BY <1>1
  <2> HIDE DEF r
  <2> QED BY <2>1, Remainder
<1> HIDE DEF q, r, t, u, v
<1>4. m * q = c * (t * q)
  BY <1>1, <1>2
<1>5. c * (t * q) + c * u = c * (t * q + u)
  BY <1>1, <1>2, <1>3
<1>6. t * q + u \in Int /\ c * (t * q) \in Int /\ c * u \in Int
  BY <1>1, <1>2, <1>3
<1>7. a = c * (t * q + u) + v
  BY <1>1, <1>3, <1>4, <1>5, <1>6
<1>8. a % c = v
  <2> DEFINE w == t * q + u
  <2>1. w \in Int /\ a = c * w + v
    BY <1>6, <1>7
  <2> HIDE DEF w
  <2> QED BY <1>3, <2>1, RemainderIs
<1> QED BY <1>8 DEF r, v

----------------------------------------------------------------------------
(* Induction over numbers *)

LEMMA Least == ASSUME NEW S \in SUBSET Nat, S # {} PROVE \E n \in S : \A m \in S : n <= m
<1> DEFINE R == OpToRel(<, Nat)
<1>1. IsWellFoundedOn(R, Nat)
  BY NatLessThanWellFounded
<1> HIDE DEF R
<1>2. PICK n \in S : \A m \in S : ~ (<<m, n>> \in R)
  BY <1>1, WFMin
<1>3. \A m, k \in Nat : m < k => <<m, k>> \in R
  BY DEF R, OpToRel
<1>4. ASSUME NEW m \in S PROVE n <= m
  <2>1. ~ (m < n)
    BY <1>2, <1>3
  <2> QED BY <2>1
<1> QED BY <1>4

LEMMA SetInduction ==
  ASSUME NEW S, 0 \in S, \A n \in Nat : n \in S => n + 1 \in S
  PROVE Nat \subseteq S
<1>1. SUFFICES ASSUME NEW k \in Nat, k \notin S PROVE FALSE
  OBVIOUS
<1> DEFINE T == {n \in Nat : n \notin S}
<1>2. T \in SUBSET Nat /\ T # {}
  BY <1>1
<1>3. PICK n \in T : \A m \in T : n <= m
  BY <1>2, Least
<1>4. n # 0 /\ n - 1 \in Nat
  OBVIOUS
<1>5. n - 1 \in S
  BY <1>3, <1>4
<1> QED BY <1>4, <1>5

----------------------------------------------------------------------------
(* The constants *)

LEMMA FrameParameters ==
    /\ MaxPayload \in Nat /\ Magic \in Nat /\ MaxPayload < Magic /\ SocketRoom \in Nat
    /\ MaxSlots \in Nat /\ ChunkSize \in Nat \ {0}
    /\ BufferCapacity = HeaderSize + MaxPayload /\ HeaderSize = 2
    /\ Capacity \in Nat \ {0} /\ Capacity >= HeaderSize + MaxPayload
    /\ SeqModulus \in Nat \ {0} /\ SeqModulus > Capacity /\ SeqModulus % Capacity = 0
BY FrameConstants DEF FrameConstants, MaxFrame, HeaderSize

----------------------------------------------------------------------------
(* The ring *)

\* The bytes the ring holds.
Contents(r) == Peeked(r, RingSize(r))

\* Where the byte with this number, counted from the first one that is not consumed, lies.
Place(r, i) == (r.read_seq + i) % Capacity

WellFormed(r) == r \in Ring(Byte) /\ RingSize(r) <= Capacity

LEMMA MinOfTwo ==
    ASSUME NEW a \in Int, NEW b \in Int
    PROVE  Min({a, b}) = IF a <= b THEN a ELSE b
<1>1. CASE a <= b
  <2>1. a \in {a, b} /\ \A y \in {a, b} : a <= y
    BY <1>1
  <2>2. \A x \in {a, b} : (\A y \in {a, b} : x <= y) => x = a
    BY <1>1
  <2> QED BY <1>1, <2>1, <2>2 DEF Min
<1>2. CASE ~(a <= b)
  <2>1. b \in {a, b} /\ \A y \in {a, b} : b <= y
    BY <1>2
  <2>2. \A x \in {a, b} : (\A y \in {a, b} : x <= y) => x = b
    BY <1>2
  <2> QED BY <1>2, <2>1, <2>2 DEF Min
<1> QED BY <1>1, <1>2

LEMMA SeqOfFunction ==
    ASSUME NEW n \in Nat, NEW S, NEW f \in [1..n -> S]
    PROVE  f \in Seq(S) /\ Len(f) = n
OBVIOUS

LEMMA RingTypes ==
    ASSUME NEW r, r \in Ring(Byte)
    PROVE  /\ r.read_seq \in 0..(SeqModulus - 1) /\ r.write_seq \in 0..(SeqModulus - 1)
           /\ r.read_seq \in Nat /\ r.write_seq \in Nat
           /\ r.storage \in [0..(Capacity - 1) -> Byte]
           /\ RingSize(r) \in Nat /\ RingSize(r) < SeqModulus
           /\ r.write_seq = (r.read_seq + RingSize(r)) % SeqModulus
<1> DEFINE a == r.read_seq
           b == r.write_seq
           m == SeqModulus
<1>1. a \in 0..(m - 1) /\ b \in 0..(m - 1) /\ r.storage \in [0..(Capacity - 1) -> Byte]
  BY DEF Ring
<1>2. m \in Nat \ {0} /\ RingSize(r) = (b - a) % m
  BY FrameParameters DEF RingSize
<1> HIDE DEF a, b, m
<1>3. /\ RingSize(r) \in Nat /\ RingSize(r) < m
      /\ b = (a + RingSize(r)) % m
  <2>1. CASE b >= a
    <3>1. b - a = m * 0 + (b - a) /\ b - a \in 0..(m - 1) /\ b - a \in Nat /\ a + (b - a) = b
      BY <1>1, <1>2, <2>1
    <3>2. RingSize(r) = b - a
      BY <1>2, <3>1, RemainderIs
    <3>3. b % m = b
      BY <1>1, <1>2, RemainderIs
    <3>4. a + RingSize(r) = b /\ RingSize(r) \in 0..(m - 1)
      BY <3>1, <3>2
    <3> QED BY <1>2, <3>3, <3>4
  <2>2. CASE b < a
    <3> DEFINE d == b - a + m
    <3>1. d \in 0..(m - 1) /\ d \in Nat /\ b - a = d - m /\ a + d = b + m
      BY <1>1, <1>2, <2>2
    <3>2. RingSize(r) = d
      BY <1>1, <1>2, <2>2
    <3>3. b + m = m * 1 + b /\ b + m \in Nat
      BY <1>1, <1>2
    <3>4. (b + m) % m = b
      BY <1>1, <1>2, <3>3, RemainderIs
    <3>5. a + RingSize(r) = b + m /\ RingSize(r) \in 0..(m - 1)
      BY <3>1, <3>2
    <3> QED BY <1>2, <3>4, <3>5
  <2> QED BY <1>1, <1>2, <2>1, <2>2
<1>4. a \in Nat /\ b \in Nat
  BY <1>1, <1>2
<1> QED BY <1>1, <1>3, <1>4 DEF a, b, m

\* A byte is read where its number places it.
LEMMA PeekedBytes ==
    ASSUME NEW r, r \in Ring(Byte), NEW n \in 0..Capacity
    PROVE  /\ Peeked(r, n) \in Seq(Byte) /\ Len(Peeked(r, n)) = n
           /\ \A i \in 1..n : Peeked(r, n)[i] = r.storage[Place(r, i - 1)]
<1> DEFINE idx == r.read_seq % Capacity
           first == Min({n, Capacity - idx})
<1>1. /\ r.read_seq \in Nat /\ Capacity \in Nat \ {0} /\ idx \in 0..(Capacity - 1)
      /\ r.storage \in [0..(Capacity - 1) -> Byte]
  BY RingTypes, FrameParameters, Remainder
<1>2. first = IF n <= Capacity - idx THEN n ELSE Capacity - idx
  <2> HIDE DEF idx
  <2>1. n \in Int /\ Capacity - idx \in Int
    BY <1>1
  <2> QED BY <2>1, MinOfTwo
<1>3. Peeked(r, n) = [i \in 1..n |-> IF i <= first THEN r.storage[idx + i - 1]
                                                   ELSE r.storage[i - first - 1]]
  BY DEF Peeked, IndexOf
<1> HIDE DEF first
<1>4. ASSUME NEW i \in 1..n
      PROVE  Peeked(r, n)[i] = r.storage[Place(r, i - 1)] /\ Place(r, i - 1) \in 0..(Capacity - 1)
  <2>1. i - 1 \in 0..Capacity /\ i <= Capacity
    BY <1>1
  <2>2. Place(r, i - 1) = IF idx + (i - 1) < Capacity THEN idx + (i - 1)
                                                      ELSE idx + (i - 1) - Capacity
    BY <1>1, <2>1, RemainderStep DEF Place
  <2> HIDE DEF idx
  <2>3. CASE i <= first
    <3>1. idx + (i - 1) < Capacity /\ idx + (i - 1) = idx + i - 1
      BY <1>1, <1>2, <2>3
    <3> QED BY <1>1, <1>3, <2>1, <2>2, <2>3, <3>1
  <2>4. CASE ~(i <= first)
    <3>1. first = Capacity - idx /\ ~(idx + (i - 1) < Capacity)
      BY <1>1, <1>2, <2>4
    <3>2. i - first - 1 = idx + (i - 1) - Capacity
      BY <1>1, <3>1
    <3> QED BY <1>1, <1>3, <2>1, <2>2, <2>4, <3>1, <3>2
  <2> QED BY <2>3, <2>4
<1>5. \A i \in 1..n : Peeked(r, n)[i] \in Byte
  BY <1>1, <1>4
<1>6. DOMAIN Peeked(r, n) = 1..n /\ Peeked(r, n) = [i \in 1..n |-> Peeked(r, n)[i]]
  BY <1>3
<1>7. Peeked(r, n) \in [1..n -> Byte]
  BY <1>5, <1>6
<1>8. Peeked(r, n) \in Seq(Byte) /\ Len(Peeked(r, n)) = n
  BY <1>7, n \in Nat, SeqOfFunction
<1> QED BY <1>4, <1>8

\* Remainders of sums.
LEMMA RemainderOfSum ==
    ASSUME NEW c \in Nat \ {0}, NEW a \in Nat, NEW k \in 0..c
    PROVE  ((a % c) + k) % c = (a + k) % c
<1> DEFINE r == a % c
<1>1. r \in 0..(c - 1) /\ r \in Nat
  BY Remainder
<1>2. (a + k) % c = IF r + k < c THEN r + k ELSE r + k - c
  BY RemainderStep
<1> HIDE DEF r
<1>3. r % c = r
  BY <1>1, RemainderIs
<1>4. (r + k) % c = IF r + k < c THEN r + k ELSE r + k - c
  BY <1>1, <1>3, RemainderStep
<1> QED BY <1>2, <1>4 DEF r

\* Going on from a position that wrapped.
LEMMA PlaceWraps ==
    ASSUME NEW a \in Nat, NEW i \in 0..Capacity
    PROVE  ((a % SeqModulus) + i) % Capacity = (a + i) % Capacity
<1> DEFINE w == a % SeqModulus
<1>1. /\ Capacity \in Nat \ {0} /\ SeqModulus \in Nat \ {0} /\ SeqModulus % Capacity = 0
  BY FrameParameters
<1>2. w \in Nat /\ w % Capacity = a % Capacity
  <2>1. w \in 0..(SeqModulus - 1)
    BY <1>1, Remainder
  <2>2. w % Capacity = a % Capacity
    BY <1>1, RemainderOfRemainder
  <2> QED BY <1>1, <2>1, <2>2
<1> HIDE DEF w
<1>3. ((w % Capacity) + i) % Capacity = (w + i) % Capacity
  BY <1>1, <1>2, RemainderOfSum
<1>4. ((a % Capacity) + i) % Capacity = (a + i) % Capacity
  BY <1>1, RemainderOfSum
<1> QED BY <1>2, <1>3, <1>4 DEF w

\* The positions tell the size.
LEMMA SizeIs ==
    ASSUME NEW r, r \in Ring(Byte), NEW k \in 0..(SeqModulus - 1),
           r.write_seq = (r.read_seq + k) % SeqModulus
    PROVE  RingSize(r) = k
<1> DEFINE a == r.read_seq
           m == SeqModulus
           s == RingSize(r)
<1>1. m \in Nat \ {0} /\ a \in 0..(m - 1) /\ s \in 0..(m - 1) /\ (a + s) % m = (a + k) % m
  BY FrameParameters, RingTypes
<1> HIDE DEF a, m, s
<1>2. k \in 0..(m - 1)
  BY DEF m
<1>3. a \in Nat /\ a % m = a /\ k \in 0..m /\ s \in 0..m
  BY <1>1, <1>2, RemainderIs
<1>4. /\ (a + s) % m = IF a + s < m THEN a + s ELSE a + s - m
      /\ (a + k) % m = IF a + k < m THEN a + k ELSE a + k - m
  BY <1>1, <1>3, RemainderStep
<1>5. s = k
  BY <1>1, <1>2, <1>4
<1> QED BY <1>5 DEF s

\* What is consumed was at the front.
LEMMA ConsumedContents ==
    ASSUME NEW r, WellFormed(r), NEW n \in 0..RingSize(r)
    PROVE  /\ WellFormed(Consumed(r, n)) /\ RingSize(Consumed(r, n)) = RingSize(r) - n
           /\ Contents(Consumed(r, n)) \in Seq(Byte)
           /\ Len(Contents(Consumed(r, n))) = RingSize(r) - n
           /\ \A i \in 1..(RingSize(r) - n) : Contents(Consumed(r, n))[i] = Contents(r)[n + i]
<1> DEFINE m == SeqModulus
           c == Consumed(r, n)
           s == RingSize(r)
<1>1. /\ r \in Ring(Byte) /\ s \in Nat /\ s <= Capacity /\ s < m /\ m \in Nat \ {0}
      /\ Capacity \in Nat \ {0} /\ r.read_seq \in Nat /\ n \in Nat /\ n <= s
      /\ r.write_seq = (r.read_seq + s) % m
  BY RingTypes, FrameParameters DEF WellFormed
<1>2. /\ c \in Ring(Byte) /\ c.read_seq = (r.read_seq + n) % m /\ c.write_seq = r.write_seq
      /\ c.storage = r.storage
  <2>1. (r.read_seq + n) % m \in 0..(m - 1)
    <3>1. r.read_seq + n \in Nat
      BY <1>1
    <3> HIDE DEF m
    <3> QED BY <1>1, <3>1, Remainder
  <2> QED BY <1>1, <2>1 DEF Consumed, Ring
<1> HIDE DEF c, s
<1>3. RingSize(c) = s - n
  <2>1. r.read_seq + n \in Nat /\ s - n \in 0..m /\ s - n \in 0..(SeqModulus - 1)
        /\ (r.read_seq + n) + (s - n) = r.read_seq + s
    BY <1>1
  <2>2. (((r.read_seq + n) % m) + (s - n)) % m = ((r.read_seq + n) + (s - n)) % m
    <3> DEFINE x == r.read_seq + n
               y == s - n
    <3>1. x \in Nat /\ y \in 0..m
      BY <2>1
    <3> HIDE DEF m, x, y
    <3>2. ((x % m) + y) % m = (x + y) % m
      BY <1>1, <3>1, RemainderOfSum
    <3> QED BY <3>2 DEF x, y
  <2> QED BY <1>1, <1>2, <2>1, <2>2, SizeIs
<1>4. s - n \in 0..Capacity /\ s \in 0..Capacity
  BY <1>1
<1>5. /\ Contents(c) \in Seq(Byte) /\ Len(Contents(c)) = s - n
      /\ \A i \in 1..(s - n) : Contents(c)[i] = c.storage[Place(c, i - 1)]
      /\ \A i \in 1..s : Contents(r)[i] = r.storage[Place(r, i - 1)]
  <2>1. /\ Peeked(c, s - n) \in Seq(Byte) /\ Len(Peeked(c, s - n)) = s - n
        /\ \A i \in 1..(s - n) : Peeked(c, s - n)[i] = c.storage[Place(c, i - 1)]
    BY <1>2, <1>4, PeekedBytes
  <2>2. \A i \in 1..s : Peeked(r, s)[i] = r.storage[Place(r, i - 1)]
    BY <1>1, <1>4, PeekedBytes
  <2> QED BY <1>3, <2>1, <2>2 DEF Contents, s
<1>6. ASSUME NEW i \in 1..(s - n) PROVE Contents(c)[i] = Contents(r)[n + i]
  <2>1. /\ n + i \in 1..s /\ i - 1 \in 0..Capacity /\ r.read_seq + n \in Nat
        /\ (r.read_seq + n) + (i - 1) = r.read_seq + (n + i - 1)
    BY <1>1
  <2>2. Place(c, i - 1) = Place(r, n + i - 1)
    BY <1>2, <2>1, PlaceWraps DEF Place
  <2> QED BY <1>2, <1>5, <2>1, <2>2
<1> QED BY <1>1, <1>2, <1>3, <1>4, <1>5, <1>6 DEF WellFormed, c, s

\* What is committed comes after it.
LEMMA CommittedContents ==
    ASSUME NEW r, WellFormed(r), NEW more \in Seq(Byte), Len(more) <= ContiguousWritable(r)
    PROVE  /\ WellFormed(Committed(r, more))
           /\ Contents(Committed(r, more)) = Contents(r) \o more
<1> DEFINE m == SeqModulus
           n == Len(more)
           s == RingSize(r)
           base == r.read_seq
           start == IndexOf(r.write_seq)
           c == Committed(r, more)
<1>1. /\ r \in Ring(Byte) /\ s \in Nat /\ s <= Capacity /\ s < m /\ m \in Nat \ {0}
      /\ Capacity \in Nat \ {0} /\ base \in Nat /\ n \in Nat /\ Capacity < m
      /\ r.write_seq = (base + s) % m /\ r.write_seq \in Nat
      /\ r.storage \in [0..(Capacity - 1) -> Byte]
  BY RingTypes, FrameParameters DEF WellFormed
<1>2. start \in 0..(Capacity - 1) /\ start = Place(r, s)
  <2>1. start \in 0..(Capacity - 1)
    BY <1>1, Remainder DEF IndexOf
  <2>2. base + s \in Nat /\ 0 \in 0..Capacity
    <3> HIDE DEF base, s
    <3> QED BY <1>1
  <2>3. (((base + s) % m) + 0) % Capacity = (base + s + 0) % Capacity
    BY <2>2, PlaceWraps
  <2>4. (base + s) % m \in Int
    <3> DEFINE x == base + s
    <3>1. x \in Nat
      BY <2>2
    <3> HIDE DEF x
    <3>2. x % m \in 0..(m - 1)
      BY <1>1, <3>1, Remainder
    <3> QED BY <1>1, <3>2 DEF x
  <2>5. ((base + s) % m) + 0 = (base + s) % m /\ base + s + 0 = base + s
    BY <2>2, <2>4
  <2> QED BY <1>1, <2>1, <2>3, <2>5 DEF IndexOf, Place
<1>3. n <= Capacity - s /\ n <= Capacity - start
  <2>1. Capacity - s \in Int /\ Capacity - start \in Int
    BY <1>1, <1>2
  <2>2. ContiguousWritable(r) = Min({Capacity - s, Capacity - start})
    BY DEF ContiguousWritable, WritableSize
  <2> HIDE DEF s, start, n
  <2>3. n <= (IF Capacity - s <= Capacity - start THEN Capacity - s ELSE Capacity - start)
    BY <2>1, <2>2, MinOfTwo DEF n
  <2> QED BY <1>1, <2>1, <2>3
<1>4. /\ c.read_seq = base /\ c.write_seq = (r.write_seq + n) % m
      /\ c.storage = [i \in 0..(Capacity - 1) |->
                        IF i - start \in 0..(n - 1) THEN more[i - start + 1] ELSE r.storage[i]]
      /\ c = [read_seq |-> base, write_seq |-> c.write_seq, storage |-> c.storage]
  <2> DEFINE bytesOf == [i \in 0..(Capacity - 1) |->
                           IF i - start \in 0..(n - 1) THEN more[i - start + 1] ELSE r.storage[i]]
  <2>1. DOMAIN r.storage = 0..(Capacity - 1)
    BY <1>1
  <2>2. c = [r EXCEPT !.write_seq = (r.write_seq + n) % m, !.storage = bytesOf]
    BY <2>1 DEF Committed
  <2> HIDE DEF bytesOf, c
  <2>3. c = [read_seq |-> r.read_seq, write_seq |-> (r.write_seq + n) % m, storage |-> bytesOf]
    BY <1>1, <2>2 DEF Ring
  <2> QED BY <2>3 DEF bytesOf
<1> HIDE DEF c, start, n, s, base
<1>5. c \in Ring(Byte)
  <2>1. c.write_seq \in 0..(m - 1)
    <3>1. r.write_seq + n \in Nat
      BY <1>1
    <3> HIDE DEF m
    <3> QED BY <1>1, <1>4, <3>1, Remainder
  <2>2. \A i \in 0..(Capacity - 1) : c.storage[i] \in Byte
    <3> SUFFICES ASSUME NEW i \in 0..(Capacity - 1) PROVE c.storage[i] \in Byte
      OBVIOUS
    <3>1. CASE i - start \in 0..(n - 1)
      <4>1. i - start + 1 \in 1..Len(more)
        <5>1. n \in Nat /\ start \in Int
          BY <1>1, <1>2
        <5>2. i - start + 1 \in 1..n
          BY <3>1, <5>1
        <5> QED BY <5>2 DEF n
      <4> QED BY <1>4, <3>1, <4>1
    <3>2. CASE i - start \notin 0..(n - 1)
      BY <1>1, <1>4, <3>2
    <3> QED BY <3>1, <3>2
  <2>3. c.storage \in [0..(Capacity - 1) -> Byte]
    BY <1>4, <2>2
  <2>4. base \in 0..(m - 1)
    BY <1>1, RingTypes DEF base
  <2> QED BY <1>4, <2>1, <2>3, <2>4 DEF Ring
<1>6. RingSize(c) = s + n
  <2>1. base + s \in Nat /\ n \in 0..m /\ s + n \in 0..(SeqModulus - 1) /\ base + s + n = base + (s + n)
    <3>1. /\ base \in Nat /\ s \in Nat /\ n \in Nat /\ Capacity \in Nat /\ m \in Nat /\ Capacity < m
          /\ n <= Capacity - s /\ m = SeqModulus
      BY <1>1, <1>3
    <3> HIDE DEF base, s, n, m, start, c
    <3> QED BY <3>1
  <2>2. (((base + s) % m) + n) % m = (base + (s + n)) % m
    <3> DEFINE x == base + s
    <3>1. x \in Nat /\ n \in 0..m /\ x + n = base + (s + n) /\ m \in Nat \ {0}
      BY <1>1, <2>1
    <3> HIDE DEF m, x, n
    <3>2. ((x % m) + n) % m = (x + n) % m
      BY ONLY <3>1, RemainderOfSum
    <3> QED BY <3>1, <3>2 DEF x
  <2> QED BY <1>1, <1>4, <1>5, <2>1, <2>2, SizeIs
<1>7. s + n \in 0..Capacity /\ s \in 0..Capacity
  BY <1>1, <1>3
<1>8. /\ Contents(c) \in Seq(Byte) /\ Len(Contents(c)) = s + n
      /\ \A i \in 1..(s + n) : Contents(c)[i] = c.storage[Place(c, i - 1)]
      /\ Contents(r) \in Seq(Byte) /\ Len(Contents(r)) = s
      /\ \A i \in 1..s : Contents(r)[i] = r.storage[Place(r, i - 1)]
  BY <1>1, <1>5, <1>6, <1>7, PeekedBytes DEF Contents, s
<1>9. \A i \in 0..Capacity : Place(c, i) = Place(r, i) /\ Place(r, i) = (base + i) % Capacity
  BY <1>4 DEF Place, base
<1>10. ASSUME NEW i \in 1..s PROVE Contents(c)[i] = Contents(r)[i]
  <2> DEFINE x == Place(r, i - 1)
             d == s - (i - 1)
  <2>1. i - 1 \in 0..Capacity /\ base + (i - 1) \in Nat /\ d \in 1..Capacity
        /\ base + (i - 1) + d = base + s /\ i \in 1..(s + n)
    <3>1. base \in Nat /\ s \in Nat /\ n \in Nat /\ Capacity \in Nat /\ s <= Capacity /\ i \in 1..s
      BY <1>1
    <3> HIDE DEF base, s, n, m, start, c, x
    <3> QED BY <3>1
  <2>2. x \in 0..(Capacity - 1) /\ x = (base + (i - 1)) % Capacity
    BY <1>1, <1>9, <2>1, Remainder
  <2>3. start = IF x + d < Capacity THEN x + d ELSE x + d - Capacity
    <3>1. start = (base + s) % Capacity
      BY <1>2, <1>7, <1>9
    <3> DEFINE y == base + (i - 1)
    <3>2. y \in Nat /\ d \in 0..Capacity /\ start = (y + d) % Capacity /\ x = y % Capacity
      BY <2>1, <2>2, <3>1
    <3> HIDE DEF d, x, y
    <3> QED BY <1>1, <3>2, RemainderStep
  <2> HIDE DEF x
  <2>4. x - start \notin 0..(n - 1)
    <3>1. /\ n \in Nat /\ s \in Nat /\ d \in 1..s /\ n <= Capacity - s /\ n <= Capacity - start
          /\ x \in Nat /\ x < Capacity /\ start \in Nat /\ Capacity \in Nat
      <4>1. n \in Nat /\ s \in Nat /\ Capacity \in Nat /\ n <= Capacity - s /\ n <= Capacity - start
        BY <1>1, <1>3
      <4>2. x \in Nat /\ x < Capacity
        BY <2>2, <4>1
      <4>3. start \in Nat
        BY <1>2, <4>1
      <4>4. d \in 1..s
        <5> HIDE DEF s
        <5> QED BY <4>1
      <4> QED BY <4>1, <4>2, <4>3, <4>4
    <3> HIDE DEF d, n, s, start
    <3>2. CASE x + d < Capacity
      <4>1. start = x + d
        BY <2>3, <3>2
      <4> QED BY ONLY <3>1, <4>1
    <3>3. CASE ~(x + d < Capacity)
      <4>1. start = x + d - Capacity
        BY <2>3, <3>3
      <4> QED BY ONLY <3>1, <4>1
    <3> QED BY <3>2, <3>3
  <2>5. c.storage[x] = r.storage[x]
    BY <1>4, <2>2, <2>4
  <2> QED BY <1>8, <1>9, <2>1, <2>5 DEF x
<1>11. ASSUME NEW i \in 1..n PROVE Contents(c)[s + i] = more[i]
  <2>1. /\ s + i \in 1..(s + n) /\ (s + i) - 1 \in 0..Capacity /\ base + s \in Nat
        /\ i - 1 \in 0..Capacity /\ base + ((s + i) - 1) = (base + s) + (i - 1)
        /\ start + (i - 1) < Capacity
    <3>1. /\ s \in Nat /\ n \in Nat /\ base \in Nat /\ Capacity \in Nat /\ start \in Nat
          /\ n <= Capacity - s /\ n <= Capacity - start
      BY <1>1, <1>2, <1>3
    <3> HIDE DEF s, n, base, start
    <3>2. i \in Nat /\ 1 <= i /\ i <= n
      BY <3>1
    <3> QED BY ONLY <3>1, <3>2
  <2>2. start = (base + s) % Capacity
    BY <1>2, <1>7, <1>9
  <2>3. Place(c, (s + i) - 1) = start + (i - 1)
    BY <1>1, <1>9, <2>1, <2>2, RemainderStep
  <2>4. /\ start + (i - 1) \in 0..(Capacity - 1) /\ (start + (i - 1)) - start \in 0..(n - 1)
        /\ (start + (i - 1)) - start + 1 = i
    BY <1>1, <1>2, <2>1
  <2>5. c.storage[start + (i - 1)] = more[i]
    BY <1>4, <2>4
  <2> QED BY <1>8, <2>1, <2>3, <2>5
<1>12. Contents(c) = Contents(r) \o more
  <2>1. /\ Contents(r) \o more \in Seq(Byte) /\ Len(Contents(r) \o more) = s + n
        /\ \A i \in 1..(s + n) : (Contents(r) \o more)[i] =
             IF i <= s THEN Contents(r)[i] ELSE more[i - s]
    BY <1>8, ConcatProperties DEF n
  <2>2. ASSUME NEW i \in 1..(s + n) PROVE Contents(c)[i] = (Contents(r) \o more)[i]
    <3>1. CASE i <= s
      <4>1. i \in 1..s
        BY <3>1
      <4> QED BY <1>10, <2>1, <3>1, <4>1
    <3>2. CASE ~(i <= s)
      <4>1. i - s \in 1..n /\ s + (i - s) = i
        BY <1>1, <3>2
      <4> QED BY <1>11, <2>1, <3>2, <4>1
    <3> QED BY <3>1, <3>2
  <2> QED BY <1>8, <2>1, <2>2, SeqEqual
<1> QED BY <1>5, <1>6, <1>7, <1>12 DEF WellFormed, c

----------------------------------------------------------------------------
(* Streams *)

Joins(ss, n, j) == j = [i \in 1..n |-> IF i = 1 THEN ss[i] ELSE j[i - 1] \o ss[i]]

LEMMA JoinExists ==
    ASSUME NEW ss
    PROVE  \A n \in Nat : n # 0 => \E j : Joins(ss, n, j)
<1> DEFINE S == {n \in Nat : n # 0 => \E j : Joins(ss, n, j)}
<1>1. 0 \in S
  OBVIOUS
<1>2. ASSUME NEW n \in Nat, n \in S PROVE n + 1 \in S
  <2>1. CASE n = 0
    <3> DEFINE k == [i \in 1..1 |-> ss[i]]
    <3>1. Joins(ss, 1, k)
      BY DEF Joins
    <3> HIDE DEF k
    <3>2. n + 1 = 1 /\ n + 1 \in Nat
      BY <2>1
    <3> QED BY <3>1, <3>2
  <2>2. CASE n # 0
    <3>1. PICK j : Joins(ss, n, j)
      BY <1>2, <2>2
    <3> DEFINE k == [i \in 1..(n + 1) |-> IF i = n + 1 THEN j[n] \o ss[n + 1] ELSE j[i]]
    <3>2. ASSUME NEW i \in 1..(n + 1)
          PROVE  k[i] = IF i = 1 THEN ss[i] ELSE k[i - 1] \o ss[i]
      <4>1. CASE i = n + 1
        <5>1. i # 1 /\ i - 1 = n /\ n \in 1..(n + 1) /\ n # n + 1
          BY <2>2, <4>1
        <5>2. k[n] = j[n]
          BY <5>1
        <5>3. k[i] = j[n] \o ss[n + 1]
          BY <4>1
        <5> HIDE DEF k
        <5> QED BY <4>1, <5>1, <5>2, <5>3
      <4>2. CASE i # n + 1
        <5>1. i \in 1..n /\ (i # 1 => i - 1 \in 1..n)
          BY <4>2
        <5>2. j[i] = IF i = 1 THEN ss[i] ELSE j[i - 1] \o ss[i]
          BY <3>1, <5>1 DEF Joins
        <5>3. k[i] = j[i] /\ (i # 1 => k[i - 1] = j[i - 1])
          BY <4>2, <5>1
        <5> HIDE DEF k
        <5> QED BY <5>2, <5>3
      <4> QED BY <4>1, <4>2
    <3>3. k = [i \in 1..(n + 1) |-> k[i]]
      OBVIOUS
    <3> HIDE DEF k
    <3>4. Joins(ss, n + 1, k)
      BY <3>2, <3>3 DEF Joins
    <3>5. n + 1 \in Nat
      OBVIOUS
    <3> QED BY <3>4, <3>5
  <2> QED BY <2>1, <2>2
<1> HIDE DEF S
<1>3. Nat \subseteq S
  BY <1>1, <1>2, SetInduction
<1> QED BY <1>3 DEF S

\* The sequences of ss are joined one after the other.
LEMMA JoinIs ==
    ASSUME NEW ss, NEW n \in Nat, Len(ss) = n, n # 0
    PROVE  \E j : Joins(ss, n, j) /\ FlattenSeq(ss) = j[n]
<1> DEFINE flatten == CHOOSE j :
             j = [i \in 1..n |-> IF i = 1 THEN ss[i] ELSE j[i - 1] \o ss[i]]
<1>1. flatten = [i \in 1..n |-> IF i = 1 THEN ss[i] ELSE flatten[i - 1] \o ss[i]]
  <2>1. \E j : j = [i \in 1..n |-> IF i = 1 THEN ss[i] ELSE j[i - 1] \o ss[i]]
    BY JoinExists DEF Joins
  <2> QED BY <2>1, Zenon
<1>2. FlattenSeq(ss) = flatten[n]
  BY DEF FlattenSeq
<1> HIDE DEF flatten
<1> QED BY <1>1, <1>2 DEF Joins

LEMMA JoinEmpty == ASSUME NEW ss, ss = <<>> PROVE FlattenSeq(ss) = <<>>
BY DEF FlattenSeq

\* One more sequence is joined at the end.
LEMMA JoinAppend ==
    ASSUME NEW T, NEW ss \in Seq(Seq(T)), NEW x \in Seq(T)
    PROVE  FlattenSeq(ss) \in Seq(T) /\ FlattenSeq(Append(ss, x)) = FlattenSeq(ss) \o x
<1> DEFINE n == Len(ss)
           tt == Append(ss, x)
<1>1. /\ n \in Nat /\ Len(tt) = n + 1 /\ tt[n + 1] = x
      /\ \A i \in 1..n : tt[i] = ss[i] /\ ss[i] \in Seq(T)
  OBVIOUS
<1>2. CASE n = 0
  <2>1. FlattenSeq(ss) = <<>>
    <3>1. ss = <<>>
      BY <1>2
    <3> QED BY <3>1, JoinEmpty
  <2>2. FlattenSeq(tt) = x
    <3> HIDE DEF tt
    <3>1. Len(tt) = 1
      BY <1>1, <1>2
    <3>2. PICK k : Joins(tt, 1, k) /\ FlattenSeq(tt) = k[1]
      <4>1. 1 \in Nat /\ 1 # 0
        OBVIOUS
      <4> QED BY <3>1, <4>1, JoinIs
    <3>3. k[1] = tt[1] /\ tt[1] = x
      BY <1>1, <1>2, <3>2 DEF Joins
    <3> QED BY <3>2, <3>3
  <2> QED BY <2>1, <2>2
<1>3. CASE n # 0
  <2> HIDE DEF n, tt
  <2>1. PICK j : Joins(ss, n, j) /\ FlattenSeq(ss) = j[n]
    BY <1>1, <1>3, JoinIs DEF n
  <2>2. PICK k : Joins(tt, n + 1, k) /\ FlattenSeq(tt) = k[n + 1]
    <3>1. n + 1 \in Nat /\ n + 1 # 0
      BY <1>1
    <3> QED BY <1>1, <3>1, JoinIs
  <2>j. ASSUME NEW i \in 1..n PROVE j[i] = IF i = 1 THEN ss[i] ELSE j[i - 1] \o ss[i]
    BY <2>1 DEF Joins
  <2>k. ASSUME NEW i \in 1..(n + 1) PROVE k[i] = IF i = 1 THEN tt[i] ELSE k[i - 1] \o tt[i]
    BY <2>2 DEF Joins
  <2> DEFINE S == {m \in Nat : m >= 1 /\ m <= n => k[m] = j[m] /\ j[m] \in Seq(T)}
  <2>3. 0 \in S
    OBVIOUS
  <2>4. ASSUME NEW m \in Nat, m \in S PROVE m + 1 \in S
    <3> SUFFICES ASSUME m + 1 <= n PROVE k[m + 1] = j[m + 1] /\ j[m + 1] \in Seq(T)
      OBVIOUS
    <3>1. m + 1 \in 1..n /\ m + 1 \in 1..(n + 1) /\ (m + 1) - 1 = m
      BY <1>1
    <3>2. CASE m = 0
      <4>1. k[1] = tt[1] /\ j[1] = ss[1] /\ 1 \in 1..n
        BY <2>j, <2>k, <3>1, <3>2
      <4> QED BY <1>1, <3>2, <4>1
    <3>3. CASE m # 0
      <4>1. k[m] = j[m] /\ j[m] \in Seq(T)
        BY <1>1, <2>4, <3>3
      <4>2. k[m + 1] = k[m] \o tt[m + 1] /\ j[m + 1] = j[m] \o ss[m + 1]
        <5>1. m + 1 # 1
          BY <3>3
        <5> QED BY <2>j, <2>k, <3>1, <5>1
      <4>3. tt[m + 1] = ss[m + 1] /\ ss[m + 1] \in Seq(T)
        BY <1>1, <3>1
      <4>4. j[m] \o ss[m + 1] \in Seq(T)
        BY <4>1, <4>3, ConcatProperties
      <4> QED BY <4>1, <4>2, <4>3, <4>4
    <3> QED BY <3>2, <3>3
  <2> HIDE DEF S
  <2>5. n \in S
    BY <1>1, <2>3, <2>4, SetInduction
  <2>6. k[n] = j[n] /\ j[n] \in Seq(T)
    BY <1>1, <1>3, <2>5 DEF S
  <2>7. k[n + 1] = k[n] \o tt[n + 1]
    <3>1. n + 1 \in 1..(n + 1) /\ n + 1 # 1 /\ (n + 1) - 1 = n
      BY <1>1, <1>3
    <3> QED BY <2>k, <3>1
  <2> QED BY <1>1, <2>1, <2>2, <2>6, <2>7 DEF tt
<1> QED BY <1>2, <1>3

\* So is the first one at the front.
LEMMA JoinFirst ==
    ASSUME NEW T, NEW ss \in Seq(Seq(T)), ss # <<>>
    PROVE  /\ FlattenSeq(ss) = Head(ss) \o FlattenSeq(Tail(ss))
           /\ FlattenSeq(Tail(ss)) \in Seq(T)
<1> DEFINE n == Len(ss)
           Cut(i) == SubSeq(ss, 1, i)
           Rest(i) == SubSeq(ss, 2, i)
           S == {m \in Nat : m + 1 <= n =>
                   FlattenSeq(SubSeq(ss, 1, m + 1)) = ss[1] \o FlattenSeq(SubSeq(ss, 2, m + 1))}
<1>1. n \in Nat /\ n # 0 /\ \A i \in 1..n : ss[i] \in Seq(T)
  OBVIOUS
<1>2. 0 \in S
  <2>1. SubSeq(ss, 2, 1) = <<>>
    BY SubSeqEmpty
  <2>2. SubSeq(ss, 1, 1) = Append(<<>>, ss[1]) /\ <<>> \in Seq(Seq(T)) /\ ss[1] \in Seq(T)
    <3>1. 1 \in 1..n /\ 1 \in 1..1
      BY <1>1
    <3>2. SubSeq(ss, 1, 1) = <<ss[1]>> \o SubSeq(ss, 2, 1)
      <4>1. 1 \in 1..Len(ss) /\ 1 \in 1..Len(ss) /\ 1 + 1 = 2
        BY <3>1
      <4> QED BY <4>1, SubSeqRecursiveFirst
    <3>3. ss[1] \in Seq(T)
      BY <1>1, <3>1
    <3> DEFINE y == ss[1]
    <3>4. SubSeq(ss, 1, 1) = <<y>> \o <<>>
      BY <2>1, <3>2
    <3>5. y \in Seq(T)
      BY <3>3
    <3> HIDE DEF y
    <3>6. <<y>> \o <<>> = <<y>> /\ Append(<<>>, y) = <<y>> /\ <<>> \in Seq(Seq(T))
      BY <3>5
    <3> QED BY <3>4, <3>5, <3>6 DEF y
  <2>3. FlattenSeq(SubSeq(ss, 1, 1)) = FlattenSeq(<<>>) \o ss[1]
    BY <2>2, JoinAppend
  <2>4. FlattenSeq(<<>>) = <<>> /\ FlattenSeq(SubSeq(ss, 2, 1)) = <<>>
    BY <2>1, JoinEmpty
  <2>5. <<>> \o ss[1] = ss[1] \o <<>>
    BY <2>2, ConcatEmptySeq
  <2>6. FlattenSeq(SubSeq(ss, 1, 0 + 1)) = ss[1] \o FlattenSeq(SubSeq(ss, 2, 0 + 1))
    <3>1. 0 + 1 = 1
      OBVIOUS
    <3> QED BY <2>3, <2>4, <2>5, <3>1
  <2> QED BY <2>6
<1>3. ASSUME NEW m \in Nat, m \in S PROVE m + 1 \in S
  <2> DEFINE k == m + 1
  <2>0. k \in Nat /\ (k <= n => FlattenSeq(SubSeq(ss, 1, k)) = ss[1] \o FlattenSeq(SubSeq(ss, 2, k)))
    <3>1. k \in Nat
      OBVIOUS
    <3>2. m + 1 <= n => FlattenSeq(SubSeq(ss, 1, m + 1)) = ss[1] \o FlattenSeq(SubSeq(ss, 2, m + 1))
      BY <1>3, Zenon
    <3> QED BY <3>1, <3>2, Zenon
  <2> HIDE DEF k
  <2> SUFFICES ASSUME k + 1 <= n
               PROVE  FlattenSeq(SubSeq(ss, 1, k + 1)) =
                        ss[1] \o FlattenSeq(SubSeq(ss, 2, k + 1))
    BY <2>0 DEF k
  <2> DEFINE a == SubSeq(ss, 1, k)
             b == SubSeq(ss, 2, k)
             x == ss[k + 1]
  <2>1. k \in 1..n /\ k + 1 \in 1..n /\ x \in Seq(T) /\ ss[1] \in Seq(T) /\ k <= n
    <3>1. k # 0
      BY DEF k
    <3> QED BY <1>1, <2>0, <3>1
  <2>2. a \in Seq(Seq(T)) /\ b \in Seq(Seq(T))
    <3>1. /\ \A i \in 1..k : ss[i] \in Seq(T)
          /\ \A i \in 2..k : ss[i] \in Seq(T)
      BY <1>1, <2>1
    <3> QED BY <2>0, <2>1, <3>1, SubSeqProperties
  <2>3. FlattenSeq(a) = ss[1] \o FlattenSeq(b)
    BY <2>0, <2>1
  <2>4. SubSeq(ss, 1, k + 1) = Append(a, x)
    <3>1. k + 1 - 1 = k
      BY <2>0
    <3>2. SubSeq(ss, 1, k + 1) = a \o <<x>>
      BY <2>1, <3>1, SubSeqRecursiveSecond
    <3> HIDE DEF a
    <3> QED BY <2>1, <2>2, <3>2, AppendIsConcat
  <2>5. SubSeq(ss, 2, k + 1) = Append(b, x)
    <3>1. k + 1 - 1 = k /\ 2 \in 1..n /\ k + 1 \in 2..n
      BY <1>1, <2>0, <2>1
    <3>2. SubSeq(ss, 2, k + 1) = b \o <<x>>
      BY <2>1, <3>1, SubSeqRecursiveSecond
    <3> HIDE DEF b
    <3> QED BY <2>1, <2>2, <3>2, AppendIsConcat
  <2>6. /\ FlattenSeq(Append(a, x)) = FlattenSeq(a) \o x
        /\ FlattenSeq(Append(b, x)) = FlattenSeq(b) \o x /\ FlattenSeq(b) \in Seq(T)
    <3> HIDE DEF a, b, x
    <3> QED BY <2>1, <2>2, JoinAppend
  <2>7. (ss[1] \o FlattenSeq(b)) \o x = ss[1] \o (FlattenSeq(b) \o x)
    <3> DEFINE f == FlattenSeq(b)
               y == ss[1]
    <3>1. f \in Seq(T) /\ x \in Seq(T) /\ y \in Seq(T)
      BY <2>1, <2>6
    <3> HIDE DEF f, x, y
    <3>2. (y \o f) \o x = y \o (f \o x)
      BY ONLY <3>1, ConcatAssociative
    <3> QED BY <3>2 DEF f, y
  <2> QED BY <2>3, <2>4, <2>5, <2>6, <2>7
<1> HIDE DEF S
<1>4. n - 1 \in Nat /\ (n - 1) + 1 = n
  BY <1>1
<1>5. n - 1 \in S
  BY <1>2, <1>3, <1>4, SetInduction
<1>6. FlattenSeq(SubSeq(ss, 1, n)) = ss[1] \o FlattenSeq(SubSeq(ss, 2, n))
  BY <1>4, <1>5 DEF S
<1>7. SubSeq(ss, 1, n) = ss /\ SubSeq(ss, 2, n) = Tail(ss) /\ Head(ss) = ss[1]
  BY SubSeqFull, TailIsSubSeq
<1>8. Tail(ss) \in Seq(Seq(T)) /\ <<>> \in Seq(T)
  OBVIOUS
<1>9. FlattenSeq(Tail(ss)) \in Seq(T)
  BY <1>8, JoinAppend
<1> QED BY <1>6, <1>7, <1>9

----------------------------------------------------------------------------
(* The invariant *)

Payload == {p \in Seq(Byte) : Len(p) <= MaxPayload}
BudgetType == [received : Nat, queued : Nat, disconnects : Nat, connections : Nat, slots : Nat]

TypesInv ==
    /\ WellFormed(ring)
    /\ buffer \in [Slot -> Buffer(Byte)]
    /\ \A s \in Slot : buffer[s].headroom + Len(buffer[s].data) <= BufferCapacity
    /\ tx \in Seq(Slot) /\ held \in {0} \cup Slot
    /\ at \in {"idle", "receive", "dispatch", "callback", "transmit"}
    /\ result \in {"none", "would_block", "full", "peer_closed"}
    /\ state \in {"connected", "peer_closed", "frame_error", "disconnected",
                  "internal_error", "terminated"}
    /\ socket \in [arrived : Seq(Byte), closed : BOOLEAN, unread : Nat]
    /\ sent \in Seq(Payload) /\ heard \in Seq(Payload) /\ queued \in Seq(Payload)
    /\ written \in Seq(Byte)
    /\ stray \in Seq(Byte) /\ ~BeginWithFrame(stray)
    /\ budget \in BudgetType /\ budget.slots <= MaxSlots

\* A pool some of whose slots are in use: each of the others is available, once.
PoolOf(p, used) ==
    /\ p \in [capacity : Nat, available : Seq(Slot), count : Nat]
    /\ p.capacity <= MaxSlots /\ p.count = Len(p.available)
    /\ IsInjective(p.available)
    /\ ToSet(p.available) \cup used = 1..p.capacity
    /\ ToSet(p.available) \cap used = {}

\* Slots that are queued or held by a callback.
Used == ToSet(tx) \cup ({held} \ {0})

PoolInv ==
    /\ PoolOf(pool, Used) /\ pool.capacity <= budget.slots
    /\ IsInjective(tx) /\ held \notin ToSet(tx)
    /\ \A s \in Slot \ Used : buffer[s] = NewBuffer
    /\ at = "callback" <=> held # 0

\* What was sent and not delivered.
Rest == SubSeq(sent, Len(heard) + 1, Len(sent))

HeardInv ==
    /\ Len(heard) <= Len(sent)
    /\ \A i \in 1..Len(heard) : heard[i] = sent[i]

ReceiveInv ==
    /\ Connected => Contents(ring) \o socket.arrived = Stream(Rest) \o stray
    /\ Connected /\ result = "peer_closed" /\ at \in {"dispatch", "callback"} =>
         socket.closed /\ socket.arrived = <<>>
    /\ state = "peer_closed" => heard = sent
    /\ state = "frame_error" => heard = sent /\ stray # <<>>

\* The bytes of the queued buffers.
DataOf(slots, b) == [i \in DOMAIN slots |-> b[slots[i]].data]

TransmitInv == Connected => written \o FlattenSeq(DataOf(tx, buffer)) = Stream(queued)

\* Where a handler may stand, and what is left after a connection.
PhaseInv ==
    /\ at \in {"receive", "transmit"} => Connected
    /\ ~Connected /\ state # "terminated" => tx = <<>> /\ RingSize(ring) = 0

FrameInv == TypesInv /\ PoolInv /\ HeardInv /\ ReceiveInv /\ TransmitInv /\ PhaseInv

----------------------------------------------------------------------------
(* The pool *)

LEMMA SetOf ==
    ASSUME NEW S, NEW s \in Seq(S)
    PROVE  ToSet(s) = {s[i] : i \in 1..Len(s)} /\ ToSet(s) \subseteq S
BY DEF ToSet

LEMMA Members == ASSUME NEW S, NEW s \in Seq(S) PROVE \A i \in 1..Len(s) : s[i] \in ToSet(s)
BY SetOf

LEMMA InjectiveIs ==
    ASSUME NEW S, NEW s \in Seq(S)
    PROVE  IsInjective(s) <=> \A i, j \in 1..Len(s) : s[i] = s[j] => i = j
<1>1. DOMAIN s = 1..Len(s)
  OBVIOUS
<1> QED BY <1>1 DEF IsInjective

LEMMA SetOfOne ==
    ASSUME NEW S, NEW x \in S
    PROVE  <<x>> \in Seq(S) /\ ToSet(<<x>>) = {x} /\ IsInjective(<<x>>)
<1> DEFINE y == <<x>>
<1>1. y \in Seq(S) /\ Len(y) = 1 /\ y[1] = x
  OBVIOUS
<1> HIDE DEF y
<1>2. \A i \in 1..Len(y) : i = 1
  BY <1>1
<1>3. ToSet(y) = {x}
  <2>1. ToSet(y) = {y[i] : i \in 1..Len(y)} /\ 1 \in 1..Len(y)
    BY <1>1, SetOf
  <2> QED BY <1>1, <1>2, <2>1
<1>4. IsInjective(y)
  <2>1. \A i, j \in 1..Len(y) : y[i] = y[j] => i = j
    BY <1>2
  <2> QED BY <1>1, <2>1, InjectiveIs
<1> QED BY <1>1, <1>3, <1>4 DEF y

\* Without its first element.
LEMMA SetOfTail ==
    ASSUME NEW S, NEW s \in Seq(S), s # <<>>, IsInjective(s)
    PROVE  /\ Tail(s) \in Seq(S) /\ IsInjective(Tail(s)) /\ Len(Tail(s)) = Len(s) - 1
           /\ Head(s) \in ToSet(s) /\ ToSet(Tail(s)) = ToSet(s) \ {Head(s)}
<1> DEFINE t == Tail(s)
<1>1. /\ t \in Seq(S) /\ Len(t) = Len(s) - 1 /\ \A i \in 1..Len(t) : t[i] = s[i + 1]
      /\ Len(s) \in Nat \ {0} /\ Head(s) = s[1] /\ 1 \in 1..Len(s)
  BY HeadTailProperties
<1>2. \A i, j \in 1..Len(s) : s[i] = s[j] => i = j
  BY InjectiveIs
<1> HIDE DEF t
<1>3. IsInjective(t)
  <2>1. ASSUME NEW i \in 1..Len(t), NEW j \in 1..Len(t), t[i] = t[j] PROVE i = j
    <3>1. i + 1 \in 1..Len(s) /\ j + 1 \in 1..Len(s) /\ s[i + 1] = s[j + 1]
      BY <1>1, <2>1
    <3>2. i + 1 = j + 1
      BY <1>2, <3>1
    <3> QED BY <3>2
  <2> QED BY <1>1, <2>1, InjectiveIs
<1>4. ToSet(s) = {s[i] : i \in 1..Len(s)} /\ ToSet(t) = {t[i] : i \in 1..Len(t)}
  BY <1>1, SetOf
<1>5. ToSet(t) \subseteq ToSet(s) \ {Head(s)}
  <2> SUFFICES ASSUME NEW i \in 1..Len(t) PROVE t[i] \in ToSet(s) \ {Head(s)}
    BY <1>4
  <2>1. i + 1 \in 1..Len(s) /\ i + 1 # 1 /\ t[i] = s[i + 1]
    BY <1>1
  <2> QED BY <1>1, <1>2, <1>4, <2>1
<1>6. ToSet(s) \ {Head(s)} \subseteq ToSet(t)
  <2> SUFFICES ASSUME NEW i \in 1..Len(s), s[i] # Head(s) PROVE s[i] \in ToSet(t)
    BY <1>4
  <2>1. i - 1 \in 1..Len(t) /\ t[i - 1] = s[(i - 1) + 1] /\ (i - 1) + 1 = i
    <3>1. i # 1
      BY <1>1
    <3> QED BY <1>1, <3>1
  <2> QED BY <1>4, <2>1
<1> QED BY <1>1, <1>3, <1>4, <1>5, <1>6 DEF t

LEMMA SetOfConcat ==
    ASSUME NEW S, NEW s \in Seq(S), NEW t \in Seq(S)
    PROVE  /\ s \o t \in Seq(S) /\ Len(s \o t) = Len(s) + Len(t)
           /\ ToSet(s \o t) = ToSet(s) \cup ToSet(t)
           /\ IsInjective(s) /\ IsInjective(t) /\ ToSet(s) \cap ToSet(t) = {} =>
                IsInjective(s \o t)
<1> DEFINE u == s \o t
           m == Len(s)
           n == Len(t)
<1>1. /\ u \in Seq(S) /\ Len(u) = m + n /\ m \in Nat /\ n \in Nat
      /\ \A i \in 1..(m + n) : u[i] = IF i <= m THEN s[i] ELSE t[i - m]
  BY ConcatProperties
<1>2. /\ ToSet(u) = {u[i] : i \in 1..(m + n)}
      /\ ToSet(s) = {s[i] : i \in 1..m} /\ ToSet(t) = {t[i] : i \in 1..n}
  <2> HIDE DEF u
  <2> QED BY <1>1, SetOf
<1>i. /\ IsInjective(u) <=> \A i, j \in 1..(m + n) : u[i] = u[j] => i = j
      /\ IsInjective(s) <=> \A i, j \in 1..m : s[i] = s[j] => i = j
      /\ IsInjective(t) <=> \A i, j \in 1..n : t[i] = t[j] => i = j
  <2> HIDE DEF u
  <2> QED BY <1>1, InjectiveIs
<1> HIDE DEF u, m, n
<1>3. ToSet(u) \subseteq ToSet(s) \cup ToSet(t)
  <2> SUFFICES ASSUME NEW i \in 1..(m + n) PROVE u[i] \in ToSet(s) \cup ToSet(t)
    BY <1>2
  <2>1. (i <= m => i \in 1..m) /\ (~(i <= m) => i - m \in 1..n)
    BY <1>1
  <2> QED BY <1>1, <1>2, <2>1
<1>4. ToSet(s) \subseteq ToSet(u)
  <2> SUFFICES ASSUME NEW i \in 1..m PROVE s[i] \in ToSet(u)
    BY <1>2
  <2>1. i \in 1..(m + n) /\ i <= m
    BY <1>1
  <2> QED BY <1>1, <1>2, <2>1
<1>5. ToSet(t) \subseteq ToSet(u)
  <2> SUFFICES ASSUME NEW i \in 1..n PROVE t[i] \in ToSet(u)
    BY <1>2
  <2>1. m + i \in 1..(m + n) /\ ~(m + i <= m) /\ m + i - m = i
    BY <1>1
  <2>2. u[m + i] = t[i]
    BY <1>1, <2>1
  <2> QED BY <1>2, <2>1, <2>2
<1>6. ASSUME IsInjective(s), IsInjective(t), ToSet(s) \cap ToSet(t) = {}
      PROVE  IsInjective(u)
  <2>1. ASSUME NEW i \in 1..(m + n), NEW j \in 1..(m + n), u[i] = u[j] PROVE i = j
    <3>1. /\ (i <= m => i \in 1..m) /\ (~(i <= m) => i - m \in 1..n)
          /\ (j <= m => j \in 1..m) /\ (~(j <= m) => j - m \in 1..n)
      BY <1>1
    <3>2. /\ (i <= m => u[i] = s[i] /\ s[i] \in ToSet(s))
          /\ (~(i <= m) => u[i] = t[i - m] /\ t[i - m] \in ToSet(t))
          /\ (j <= m => u[j] = s[j] /\ s[j] \in ToSet(s))
          /\ (~(j <= m) => u[j] = t[j - m] /\ t[j - m] \in ToSet(t))
      BY <1>1, <1>2, <3>1
    <3>3. CASE i <= m /\ j <= m
      BY <1>i, <1>6, <2>1, <3>1, <3>2, <3>3
    <3>4. CASE ~(i <= m) /\ ~(j <= m)
      <4>1. i - m = j - m
        BY <1>i, <1>6, <2>1, <3>1, <3>2, <3>4
      <4> QED BY <1>1, <4>1
    <3>5. CASE (i <= m /\ ~(j <= m)) \/ (~(i <= m) /\ j <= m)
      BY <1>6, <2>1, <3>2, <3>5
    <3> QED BY <3>3, <3>4, <3>5
  <2> QED BY <1>i, <2>1
<1> QED BY <1>1, <1>3, <1>4, <1>5, <1>6 DEF u, m, n

LEMMA SetOfReverse ==
    ASSUME NEW S, NEW s \in Seq(S)
    PROVE  /\ Reverse(s) \in Seq(S) /\ Len(Reverse(s)) = Len(s)
           /\ ToSet(Reverse(s)) = ToSet(s)
           /\ IsInjective(s) => IsInjective(Reverse(s))
<1> DEFINE n == Len(s)
           r == Reverse(s)
<1>1. n \in Nat /\ \A i \in 1..n : n - i + 1 \in 1..n /\ n - (n - i + 1) + 1 = i /\ s[i] \in S
  OBVIOUS
<1>2. r \in [1..n -> S] /\ \A i \in 1..n : r[i] = s[n - i + 1]
  BY <1>1 DEF Reverse
<1> HIDE DEF r
<1>3. r \in Seq(S) /\ Len(r) = n
  <2> HIDE DEF n
  <2> QED BY <1>1, <1>2, SeqOfFunction
<1>4. ToSet(r) = {r[i] : i \in 1..n} /\ ToSet(s) = {s[i] : i \in 1..n}
  BY <1>3, SetOf
<1>5. /\ IsInjective(r) <=> \A i, j \in 1..n : r[i] = r[j] => i = j
      /\ IsInjective(s) <=> \A i, j \in 1..n : s[i] = s[j] => i = j
  BY <1>3, InjectiveIs
<1> HIDE DEF n
<1>6. \A i \in 1..n : r[i] \in ToSet(s)
  BY <1>1, <1>2, <1>4
<1>7. \A i \in 1..n : s[i] \in ToSet(r)
  <2> SUFFICES ASSUME NEW i \in 1..n PROVE s[i] \in ToSet(r)
    OBVIOUS
  <2> DEFINE k == n - i + 1
  <2>1. k \in 1..n /\ n - k + 1 = i
    BY <1>1
  <2> HIDE DEF k
  <2>2. r[k] = s[i]
    BY <1>2, <2>1
  <2> QED BY <1>4, <2>1, <2>2
<1>8. ASSUME IsInjective(s) PROVE IsInjective(r)
  <2>1. ASSUME NEW i \in 1..n, NEW j \in 1..n, r[i] = r[j] PROVE i = j
    <3>1. n - i + 1 = n - j + 1
      BY <1>1, <1>2, <1>5, <1>8, <2>1
    <3> QED BY <1>1, <3>1
  <2> QED BY <1>5, <2>1
<1>9. ToSet(r) = ToSet(s)
  BY <1>4, <1>6, <1>7
<1> QED BY <1>3, <1>8, <1>9 DEF n, r

LEMMA StockedPool ==
    ASSUME NEW p, NEW U, PoolOf(p, U), NEW m \in 0..MaxSlots, p.capacity <= m,
           p.available # <<>> \/ p.capacity + ChunkSize <= m
    PROVE  /\ PoolOf(Stocked(p), U) /\ Stocked(p).available # <<>> /\ Stocked(p).capacity <= m
           /\ p.capacity <= Stocked(p).capacity
<1>1. CASE p.available # <<>>
  BY <1>1, FrameParameters DEF Stocked, PoolOf
<1>2. CASE p.available = <<>>
  <2> DEFINE c == p.capacity
             k == ChunkSize
             new == [i \in 1..k |-> c + i]
             q == WithChunk(p)
  <2>1. c \in Nat /\ k \in Nat \ {0} /\ c + k <= m /\ c + k <= MaxSlots /\ c + k \in Nat
    BY <1>2, FrameParameters DEF PoolOf
  <2>2. new \in Seq(Slot) /\ Len(new) = k
    <3>1. new \in [1..k -> Slot]
      <4> HIDE DEF c, k
      <4>1. \A i \in 1..k : c + i \in 1..MaxSlots
        BY <2>1, FrameParameters
      <4> QED BY <4>1 DEF Slot
    <3> HIDE DEF new
    <3> QED BY <2>1, <3>1, SeqOfFunction
  <2>3. IsInjective(new) /\ ToSet(new) = (c + 1)..(c + k)
    <3>1. \A i \in 1..k : new[i] = c + i
      OBVIOUS
    <3> HIDE DEF new, c, k
    <3>2. \A i, j \in 1..k : new[i] = new[j] => i = j
      BY <2>1, <3>1
    <3>3. ToSet(new) = {new[i] : i \in 1..k}
      BY <2>2, SetOf
    <3>4. \A x \in (c + 1)..(c + k) : x - c \in 1..k /\ c + (x - c) = x
      BY <2>1
    <3>5. \A i \in 1..k : c + i \in (c + 1)..(c + k)
      BY <2>1
    <3> QED BY <2>2, <3>1, <3>2, <3>3, <3>4, <3>5, InjectiveIs
  <2>4. new \o <<>> = new
    <3> HIDE DEF new
    <3> QED BY <2>2, ConcatEmptySeq
  <2>5. q = [capacity |-> c + k, available |-> new, count |-> k]
    <3>1. p.count = 0 /\ 0 + k = k
      BY <1>2, <2>1 DEF PoolOf
    <3> QED BY <1>2, <2>1, <2>4, <3>1 DEF WithChunk
  <2>6. U = 1..c
    <3>1. ToSet(p.available) = {}
      BY <1>2 DEF ToSet
    <3> QED BY <3>1 DEF PoolOf
  <2>7. (c + 1)..(c + k) \cup 1..c = 1..(c + k) /\ (c + 1)..(c + k) \cap 1..c = {}
    BY <2>1
  <2> HIDE DEF new, c, k
  <2>8. PoolOf(q, U)
    <3>1. /\ q \in [capacity : Nat, available : Seq(Slot), count : Nat]
          /\ q.capacity = c + k /\ q.available = new /\ q.count = k
      BY <2>1, <2>2, <2>5
    <3> HIDE DEF q
    <3> QED BY <2>1, <2>2, <2>3, <2>6, <2>7, <3>1 DEF PoolOf
  <2>9. Stocked(p) = q
    BY <1>2 DEF Stocked
  <2>10. q.available # <<>> /\ q.capacity = c + k
    <3>1. new # <<>>
      BY <2>1, <2>2
    <3> QED BY <2>5, <3>1
  <2> HIDE DEF q
  <2> QED BY <2>1, <2>8, <2>9, <2>10 DEF c, k
<1> QED BY <1>1, <1>2

\* acquire takes a slot nobody uses.
LEMMA AcquiredPool ==
    ASSUME NEW p, NEW U, PoolOf(p, U), NEW m \in 0..MaxSlots, p.capacity <= m,
           p.available # <<>> \/ p.capacity + ChunkSize <= m
    PROVE  /\ Taken(p) \in Slot \ U
           /\ PoolOf(Acquired(p), U \cup {Taken(p)}) /\ Acquired(p).capacity <= m
<1> DEFINE q == Stocked(p)
           s == Taken(p)
           a == q.available
           r == Acquired(p)
<1>1. PoolOf(q, U) /\ a # <<>> /\ q.capacity <= m
  BY StockedPool
<1>2. s = Head(a) /\ r = [q EXCEPT !.available = Tail(a), !.count = @ - 1]
  BY DEF Taken, Acquired
<1> HIDE DEF q, s, r
<1>3. /\ q \in [capacity : Nat, available : Seq(Slot), count : Nat]
      /\ q.capacity <= MaxSlots /\ q.count = Len(a) /\ IsInjective(a) /\ a \in Seq(Slot)
      /\ ToSet(a) \cup U = 1..q.capacity /\ ToSet(a) \cap U = {}
  BY <1>1 DEF PoolOf
<1>4. /\ Tail(a) \in Seq(Slot) /\ IsInjective(Tail(a)) /\ Len(Tail(a)) = Len(a) - 1
      /\ Head(a) \in ToSet(a) /\ ToSet(Tail(a)) = ToSet(a) \ {Head(a)} /\ Len(a) \in Nat
  <2> HIDE DEF a
  <2> QED BY <1>1, <1>3, SetOfTail
<1>5. /\ r = [capacity |-> q.capacity, available |-> Tail(a), count |-> Len(a) - 1]
      /\ Len(a) - 1 \in Nat
  <2>1. Len(Tail(a)) \in Nat
    BY <1>4
  <2> QED BY <1>2, <1>3, <1>4, <2>1
<1>6. s \in Slot \ U
  <2>1. s \in ToSet(a) /\ ToSet(a) \subseteq Slot
    BY <1>2, <1>3, <1>4, SetOf
  <2> QED BY <1>3, <2>1
<1>7. PoolOf(r, U \cup {s}) /\ r.capacity = q.capacity
  <2> HIDE DEF a
  <2>1. /\ r \in [capacity : Nat, available : Seq(Slot), count : Nat]
        /\ r.capacity = q.capacity /\ r.available = Tail(a) /\ r.count = Len(Tail(a))
    BY <1>3, <1>4, <1>5
  <2>2. /\ (ToSet(a) \ {s}) \cup (U \cup {s}) = 1..q.capacity
        /\ (ToSet(a) \ {s}) \cap (U \cup {s}) = {}
    BY <1>2, <1>3, <1>4
  <2> QED BY <1>2, <1>3, <1>4, <2>1, <2>2 DEF PoolOf
<1> QED BY <1>1, <1>6, <1>7 DEF s, r

\* Slots that are released are available.
LEMMA AllReleasedPool ==
    ASSUME NEW p, NEW U, PoolOf(p, U), NEW t \in Seq(Slot), IsInjective(t), ToSet(t) \subseteq U
    PROVE  /\ PoolOf(AllReleased(p, t), U \ ToSet(t))
           /\ AllReleased(p, t).capacity = p.capacity
<1> DEFINE a == p.available
           b == Reverse(t)
           r == AllReleased(p, t)
<1>1. /\ p \in [capacity : Nat, available : Seq(Slot), count : Nat]
      /\ p.capacity <= MaxSlots /\ p.count = Len(a) /\ IsInjective(a) /\ a \in Seq(Slot)
      /\ ToSet(a) \cup U = 1..p.capacity /\ ToSet(a) \cap U = {}
  BY DEF PoolOf
<1>2. b \in Seq(Slot) /\ Len(b) = Len(t) /\ ToSet(b) = ToSet(t) /\ IsInjective(b) /\ Len(t) \in Nat
  BY SetOfReverse
<1>3. r = [p EXCEPT !.available = b \o a, !.count = @ + Len(t)]
  BY DEF AllReleased
<1> HIDE DEF b, r
<1>4. /\ b \o a \in Seq(Slot) /\ Len(b \o a) = Len(b) + Len(a) /\ IsInjective(b \o a)
      /\ ToSet(b \o a) = ToSet(t) \cup ToSet(a) /\ Len(a) \in Nat
  <2> HIDE DEF a
  <2>1. ToSet(b) \cap ToSet(a) = {}
    BY <1>1, <1>2
  <2>2. a \in Seq(Slot) /\ b \in Seq(Slot) /\ IsInjective(a) /\ IsInjective(b) /\ Len(a) \in Nat
    BY <1>1, <1>2
  <2>3. /\ b \o a \in Seq(Slot) /\ Len(b \o a) = Len(b) + Len(a) /\ IsInjective(b \o a)
        /\ ToSet(b \o a) = ToSet(b) \cup ToSet(a)
    BY ONLY <2>1, <2>2, SetOfConcat
  <2> QED BY <1>2, <2>2, <2>3
<1>5. r = [capacity |-> p.capacity, available |-> b \o a, count |-> Len(a) + Len(t)]
  BY <1>1, <1>3
<1>6. /\ r \in [capacity : Nat, available : Seq(Slot), count : Nat]
      /\ r.capacity = p.capacity /\ r.available = b \o a /\ r.count = Len(b \o a)
  <2> HIDE DEF a
  <2>1. Len(a) + Len(t) = Len(b) + Len(a) /\ Len(a) + Len(t) \in Nat
    BY <1>2, <1>4
  <2> QED BY <1>1, <1>4, <1>5, <2>1
<1>7. /\ (ToSet(t) \cup ToSet(a)) \cup (U \ ToSet(t)) = 1..p.capacity
      /\ (ToSet(t) \cup ToSet(a)) \cap (U \ ToSet(t)) = {}
  BY <1>1
<1>8. PoolOf(r, U \ ToSet(t))
  <2> HIDE DEF a
  <2> QED BY <1>1, <1>4, <1>6, <1>7 DEF PoolOf
<1> QED BY <1>6, <1>8 DEF r

LEMMA ReleasedPool ==
    ASSUME NEW p, NEW U, PoolOf(p, U), NEW s \in U, s \in Slot
    PROVE  PoolOf(Released(p, s), U \ {s}) /\ Released(p, s).capacity = p.capacity
<1> DEFINE t == <<s>>
<1>1. t \in Seq(Slot) /\ IsInjective(t) /\ ToSet(t) = {s}
  BY SetOfOne
<1>2. Reverse(t) = t /\ Len(t) = 1
  <2>1. Len(t) = 1 /\ \A i \in 1..1 : 1 - i + 1 = 1 /\ i = 1
    OBVIOUS
  <2> QED BY <2>1 DEF Reverse
<1>3. AllReleased(p, t) = Released(p, s)
  BY <1>2 DEF AllReleased, Released
<1> HIDE DEF t
<1>4. ToSet(t) \subseteq U
  BY <1>1
<1>5. PoolOf(AllReleased(p, t), U \ ToSet(t)) /\ AllReleased(p, t).capacity = p.capacity
  BY <1>1, <1>4, AllReleasedPool
<1> QED BY <1>1, <1>3, <1>5

\* The count of the pool counts the slots in use.
LEMMA PoolCounts ==
    ASSUME NEW p, NEW U, PoolOf(p, U)
    PROVE  InUse(p) = Cardinality(U)
<1> DEFINE a == p.available
           A == ToSet(a)
           n == Len(a)
           c == p.capacity
<1>1. /\ a \in Seq(Slot) /\ IsInjective(a) /\ c \in Nat /\ p.count = n /\ n \in Nat
      /\ A \cup U = 1..c /\ A \cap U = {}
  BY DEF PoolOf
<1>2. Cardinality(A) = n
  <2>1. A = {a[i] : i \in 1..n} /\ \A i, j \in 1..n : a[i] = a[j] => i = j
    <3> HIDE DEF a
    <3> QED BY <1>1, SetOf, InjectiveIs
  <2>2. a \in Bijection(1..n, A)
    <3>1. a = [i \in 1..n |-> a[i]]
      BY <1>1
    <3> HIDE DEF a, A, n
    <3>2. a \in [1..n -> A] /\ IsInjective(a)
      BY <1>1, <2>1, <3>1
    <3>3. \A x \in A : \E i \in 1..n : a[i] = x
      BY <2>1
    <3> QED BY <3>2, <3>3 DEF Bijection, Injection, Surjection
  <2>3. ExistsBijection(1..n, A)
    BY <2>2 DEF ExistsBijection
  <2> HIDE DEF a, A, n
  <2> QED BY <1>1, <2>3, FS_CountingElements
<1>3. IsFiniteSet(1..c) /\ Cardinality(1..c) = c
  <2> HIDE DEF c
  <2>1. 1 \in Int /\ c \in Int /\ (1 > c => c = 0) /\ c - 1 + 1 = c
    BY <1>1
  <2> QED BY <1>1, <2>1, FS_Interval
<1> HIDE DEF a, A, n, c
<1>4. IsFiniteSet(A) /\ IsFiniteSet(U)
  <2>1. A \in SUBSET (1..c) /\ U \in SUBSET (1..c)
    BY <1>1
  <2> QED BY <1>3, <2>1, FS_Subset
<1>5. Cardinality(A \cup U) = Cardinality(A) + Cardinality(U) - Cardinality(A \cap U)
  BY <1>4, FS_Union
<1>6. Cardinality(A \cap U) = 0 /\ Cardinality(U) \in Nat
  BY <1>1, <1>4, FS_EmptySet, FS_CardinalityType
<1>7. Cardinality(U) = c - n
  <2>1. Cardinality(A \cup U) = c /\ c \in Nat /\ n \in Nat
    BY <1>1, <1>3
  <2> QED BY <1>2, <1>5, <1>6, <2>1
<1> QED BY <1>1, <1>7 DEF InUse, c

----------------------------------------------------------------------------
(* Frames in a stream *)

Frames(payloads) == [i \in DOMAIN payloads |-> Framed(payloads[i])]

LEMMA FramedIs ==
    ASSUME NEW p \in Payload
    PROVE  /\ p \in Seq(Byte) /\ Len(p) \in 0..MaxPayload /\ Len(p) \in Byte /\ Magic \in Byte
           /\ Header(Len(p)) \in Seq(Byte) /\ Len(Header(Len(p))) = 2
           /\ Framed(p) \in Seq(Byte) /\ Len(Framed(p)) = 2 + Len(p)
           /\ Framed(p)[1] = Magic /\ Framed(p)[2] = Len(p)
           /\ \A i \in 1..Len(p) : Framed(p)[2 + i] = p[i]
<1> DEFINE n == Len(p)
           h == Header(n)
<1>1. p \in Seq(Byte) /\ n \in Nat /\ n <= MaxPayload /\ n \in Byte /\ Magic \in Byte
  <2>1. p \in Seq(Byte) /\ n \in Nat /\ n <= MaxPayload
    BY DEF Payload
  <2> QED BY <2>1, FrameParameters DEF Byte
<1>2. h \in Seq(Byte) /\ Len(h) = 2 /\ h[1] = Magic /\ h[2] = n
  BY <1>1 DEF Header
<1> HIDE DEF n, h
<1>3. /\ h \o p \in Seq(Byte) /\ Len(h \o p) = 2 + n
      /\ \A i \in 1..(2 + n) : (h \o p)[i] = IF i <= 2 THEN h[i] ELSE p[i - 2]
  <2>1. n = Len(p)
    BY DEF n
  <2>2. /\ h \o p \in Seq(Byte) /\ Len(h \o p) = Len(h) + Len(p)
        /\ \A i \in 1..(Len(h) + Len(p)) : (h \o p)[i] = IF i <= Len(h) THEN h[i]
                                                                ELSE p[i - Len(h)]
    BY <1>1, <1>2, ConcatProperties
  <2> QED BY <1>2, <2>1, <2>2
<1>4. (h \o p)[1] = Magic /\ (h \o p)[2] = n
  <2>1. 1 \in 1..(2 + n) /\ 2 \in 1..(2 + n) /\ 1 <= 2 /\ 2 <= 2
    BY <1>1
  <2> QED BY <1>2, <1>3, <2>1
<1>5. ASSUME NEW i \in 1..n PROVE (h \o p)[2 + i] = p[i]
  <2>1. 2 + i \in 1..(2 + n) /\ ~(2 + i <= 2) /\ 2 + i - 2 = i
    BY <1>1
  <2>2. (h \o p)[2 + i] = p[2 + i - 2]
    BY <1>3, <2>1
  <2> QED BY <2>1, <2>2
<1> QED BY <1>1, <1>2, <1>3, <1>4, <1>5 DEF n, h, Framed

LEMMA FramesType ==
    ASSUME NEW ps \in Seq(Payload)
    PROVE  /\ Frames(ps) \in Seq(Seq(Byte)) /\ Len(Frames(ps)) = Len(ps)
           /\ \A i \in 1..Len(ps) : Frames(ps)[i] = Framed(ps[i])
<1> DEFINE f == Frames(ps)
           n == Len(ps)
<1>1. n \in Nat /\ DOMAIN ps = 1..n /\ \A i \in 1..n : ps[i] \in Payload
  OBVIOUS
<1>2. f = [i \in 1..n |-> Framed(ps[i])]
  BY <1>1 DEF Frames
<1>3. \A i \in 1..n : Framed(ps[i]) \in Seq(Byte)
  BY <1>1, FramedIs
<1> HIDE DEF f, n
<1>4. f \in [1..n -> Seq(Byte)]
  BY <1>2, <1>3
<1>5. f \in Seq(Seq(Byte)) /\ Len(f) = n
  BY <1>1, <1>4, SeqOfFunction
<1> QED BY <1>2, <1>5 DEF f, n

LEMMA StreamEmpty == Stream(<<>>) = <<>>
<1>1. Frames(<<>>) = <<>>
  BY DEF Frames
<1> QED BY <1>1, JoinEmpty DEF Stream, Frames

LEMMA StreamAppend ==
    ASSUME NEW ps \in Seq(Payload), NEW p \in Payload
    PROVE  /\ Stream(ps) \in Seq(Byte) /\ Stream(ps) \o Framed(p) \in Seq(Byte)
           /\ Stream(Append(ps, p)) = Stream(ps) \o Framed(p)
<1> DEFINE f == Frames(ps)
           x == Framed(p)
           qs == Append(ps, p)
           g == Frames(qs)
<1>1. f \in Seq(Seq(Byte)) /\ Len(f) = Len(ps) /\ x \in Seq(Byte) /\ Len(ps) \in Nat
  BY FramesType, FramedIs
<1>2. qs \in Seq(Payload) /\ Len(qs) = Len(ps) + 1
      /\ qs[Len(ps) + 1] = p /\ \A i \in 1..Len(ps) : qs[i] = ps[i]
  BY AppendProperties
<1> HIDE DEF qs
<1>3. g \in Seq(Seq(Byte)) /\ Len(g) = Len(ps) + 1
  BY <1>2, FramesType
<1>4. /\ \A i \in 1..Len(ps) : f[i] = Framed(ps[i])
      /\ \A i \in 1..(Len(ps) + 1) : g[i] = Framed(qs[i])
  BY <1>2, FramesType
<1> HIDE DEF f, x, g
<1>5. /\ Append(f, x) \in Seq(Seq(Byte)) /\ Len(Append(f, x)) = Len(f) + 1
      /\ Append(f, x)[Len(f) + 1] = x /\ \A i \in 1..Len(f) : Append(f, x)[i] = f[i]
  BY <1>1, AppendProperties
<1>6. ASSUME NEW i \in 1..(Len(ps) + 1) PROVE g[i] = Append(f, x)[i]
  <2>1. CASE i = Len(ps) + 1
    BY <1>1, <1>2, <1>4, <1>5, <2>1 DEF x
  <2>2. CASE i # Len(ps) + 1
    <3>1. i \in 1..Len(ps)
      BY <1>1, <2>2
    <3> QED BY <1>1, <1>2, <1>4, <1>5, <3>1
  <2> QED BY <2>1, <2>2
<1>7. g = Append(f, x)
  BY <1>1, <1>3, <1>5, <1>6, SeqEqual
<1>8. FlattenSeq(f) \in Seq(Byte) /\ FlattenSeq(Append(f, x)) = FlattenSeq(f) \o x
  BY <1>1, JoinAppend
<1>9. FlattenSeq(f) \o x \in Seq(Byte)
  BY <1>1, <1>8, ConcatProperties
<1> QED BY <1>7, <1>8, <1>9 DEF Stream, Frames, f, x, g, qs

LEMMA StreamType ==
    ASSUME NEW ps \in Seq(Payload) PROVE Stream(ps) \in Seq(Byte)
<1>1. Frames(ps) \in Seq(Seq(Byte)) /\ <<>> \in Seq(Byte)
  BY FramesType
<1>2. FlattenSeq(Frames(ps)) \in Seq(Byte)
  BY <1>1, JoinAppend
<1> QED BY <1>2 DEF Stream, Frames

LEMMA StreamFirst ==
    ASSUME NEW ps \in Seq(Payload), ps # <<>>
    PROVE  /\ Head(ps) \in Payload /\ Tail(ps) \in Seq(Payload)
           /\ Stream(ps) = Framed(Head(ps)) \o Stream(Tail(ps))
<1> DEFINE f == Frames(ps)
           qs == Tail(ps)
           g == Frames(qs)
<1>1. /\ qs \in Seq(Payload) /\ Head(ps) \in Payload /\ Len(qs) = Len(ps) - 1
      /\ \A i \in 1..Len(qs) : qs[i] = ps[i + 1]
      /\ Head(ps) = ps[1] /\ Len(ps) \in Nat \ {0}
  BY HeadTailProperties
<1> HIDE DEF qs
<1>2. /\ f \in Seq(Seq(Byte)) /\ Len(f) = Len(ps) /\ g \in Seq(Seq(Byte)) /\ Len(g) = Len(qs)
      /\ \A i \in 1..Len(ps) : f[i] = Framed(ps[i])
      /\ \A i \in 1..Len(qs) : g[i] = Framed(qs[i])
  BY <1>1, FramesType
<1> HIDE DEF f, g
<1>3. f # <<>> /\ Head(f) = f[1] /\ 1 \in 1..Len(ps)
  BY <1>1, <1>2
<1>4. /\ Tail(f) \in Seq(Seq(Byte)) /\ Len(Tail(f)) = Len(f) - 1
      /\ \A i \in 1..Len(Tail(f)) : Tail(f)[i] = f[i + 1]
  BY <1>2, <1>3, HeadTailProperties
<1>5. ASSUME NEW i \in 1..Len(g) PROVE g[i] = Tail(f)[i]
  <2>1. i \in 1..Len(Tail(f)) /\ i \in 1..Len(qs) /\ i + 1 \in 1..Len(ps)
    BY <1>1, <1>2, <1>4
  <2> QED BY <1>1, <1>2, <1>4, <2>1
<1>6. g = Tail(f)
  <2>1. Len(g) = Len(Tail(f))
    BY <1>1, <1>2, <1>4
  <2> QED BY <1>2, <1>4, <1>5, <2>1, SeqEqual
<1>7. FlattenSeq(f) = Head(f) \o FlattenSeq(Tail(f))
  BY <1>2, <1>3, JoinFirst
<1>8. Head(f) = Framed(Head(ps))
  BY <1>1, <1>2, <1>3
<1> QED BY <1>1, <1>6, <1>7, <1>8 DEF Stream, Frames, f, g, qs

\* A stream is cut between two frames.
LEMMA StreamCut ==
    ASSUME NEW ps \in Seq(Payload), NEW k \in 0..Len(ps)
    PROVE  Stream(SubSeq(ps, 1, k)) \o Stream(SubSeq(ps, k + 1, Len(ps))) = Stream(ps)
<1> DEFINE n == Len(ps)
           Begin(j) == SubSeq(ps, 1, j)
           End(j) == SubSeq(ps, j + 1, n)
           S == {j \in Nat : j <= n => Stream(Begin(j)) \o Stream(End(j)) = Stream(ps)}
<1>1. n \in Nat /\ \A i \in 1..n : ps[i] \in Payload
  OBVIOUS
<1>2. \A j \in 0..n : Begin(j) \in Seq(Payload) /\ End(j) \in Seq(Payload)
  <2> SUFFICES ASSUME NEW j \in 0..n PROVE Begin(j) \in Seq(Payload) /\ End(j) \in Seq(Payload)
    OBVIOUS
  <2>1. /\ \A i \in 1..j : ps[i] \in Payload
        /\ \A i \in (j + 1)..n : ps[i] \in Payload
    BY <1>1
  <2>2. j \in Int /\ n \in Int /\ 1 \in Int /\ j + 1 \in Int
    BY <1>1
  <2> QED BY <2>1, <2>2, SubSeqProperties
<1>3. 0 \in S
  <2>1. Begin(0) = <<>> /\ End(0) = ps
    <3>1. 0 + 1 = 1
      OBVIOUS
    <3> QED BY <3>1, SubSeqEmpty, SubSeqFull
  <2>2. Stream(Begin(0)) = <<>> /\ Stream(ps) \in Seq(Byte)
    BY <2>1, StreamEmpty, StreamType
  <2>3. <<>> \o Stream(ps) = Stream(ps)
    BY <2>2, ConcatEmptySeq
  <2> QED BY <2>1, <2>2, <2>3
<1>4. ASSUME NEW j \in Nat, j \in S PROVE j + 1 \in S
  <2> SUFFICES ASSUME j + 1 <= n
               PROVE  Stream(Begin(j + 1)) \o Stream(End(j + 1)) = Stream(ps)
    OBVIOUS
  <2>1. j \in 0..n /\ j + 1 \in 1..n /\ j + 1 \in 0..n /\ ps[j + 1] \in Payload
    BY <1>1
  <2> DEFINE f == Begin(j)
             b == End(j + 1)
             x == ps[j + 1]
             d == End(j)
  <2>2. Stream(f) \o Stream(d) = Stream(ps)
    BY <1>4, <2>1
  <2>3. Begin(j + 1) = Append(f, x)
    <3>1. j + 1 \in 1..Len(ps) /\ 1 \in 1..Len(ps) /\ j + 1 \in 1..(j + 1) /\ (j + 1) - 1 = j
      BY <1>1, <2>1
    <3>2. SubSeq(ps, 1, j + 1) = SubSeq(ps, 1, (j + 1) - 1) \o <<ps[j + 1]>>
      BY <3>1, SubSeqRecursiveSecond
    <3>3. Begin(j + 1) = f \o <<x>>
      BY <3>1, <3>2
    <3>4. f \in Seq(Payload) /\ x \in Payload
      BY <1>2, <2>1
    <3> HIDE DEF f, x
    <3> QED BY <3>3, <3>4, AppendIsConcat
  <2>4. d # <<>> /\ Head(d) = x /\ Tail(d) = b
    <3>1. j + 1 \in 1..Len(ps) /\ Len(ps) \in (j + 1)..Len(ps)
      BY <1>1, <2>1
    <3>2. Head(d) = x /\ Tail(d) = b
      BY <3>1, HeadTailOfSubSeq
    <3>3. Len(d) = n - (j + 1) + 1
      <4>1. /\ \A i \in (j + 1)..n : ps[i] \in Payload
            /\ j + 1 \in Int /\ n \in Int /\ j + 1 <= n
        BY <1>1
      <4> QED BY <4>1, SubSeqProperties
    <3>4. d # <<>>
      <4> HIDE DEF d, n
      <4>1. n - (j + 1) + 1 # 0
        BY <1>1, <2>1
      <4>2. Len(d) # 0
        BY <3>3, <4>1
      <4> QED BY <4>2
    <3> QED BY <3>2, <3>4
  <2>5. f \in Seq(Payload) /\ b \in Seq(Payload) /\ d \in Seq(Payload) /\ x \in Payload
    BY <1>2, <2>1
  <2> HIDE DEF f, b, x, d
  <2>6. Stream(Append(f, x)) = Stream(f) \o Framed(x) /\ Stream(d) = Framed(x) \o Stream(b)
    BY <2>4, <2>5, StreamAppend, StreamFirst
  <2>7. (Stream(f) \o Framed(x)) \o Stream(b) = Stream(f) \o (Framed(x) \o Stream(b))
    <3>1. Stream(f) \in Seq(Byte) /\ Stream(b) \in Seq(Byte) /\ Framed(x) \in Seq(Byte)
      BY <2>5, StreamType, FramedIs
    <3> QED BY <3>1, ConcatAssociative
  <2> QED BY <2>2, <2>3, <2>6, <2>7 DEF b
<1> HIDE DEF S
<1>5. k \in S /\ k \in 0..n
  BY <1>3, <1>4, SetInduction
<1> QED BY <1>5 DEF S

\* Two ways to cut the same bytes.
LEMMA CommonFront ==
    ASSUME NEW S, NEW b \in Seq(S), NEW a \in Seq(S), NEW x \in Seq(S), NEW y \in Seq(S),
           b \o a = x \o y
    PROVE  /\ Len(b) + Len(a) = Len(x) + Len(y)
           /\ \A i \in 1..Len(x) : i <= Len(b) => b[i] = x[i]
           /\ Len(b) >= Len(x) => SubSeq(b, Len(x) + 1, Len(b)) \o a = y
<1> DEFINE w == b \o a
           m == Len(b)
           n == Len(x)
<1>1. /\ w \in Seq(S) /\ Len(w) = m + Len(a) /\ Len(w) = n + Len(y)
      /\ m \in Nat /\ n \in Nat /\ Len(a) \in Nat /\ Len(y) \in Nat
      /\ \A i \in 1..(m + Len(a)) : w[i] = IF i <= m THEN b[i] ELSE a[i - m]
      /\ \A i \in 1..(n + Len(y)) : w[i] = IF i <= n THEN x[i] ELSE y[i - n]
  BY ConcatProperties
<1> HIDE DEF w
<1>2. ASSUME NEW i \in 1..n, i <= m PROVE b[i] = x[i]
  <2>1. i \in 1..(m + Len(a)) /\ i \in 1..(n + Len(y)) /\ i <= n
    BY <1>1, <1>2
  <2> QED BY <1>1, <1>2, <2>1
<1>3. ASSUME m >= n PROVE SubSeq(b, n + 1, m) \o a = y
  <2> DEFINE d == SubSeq(b, n + 1, m)
             e == d \o a
  <2>1. /\ \A i \in (n + 1)..m : b[i] \in S
        /\ n + 1 \in Int /\ m \in Int /\ m - (n + 1) + 1 = m - n /\ m - n \in Nat
        /\ (~(n + 1 <= m) => m - n = 0)
    BY <1>1, <1>3
  <2>2. d \in Seq(S) /\ Len(d) = m - n /\ \A i \in 1..(m - n) : d[i] = b[n + 1 + i - 1]
    <3> HIDE DEF m, n
    <3> QED BY ONLY <2>1, SubSeqProperties
  <2> HIDE DEF d
  <2>3. /\ e \in Seq(S) /\ Len(e) = (m - n) + Len(a)
        /\ \A i \in 1..((m - n) + Len(a)) : e[i] = IF i <= m - n THEN d[i] ELSE a[i - (m - n)]
    <3>1. /\ e \in Seq(S) /\ Len(e) = Len(d) + Len(a)
          /\ \A i \in 1..(Len(d) + Len(a)) : e[i] = IF i <= Len(d) THEN d[i] ELSE a[i - Len(d)]
      BY <2>2, ConcatProperties
    <3> HIDE DEF m, n, e
    <3> QED BY <2>2, <3>1
  <2> HIDE DEF e, m, n
  <2>4. (m - n) + Len(a) = Len(y)
    BY <1>1
  <2>5. ASSUME NEW i \in 1..Len(y) PROVE e[i] = y[i]
    <3>1. n + i \in 1..(m + Len(a)) /\ n + i \in 1..(n + Len(y)) /\ ~(n + i <= n) /\ n + i - n = i
      <4>1. n \in Nat /\ m \in Nat /\ Len(a) \in Nat /\ Len(y) \in Nat
        BY <1>1
      <4> QED BY ONLY <2>4, <4>1, i \in 1..Len(y)
    <3>2. w[n + i] = y[i]
      <4> DEFINE k == n + i
      <4>1. k \in 1..(n + Len(y)) /\ ~(k <= n) /\ k - n = i
        <5>1. n \in Nat /\ Len(y) \in Nat
          BY <1>1
        <5> QED BY ONLY <5>1, i \in 1..Len(y) DEF k
      <4> HIDE DEF k
      <4>2. w[k] = IF k <= n THEN x[k] ELSE y[k - n]
        BY <1>1, <4>1
      <4> QED BY <4>1, <4>2 DEF k
    <3>3. CASE i <= m - n
      <4>1. i \in 1..(m - n) /\ n + 1 + i - 1 = n + i /\ n + i <= m
        BY <1>1, <3>3
      <4>2. e[i] = b[n + i]
        BY <2>2, <2>3, <2>4, <3>3, <4>1
      <4> QED BY <1>1, <3>1, <3>2, <4>1, <4>2
    <3>4. CASE ~(i <= m - n)
      <4>1. i - (m - n) = n + i - m /\ ~(n + i <= m)
        BY <1>1, <3>4
      <4>2. e[i] = a[n + i - m]
        BY <2>3, <2>4, <3>4, <4>1
      <4> QED BY <1>1, <3>1, <3>2, <4>1, <4>2
    <3> QED BY <3>3, <3>4
  <2>6. e = y
    BY <2>3, <2>4, <2>5, SeqEqual
  <2> QED BY <2>6 DEF e, d
<1> QED BY <1>1, <1>2, <1>3 DEF m, n

Regrouped(x, y, z) == (x \o y) \o z = x \o (y \o z)

LEMMA Regroup ==
    ASSUME NEW x \in Seq(Byte), NEW y \in Seq(Byte), NEW z \in Seq(Byte) PROVE Regrouped(x, y, z)
BY ConcatAssociative DEF Regrouped

\* What is known of bytes b that begin a stream, once a follows them: they begin with its
\* first frame.
FirstFrame(b, a, ps, st) ==
    /\ Head(ps) \in Payload /\ Tail(ps) \in Seq(Payload)
    /\ Len(b) >= 2 => b[1] = Magic /\ b[2] = Len(Head(ps))
    /\ \A i \in 1..Len(Head(ps)) : 2 + i <= Len(b) => b[2 + i] = Head(ps)[i]
    /\ a = <<>> => Len(b) >= 2 + Len(Head(ps))
    /\ Len(b) >= 2 + Len(Head(ps)) =>
         SubSeq(b, 2 + Len(Head(ps)) + 1, Len(b)) \o a = Stream(Tail(ps)) \o st

LEMMA FrameAtFront ==
    ASSUME NEW b \in Seq(Byte), NEW a \in Seq(Byte), NEW ps \in Seq(Payload), ps # <<>>,
           NEW st \in Seq(Byte), b \o a = Stream(ps) \o st
    PROVE  FirstFrame(b, a, ps, st)
<1> DEFINE p == Head(ps)
           x == Framed(p)
           z == Stream(Tail(ps))
           y == z \o st
           n == Len(p)
<1>1. p \in Payload /\ Tail(ps) \in Seq(Payload) /\ Stream(ps) = x \o z
  BY StreamFirst
<1>2. x \in Seq(Byte) /\ z \in Seq(Byte) /\ y \in Seq(Byte)
  <2>1. x \in Seq(Byte) /\ z \in Seq(Byte)
    BY <1>1, StreamType, FramedIs
  <2> HIDE DEF x, z
  <2> QED BY <2>1, ConcatProperties
<1>3. /\ Len(x) = 2 + n /\ n \in Nat /\ x[1] = Magic /\ x[2] = n
      /\ \A i \in 1..n : x[2 + i] = p[i]
  <2> HIDE DEF p
  <2>1. Len(p) \in Nat
    BY <1>1 DEF Payload
  <2> QED BY <1>1, <2>1, FramedIs
<1> HIDE DEF p, x, z
<1>4. b \o a = x \o y
  <2>1. (x \o z) \o st = x \o (z \o st)
    <3>1. Regrouped(x, z, st)
      BY <1>2, Regroup
    <3> QED BY <3>1 DEF Regrouped
  <2> QED BY <1>1, <2>1
<1> HIDE DEF y, n
<1>5. /\ Len(b) + Len(a) = Len(x) + Len(y)
      /\ \A i \in 1..Len(x) : i <= Len(b) => b[i] = x[i]
      /\ Len(b) >= Len(x) => SubSeq(b, Len(x) + 1, Len(b)) \o a = y
  BY <1>2, <1>4, CommonFront
<1>6. Len(b) \in Nat /\ Len(y) \in Nat /\ (a = <<>> => Len(a) = 0)
  BY <1>2
<1>7. Len(b) >= 2 => b[1] = Magic /\ b[2] = n
  <2>1. 1 \in 1..Len(x) /\ 2 \in 1..Len(x) /\ (Len(b) >= 2 => 1 <= Len(b) /\ 2 <= Len(b))
    BY <1>3, <1>6
  <2> QED BY <1>3, <1>5, <2>1
<1>8. ASSUME NEW i \in 1..n, 2 + i <= Len(b) PROVE b[2 + i] = p[i]
  <2>1. 2 + i \in 1..Len(x)
    BY <1>3
  <2> QED BY <1>3, <1>5, <1>8, <2>1
<1>9. a = <<>> => Len(b) >= 2 + n
  BY <1>3, <1>5, <1>6
<1>10. Len(b) >= 2 + n => SubSeq(b, 2 + n + 1, Len(b)) \o a = y
  BY <1>3, <1>5
<1> QED BY <1>1, <1>7, <1>8, <1>9, <1>10 DEF FirstFrame, n, p, z, y

\* Without a frame the stream is what was sent in place of one.
LEMMA NoFrameAtFront ==
    ASSUME NEW b \in Seq(Byte), NEW a \in Seq(Byte), NEW st \in Seq(Byte),
           ~BeginWithFrame(st), b \o a = st
    PROVE  ~BeginWithFrame(b) /\ (b # <<>> => st # <<>>)
<1>1. /\ Len(st) = Len(b) + Len(a) /\ Len(a) \in Nat /\ Len(b) \in Nat
      /\ \A i \in 1..(Len(b) + Len(a)) : st[i] = IF i <= Len(b) THEN b[i] ELSE a[i - Len(b)]
  BY ConcatProperties
<1>2. ASSUME BeginWithFrame(b) PROVE FALSE
  <2>1. Len(b) >= 2 /\ b[1] = Magic /\ b[2] <= MaxPayload /\ Len(b) >= 2 + b[2]
    BY <1>2 DEF BeginWithFrame, HeaderSize
  <2>2. 1 \in 1..(Len(b) + Len(a)) /\ 2 \in 1..(Len(b) + Len(a)) /\ 1 <= Len(b) /\ 2 <= Len(b)
    BY <1>1, <2>1
  <2>3. st[1] = b[1] /\ st[2] = b[2]
    BY <1>1, <2>2
  <2>4. b[2] \in Nat
    <3>1. 2 \in 1..Len(b)
      BY <1>1, <2>2
    <3>2. b[2] \in Byte
      BY <3>1, ElementOfSeq
    <3> QED BY <3>2, FrameParameters DEF Byte
  <2>5. Len(st) >= 2 /\ Len(st) >= 2 + st[2]
    BY <1>1, <2>1, <2>3, <2>4
  <2> QED BY <2>1, <2>3, <2>5 DEF BeginWithFrame, HeaderSize
<1>3. ASSUME b # <<>> PROVE st # <<>>
  <2>1. Len(b) # 0
    BY <1>3
  <2> QED BY <1>1, <2>1
<1> QED BY <1>2, <1>3

----------------------------------------------------------------------------
(* Decoding *)

LEMMA PeekedIsContents ==
    ASSUME NEW r, WellFormed(r), NEW n \in 0..RingSize(r)
    PROVE  /\ Contents(r) \in Seq(Byte) /\ Len(Contents(r)) = RingSize(r) /\ RingSize(r) \in Nat
           /\ Peeked(r, n) \in Seq(Byte) /\ Len(Peeked(r, n)) = n
           /\ \A i \in 1..n : Peeked(r, n)[i] = Contents(r)[i]
<1> DEFINE s == RingSize(r)
<1>1. r \in Ring(Byte) /\ s \in Nat /\ s \in 0..Capacity /\ n \in 0..Capacity /\ Capacity \in Nat
  <2>1. r \in Ring(Byte) /\ s \in Nat /\ s <= Capacity /\ Capacity \in Nat
    BY RingTypes, FrameParameters DEF WellFormed
  <2> HIDE DEF s
  <2>2. n \in 0..s
    BY DEF s
  <2> QED BY <2>1, <2>2
<1>2. /\ Peeked(r, n) \in Seq(Byte) /\ Len(Peeked(r, n)) = n
      /\ \A i \in 1..n : Peeked(r, n)[i] = r.storage[Place(r, i - 1)]
  BY <1>1, PeekedBytes
<1>3. /\ Contents(r) \in Seq(Byte) /\ Len(Contents(r)) = s
      /\ \A i \in 1..s : Contents(r)[i] = r.storage[Place(r, i - 1)]
  BY <1>1, PeekedBytes DEF Contents
<1>4. \A i \in 1..n : i \in 1..s
  <2> HIDE DEF s
  <2>1. n \in 0..s
    BY DEF s
  <2> QED BY <1>1, <2>1
<1> QED BY <1>1, <1>2, <1>3, <1>4

LEMMA DecodedIs ==
    ASSUME NEW r, WellFormed(r)
    PROVE  /\ Decoded(r) = "ok" <=> BeginWithFrame(Contents(r))
           /\ Decoded(r) \in {"bad_magic", "too_long"} <=>
                /\ Len(Contents(r)) >= 2
                /\ Contents(r)[1] # Magic \/ Contents(r)[2] > MaxPayload
           /\ Len(Contents(r)) >= 2 => PayloadLength(r) = Contents(r)[2]
<1> DEFINE b == Contents(r)
           h == Peeked(r, 2)
           s == RingSize(r)
<1>1. b \in Seq(Byte) /\ Len(b) = s /\ s \in Nat
  <2>1. RingSize(r) \in Nat
    BY RingTypes DEF WellFormed
  <2>2. 0 \in 0..RingSize(r)
    BY <2>1
  <2> QED BY <2>2, PeekedIsContents
<1>2. HeaderSize = 2 /\ MaxPayload \in Nat /\ Magic \in Nat
  BY FrameParameters
<1>3. CASE s < 2
  <2>1. Decoded(r) = "incomplete"
    BY <1>2, <1>3 DEF Decoded
  <2>2. ~(Len(b) >= 2)
    BY <1>1, <1>3
  <2> QED BY <1>2, <2>1, <2>2 DEF BeginWithFrame
<1>4. CASE ~(s < 2)
  <2>1. h[1] = b[1] /\ h[2] = b[2] /\ Len(b) >= 2
    <3>1. 2 \in 0..RingSize(r) /\ 1 \in 1..2 /\ 2 \in 1..2
      BY <1>1, <1>4
    <3>2. \A i \in 1..2 : Peeked(r, 2)[i] = Contents(r)[i]
      BY <3>1, PeekedIsContents
    <3> QED BY <1>1, <1>4, <3>1, <3>2
  <2>2. Decoded(r) = CASE h[1] # Magic -> "bad_magic"
                       [] h[1] = Magic /\ h[2] > MaxPayload -> "too_long"
                       [] h[1] = Magic /\ h[2] <= MaxPayload /\ s < 2 + h[2] -> "incomplete"
                       [] OTHER -> "ok"
    BY <1>2, <1>4 DEF Decoded
  <2>3. b[1] \in Nat /\ b[2] \in Nat
    <3>1. 1 \in 1..Len(b) /\ 2 \in 1..Len(b)
      BY <1>1, <2>1
    <3> HIDE DEF b
    <3> QED BY <1>1, <1>2, <3>1, ElementOfSeq DEF Byte
  <2>4. PayloadLength(r) = b[2]
    BY <1>2, <2>1 DEF PayloadLength
  <2>5. BeginWithFrame(b) <=> b[1] = Magic /\ b[2] <= MaxPayload /\ s >= 2 + b[2]
    BY <1>1, <1>2, <2>1 DEF BeginWithFrame
  <2> HIDE DEF b, h, s
  <2>6. Decoded(r) = CASE b[1] # Magic -> "bad_magic"
                       [] b[1] = Magic /\ b[2] > MaxPayload -> "too_long"
                       [] b[1] = Magic /\ b[2] <= MaxPayload /\ s < 2 + b[2] -> "incomplete"
                       [] OTHER -> "ok"
    BY <2>1, <2>2
  <2>7. CASE b[1] # Magic
    BY <2>1, <2>4, <2>5, <2>6, <2>7 DEF b
  <2>8. CASE b[1] = Magic /\ b[2] > MaxPayload
    <3>1. ~(b[2] <= MaxPayload)
      BY <1>2, <2>3, <2>8
    <3> QED BY <2>1, <2>4, <2>5, <2>6, <2>8, <3>1 DEF b
  <2>9. CASE b[1] = Magic /\ b[2] <= MaxPayload /\ s < 2 + b[2]
    <3>1. ~(b[2] > MaxPayload) /\ ~(s >= 2 + b[2])
      BY <1>1, <1>2, <2>3, <2>9
    <3> QED BY <2>1, <2>4, <2>5, <2>6, <2>9, <3>1 DEF b
  <2>10. CASE b[1] = Magic /\ b[2] <= MaxPayload /\ ~(s < 2 + b[2])
    <3>1. ~(b[2] > MaxPayload) /\ s >= 2 + b[2]
      BY <1>1, <1>2, <2>3, <2>10
    <3> QED BY <2>1, <2>4, <2>5, <2>6, <2>10, <3>1 DEF b
  <2>11. b[2] > MaxPayload \/ b[2] <= MaxPayload
    BY <1>2, <2>3
  <2> QED BY <2>7, <2>8, <2>9, <2>10, <2>11
<1> QED BY <1>3, <1>4

\* decode_frame takes the frame at the front.
LEMMA FrameTaken ==
    ASSUME NEW r, WellFormed(r), BeginWithFrame(Contents(r))
    PROVE  /\ Contents(r)[2] \in 0..MaxPayload /\ Len(Contents(r)) >= 2 + Contents(r)[2]
           /\ PayloadOf(r) \in Seq(Byte) /\ Len(PayloadOf(r)) = Contents(r)[2]
           /\ \A i \in 1..Contents(r)[2] : PayloadOf(r)[i] = Contents(r)[2 + i]
           /\ WellFormed(AfterFrame(r))
           /\ Contents(AfterFrame(r)) =
                SubSeq(Contents(r), 2 + Contents(r)[2] + 1, Len(Contents(r)))
<1> DEFINE b == Contents(r)
           n == b[2]
           s == RingSize(r)
           c == AfterHeader(r)
           d == AfterFrame(r)
<1>1. b \in Seq(Byte) /\ Len(b) = s /\ s \in Nat
  <2>1. RingSize(r) \in Nat
    BY RingTypes DEF WellFormed
  <2>2. 0 \in 0..RingSize(r)
    BY <2>1
  <2> QED BY <2>2, PeekedIsContents
<1>2. s >= 2 /\ n <= MaxPayload /\ s >= 2 + n /\ n \in Nat /\ MaxPayload \in Nat
  <2>1. s >= 2 /\ n <= MaxPayload /\ s >= 2 + n
    BY <1>1, FrameParameters DEF BeginWithFrame
  <2>2. 2 \in 1..Len(b)
    BY <1>1, <2>1
  <2> HIDE DEF b
  <2> QED BY <1>1, <2>1, <2>2, ElementOfSeq, FrameParameters DEF Byte
<1>3. PayloadLength(r) = n
  BY <1>1, <1>2, DecodedIs
<1>4. c = Consumed(r, 2) /\ d = Consumed(c, n) /\ PayloadOf(r) = Peeked(c, n)
  BY <1>3, FrameParameters DEF AfterHeader, AfterFrame, PayloadOf
<1> HIDE DEF b, n, c, d
<1>5. /\ WellFormed(c) /\ RingSize(c) = s - 2 /\ Contents(c) \in Seq(Byte)
      /\ Len(Contents(c)) = s - 2 /\ \A i \in 1..(s - 2) : Contents(c)[i] = b[2 + i]
  <2>1. 2 \in 0..RingSize(r)
    BY <1>1, <1>2
  <2> QED BY <1>4, <2>1, ConsumedContents DEF b
<1>6. n \in 0..RingSize(c) /\ RingSize(c) - n = s - (2 + n)
  <2> HIDE DEF s
  <2> QED BY <1>1, <1>2, <1>5
<1>7. /\ WellFormed(d) /\ Contents(d) \in Seq(Byte) /\ Len(Contents(d)) = s - (2 + n)
      /\ \A i \in 1..(s - (2 + n)) : Contents(d)[i] = Contents(c)[n + i]
  BY <1>4, <1>5, <1>6, ConsumedContents
<1>8. /\ PayloadOf(r) \in Seq(Byte) /\ Len(PayloadOf(r)) = n
      /\ \A i \in 1..n : PayloadOf(r)[i] = Contents(c)[i]
  BY ONLY <1>4, <1>5, <1>6, PeekedIsContents
<1> HIDE DEF s
<1>9. \A i \in 1..n : PayloadOf(r)[i] = b[2 + i]
  <2>1. \A i \in 1..n : i \in 1..(s - 2)
    BY <1>1, <1>2
  <2> QED BY <1>5, <1>8, <2>1
<1>10. Contents(d) = SubSeq(b, 2 + n + 1, s)
  <2> DEFINE e == SubSeq(b, 2 + n + 1, s)
  <2>1. /\ \A i \in (2 + n + 1)..s : b[i] \in Byte
        /\ 2 + n + 1 \in Int /\ s \in Int /\ s - (2 + n + 1) + 1 = s - (2 + n)
        /\ (~(2 + n + 1 <= s) => s - (2 + n) = 0)
    BY <1>1, <1>2
  <2>2. /\ e \in Seq(Byte) /\ Len(e) = s - (2 + n)
        /\ \A i \in 1..(s - (2 + n)) : e[i] = b[2 + n + 1 + i - 1]
    BY <2>1, SubSeqProperties
  <2> HIDE DEF e
  <2>3. ASSUME NEW i \in 1..(s - (2 + n)) PROVE Contents(d)[i] = e[i]
    <3>1. n + i \in 1..(s - 2) /\ 2 + (n + i) = 2 + n + 1 + i - 1
      BY <1>1, <1>2
    <3> QED BY <1>5, <1>7, <2>2, <3>1
  <2>4. Contents(d) = e
    BY <1>7, <2>2, <2>3, SeqEqual
  <2> QED BY <2>4 DEF e
<1> QED BY <1>1, <1>2, <1>7, <1>8, <1>9, <1>10 DEF b, n, d

----------------------------------------------------------------------------
(* The steps *)

LEMMA EmptyRing ==
    ASSUME NEW r, r \in Ring(Byte), r.read_seq = 0, r.write_seq = 0
    PROVE  WellFormed(r) /\ RingSize(r) = 0
<1>1. SeqModulus \in Nat \ {0} /\ Capacity \in Nat
  BY FrameParameters
<1>2. 0 = SeqModulus * 0 + 0 /\ 0 \in 0..(SeqModulus - 1) /\ 0 \in Nat /\ 0 \in Int
  BY <1>1
<1>3. 0 % SeqModulus = 0
  BY <1>1, <1>2, RemainderIs
<1>4. RingSize(r) = 0
  BY <1>3 DEF RingSize
<1> QED BY <1>1, <1>4 DEF WellFormed

LEMMA ClearedRing ==
    ASSUME NEW r \in Ring(Byte)
    PROVE  WellFormed(RingCleared(r)) /\ RingSize(RingCleared(r)) = 0
<1> DEFINE c == RingCleared(r)
<1>1. c \in Ring(Byte) /\ c.read_seq = 0 /\ c.write_seq = 0
  <2>1. 0 \in 0..(SeqModulus - 1)
    BY FrameParameters
  <2> QED BY <2>1 DEF RingCleared, Ring
<1> HIDE DEF c
<1>2. WellFormed(c) /\ RingSize(c) = 0
  BY <1>1, EmptyRing
<1> QED BY <1>2 DEF c

LEMMA FreshRing == WellFormed(NewRing(0)) /\ RingSize(NewRing(0)) = 0
<1> DEFINE c == NewRing(0)
<1>1. c \in Ring(Byte) /\ c.read_seq = 0 /\ c.write_seq = 0
  <2>1. 0 \in 0..(SeqModulus - 1) /\ 0 \in Byte
    BY FrameParameters DEF Byte
  <2> QED BY <2>1 DEF NewRing, Ring
<1> HIDE DEF c
<1>2. WellFormed(c) /\ RingSize(c) = 0
  BY <1>1, EmptyRing
<1> QED BY <1>2 DEF c

LEMMA EmptyContents ==
    ASSUME NEW r, WellFormed(r), RingSize(r) = 0
    PROVE  Contents(r) = <<>>
<1>1. 0 \in 0..RingSize(r)
  OBVIOUS
<1>2. Contents(r) \in Seq(Byte) /\ Len(Contents(r)) = 0
  BY <1>1, PeekedIsContents
<1> QED BY <1>2

LEMMA ContentsType ==
    ASSUME NEW r, WellFormed(r)
    PROVE  /\ Contents(r) \in Seq(Byte) /\ Len(Contents(r)) = RingSize(r) /\ RingSize(r) \in Nat
<1>1. RingSize(r) \in Nat
  BY RingTypes DEF WellFormed
<1>2. 0 \in 0..RingSize(r)
  BY <1>1
<1> QED BY <1>2, PeekedIsContents

LEMMA BufferIs ==
    /\ \A b \in Buffer(Byte) : b.headroom \in Nat /\ b.data \in Seq(Byte) /\ Len(b.data) \in Nat
                               /\ b = [headroom |-> b.headroom, data |-> b.data]
    /\ \A h \in Nat, d \in Seq(Byte) : h + Len(d) <= BufferCapacity =>
         [headroom |-> h, data |-> d] \in Buffer(Byte)
    /\ NewBuffer \in Buffer(Byte) /\ NewBuffer.headroom = 0 /\ NewBuffer.data = <<>>
    /\ <<>> \in Seq(Byte) /\ Len(<<>>) = 0
<1>1. BufferCapacity \in Nat
  BY FrameParameters
<1>2. ASSUME NEW b \in Buffer(Byte)
      PROVE  b.headroom \in Nat /\ b.data \in Seq(Byte) /\ Len(b.data) \in Nat
             /\ b = [headroom |-> b.headroom, data |-> b.data]
  <2>1. b.headroom \in 0..BufferCapacity /\ b = [headroom |-> b.headroom, data |-> b.data]
    BY DEF Buffer
  <2>2. PICK n \in 0..BufferCapacity : b.data \in [1..n -> Byte]
    BY DEF Buffer
  <2>3. n \in Nat
    BY <1>1
  <2>4. b.data \in Seq(Byte) /\ Len(b.data) = n
    BY <2>2, <2>3, SeqOfFunction
  <2> QED BY <1>1, <2>1, <2>3, <2>4
<1>3. ASSUME NEW h \in Nat, NEW d \in Seq(Byte), h + Len(d) <= BufferCapacity
      PROVE  [headroom |-> h, data |-> d] \in Buffer(Byte)
  <2>1. Len(d) \in 0..BufferCapacity /\ h \in 0..BufferCapacity /\ d \in [1..Len(d) -> Byte]
    BY <1>1, <1>3
  <2> QED BY <2>1 DEF Buffer
<1>4. <<>> \in Seq(Byte) /\ Len(<<>>) = 0 /\ 0 + 0 <= BufferCapacity /\ 0 \in Nat
  BY <1>1
<1>5. NewBuffer \in Buffer(Byte)
  BY <1>3, <1>4 DEF NewBuffer
<1> QED BY <1>2, <1>3, <1>4, <1>5 DEF NewBuffer

LEMMA InitialInv == ASSUME FrameInit PROVE FrameInv
<1>1. TypesInv
  <2>1. WellFormed(ring)
    BY FreshRing DEF FrameInit
  <2>2. buffer \in [Slot -> Buffer(Byte)]
        /\ \A s \in Slot : buffer[s].headroom + Len(buffer[s].data) <= BufferCapacity
    <3>1. 0 + 0 <= BufferCapacity
      BY FrameParameters
    <3> QED BY <3>1, BufferIs DEF FrameInit
  <2>3. stray \in Seq(Byte) /\ ~BeginWithFrame(stray)
    BY FrameParameters DEF FrameInit, BeginWithFrame
  <2>4. /\ budget \in BudgetType /\ budget.slots <= MaxSlots
    BY FrameConstants DEF FrameConstants, FrameInit, BudgetType
  <2> QED BY <2>1, <2>2, <2>3, <2>4 DEF TypesInv, FrameInit, NewSocket
<1>2. PoolInv
  <2>1. ToSet(<<>>) = {} /\ IsInjective(<<>>)
    BY DEF ToSet, IsInjective
  <2>2. Used = {}
    BY <2>1 DEF Used, FrameInit
  <2>3. PoolOf(pool, {}) /\ pool.capacity = 0
    <3>1. 0 <= MaxSlots /\ 1..0 = {}
      BY FrameParameters
    <3> QED BY <2>1, <3>1 DEF PoolOf, FrameInit, EmptyPool
  <2>4. budget.slots \in Nat
    BY <1>1 DEF TypesInv, BudgetType
  <2> QED BY <2>1, <2>2, <2>3, <2>4 DEF PoolInv, FrameInit
<1>3. Rest = <<>> /\ HeardInv
  <2>1. sent = <<>> /\ heard = <<>> /\ Len(<<>>) = 0
    BY DEF FrameInit
  <2>2. SubSeq(sent, Len(heard) + 1, Len(sent)) = <<>>
    BY <2>1, SubSeqEmpty
  <2> QED BY <2>1, <2>2 DEF Rest, HeardInv
<1>4. ReceiveInv
  <2>1. Contents(ring) = <<>>
    BY FreshRing, EmptyContents DEF FrameInit
  <2>2. <<>> \o <<>> = <<>>
    OBVIOUS
  <2> QED BY <1>3, <2>1, <2>2, StreamEmpty DEF ReceiveInv, FrameInit, NewSocket
<1>5. TransmitInv
  <2>1. DataOf(tx, buffer) = <<>>
    BY DEF DataOf, FrameInit
  <2>2. <<>> \o <<>> = <<>>
    OBVIOUS
  <2> QED BY <2>1, <2>2, StreamEmpty, JoinEmpty DEF TransmitInv, FrameInit
<1>6. PhaseInv
  BY FreshRing DEF PhaseInv, FrameInit, Connected
<1> QED BY <1>1, <1>2, <1>3, <1>4, <1>5, <1>6 DEF FrameInv

\* Steps that leave a part alone leave what is known of it.
LEMMA SamePool ==
    ASSUME PoolInv, UNCHANGED <<pool, buffer, tx, held>>, budget'.slots = budget.slots,
           at' = "callback" <=> at = "callback"
    PROVE  PoolInv'
BY DEF PoolInv, Used

LEMMA SameHeard == ASSUME HeardInv, UNCHANGED <<sent, heard>> PROVE HeardInv'
BY DEF HeardInv

LEMMA SameReceive ==
    ASSUME ReceiveInv, UNCHANGED <<ring, socket, sent, stray, heard, state, result>>,
           at' \in {"dispatch", "callback"} => at \in {"dispatch", "callback"}
    PROVE  ReceiveInv'
BY DEF ReceiveInv, Rest, Connected

LEMMA SameTransmit ==
    ASSUME TransmitInv, UNCHANGED <<buffer, tx, queued, written>>, Connected' => Connected
    PROVE  TransmitInv'
BY DEF TransmitInv, DataOf

LEMMA SpentBudget ==
    ASSUME TypesInv, NEW what \in {"received", "queued", "disconnects", "connections"}, Spend(what)
    PROVE  budget' \in BudgetType /\ budget'.slots = budget.slots /\ budget'.slots <= MaxSlots
<1>1. budget \in BudgetType /\ budget.slots <= MaxSlots /\ budget[what] > 0
      /\ budget' = [budget EXCEPT ![what] = @ - 1]
  BY DEF TypesInv, Spend
<1>2. budget[what] \in Nat
  BY <1>1 DEF BudgetType
<1>3. budget[what] - 1 \in Nat
  BY <1>1, <1>2
<1> QED BY <1>1, <1>3 DEF BudgetType

LEMMA StutterInv == ASSUME FrameInv, UNCHANGED frameVars PROVE FrameInv'
<1>1. TypesInv'
  BY DEF FrameInv, TypesInv, frameVars
<1>2. PoolInv' /\ HeardInv' /\ ReceiveInv' /\ TransmitInv'
  BY SamePool, SameHeard, SameReceive, SameTransmit DEF FrameInv, frameVars, Connected
<1>3. PhaseInv'
  BY DEF FrameInv, PhaseInv, frameVars, Connected
<1> QED BY <1>1, <1>2, <1>3 DEF FrameInv

LEMMA OnConnectionEventInv == ASSUME FrameInv, OnConnectionEvent PROVE FrameInv'
<1>1. TypesInv'
  BY DEF FrameInv, TypesInv, OnConnectionEvent
<1>2. PoolInv' /\ HeardInv' /\ ReceiveInv' /\ TransmitInv'
  BY SamePool, SameHeard, SameReceive, SameTransmit
     DEF FrameInv, OnConnectionEvent, Connected
<1>3. PhaseInv'
  BY DEF FrameInv, PhaseInv, OnConnectionEvent, Connected
<1> QED BY <1>1, <1>2, <1>3 DEF FrameInv

\* At the end of the stream nothing is left to read.
LEMMA ReceiveReturnsInv == ASSUME FrameInv, ReceiveReturns PROVE FrameInv'
<1>1. TypesInv'
  BY DEF FrameInv, TypesInv, ReceiveReturns, ReceiveResult
<1>2. PoolInv' /\ HeardInv' /\ TransmitInv'
  BY SamePool, SameHeard, SameTransmit DEF FrameInv, ReceiveReturns, Connected
<1>3. ReceiveInv'
  <2>1. result' = "peer_closed" => socket.closed /\ socket.arrived = <<>>
    BY DEF ReceiveReturns, ReceiveResult
  <2> QED BY <2>1 DEF FrameInv, ReceiveInv, ReceiveReturns, Rest, Connected
<1>4. PhaseInv'
  BY DEF FrameInv, PhaseInv, ReceiveReturns, Connected
<1> QED BY <1>1, <1>2, <1>3, <1>4 DEF FrameInv

LEMMA DispatchThrowsInv == ASSUME FrameInv, DispatchThrows PROVE FrameInv'
<1>1. TypesInv'
  BY DEF FrameInv, TypesInv, DispatchThrows
<1>2. PoolInv' /\ HeardInv' /\ TransmitInv'
  BY SamePool, SameHeard, SameTransmit DEF FrameInv, DispatchThrows, Connected
<1>3. ReceiveInv'
  BY DEF FrameInv, ReceiveInv, DispatchThrows, Connected
<1>4. PhaseInv'
  BY DEF FrameInv, PhaseInv, DispatchThrows, Connected
<1> QED BY <1>1, <1>2, <1>3, <1>4 DEF FrameInv

LEMMA TransmitReturnsInv == ASSUME FrameInv, TransmitReturns PROVE FrameInv'
<1>1. TypesInv'
  BY DEF FrameInv, TypesInv, TransmitReturns
<1>2. PoolInv' /\ HeardInv' /\ ReceiveInv' /\ TransmitInv'
  BY SamePool, SameHeard, SameReceive, SameTransmit DEF FrameInv, TransmitReturns, Connected
<1>3. PhaseInv'
  BY DEF FrameInv, PhaseInv, TransmitReturns, Connected
<1> QED BY <1>1, <1>2, <1>3 DEF FrameInv

\* A new connection begins with nothing of the one before it.
LEMMA ReconnectInv == ASSUME FrameInv, Reconnect PROVE FrameInv'
<1>1. budget' \in BudgetType /\ budget'.slots = budget.slots /\ budget'.slots <= MaxSlots
  <2>1. "connections" \in {"received", "queued", "disconnects", "connections"}
    OBVIOUS
  <2> QED BY <2>1, SpentBudget DEF FrameInv, Reconnect
<1>2. tx = <<>> /\ RingSize(ring) = 0 /\ ring' = ring /\ tx' = tx /\ WellFormed(ring)
  BY DEF FrameInv, PhaseInv, TypesInv, Reconnect
<1>3. TypesInv'
  <2>1. <<>> \in Seq(Byte) /\ <<>> \in Seq(Payload) /\ ~BeginWithFrame(<<>>)
    BY FrameParameters DEF BeginWithFrame
  <2> QED BY <1>1, <2>1 DEF FrameInv, TypesInv, Reconnect, NewSocket
<1>4. PoolInv'
  BY <1>1, SamePool DEF FrameInv, Reconnect
<1>5. HeardInv' /\ Rest' = <<>>
  <2>1. sent' = <<>> /\ heard' = <<>> /\ Len(<<>>) = 0
    BY DEF Reconnect
  <2>2. SubSeq(sent', Len(heard') + 1, Len(sent')) = <<>>
    BY <2>1, SubSeqEmpty
  <2> QED BY <2>1, <2>2 DEF Rest, HeardInv
<1>6. ReceiveInv'
  <2>1. Contents(ring) = <<>> /\ socket'.arrived = <<>> /\ stray' = <<>>
    BY <1>2, EmptyContents DEF Reconnect, NewSocket
  <2>2. <<>> \o <<>> = <<>>
    OBVIOUS
  <2>3. Contents(ring') \o socket'.arrived = Stream(Rest') \o stray'
    BY <1>2, <1>5, <2>1, <2>2, StreamEmpty
  <2>4. result' = "none" /\ state' = "connected"
    BY DEF Reconnect
  <2> QED BY <2>3, <2>4 DEF ReceiveInv
<1>7. TransmitInv'
  <2>1. tx' = <<>> /\ written' = <<>> /\ queued' = <<>>
    BY <1>2 DEF Reconnect
  <2>2. DataOf(tx', buffer') = <<>>
    BY <2>1 DEF DataOf
  <2>3. <<>> \o <<>> = <<>>
    OBVIOUS
  <2> QED BY <2>1, <2>2, <2>3, StreamEmpty, JoinEmpty DEF TransmitInv
<1>8. PhaseInv'
  BY DEF FrameInv, PhaseInv, Reconnect, Connected
<1> QED BY <1>3, <1>4, <1>5, <1>6, <1>7, <1>8 DEF FrameInv

\* Payloads that are not delivered yet.
LEMMA RestIs ==
    ASSUME NEW ps \in Seq(Payload), NEW k \in 0..Len(ps)
    PROVE  /\ SubSeq(ps, k + 1, Len(ps)) \in Seq(Payload)
           /\ Len(SubSeq(ps, k + 1, Len(ps))) = Len(ps) - k
           /\ \A i \in 1..(Len(ps) - k) : SubSeq(ps, k + 1, Len(ps))[i] = ps[k + i]
<1> DEFINE n == Len(ps)
           d == SubSeq(ps, k + 1, n)
<1>1. n \in Nat /\ \A i \in (k + 1)..n : ps[i] \in Payload
  OBVIOUS
<1> HIDE DEF n
<1>2. k \in Nat /\ k <= n
  BY <1>1 DEF n
<1>3. /\ k + 1 \in Int /\ n \in Int /\ n - (k + 1) + 1 = n - k
      /\ (~(k + 1 <= n) => n - k = 0) /\ \A i \in 1..(n - k) : k + 1 + i - 1 = k + i
  BY <1>1, <1>2
<1>4. /\ d \in Seq(Payload) /\ Len(d) = IF k + 1 <= n THEN n - (k + 1) + 1 ELSE 0
      /\ \A i \in 1..(n - (k + 1) + 1) : d[i] = ps[k + 1 + i - 1]
  BY <1>1, <1>3, SubSeqProperties
<1> HIDE DEF d
<1>5. Len(d) = n - k /\ \A i \in 1..(n - k) : d[i] = ps[k + i]
  BY <1>3, <1>4
<1> QED BY <1>4, <1>5 DEF d, n

LEMMA RestType ==
    ASSUME TypesInv, HeardInv
    PROVE  /\ Rest \in Seq(Payload) /\ Len(Rest) = Len(sent) - Len(heard)
           /\ \A i \in 1..(Len(sent) - Len(heard)) : Rest[i] = sent[Len(heard) + i]
           /\ Len(heard) \in 0..Len(sent) /\ Len(sent) \in Nat
<1>1. Len(heard) \in 0..Len(sent) /\ Len(sent) \in Nat /\ sent \in Seq(Payload)
  BY DEF TypesInv, HeardInv
<1> QED BY <1>1, RestIs DEF Rest

\* Nothing is left once everything is delivered.
LEMMA RestEmpty ==
    ASSUME TypesInv, HeardInv, Rest = <<>>
    PROVE  heard = sent
<1>1. /\ heard \in Seq(Payload) /\ sent \in Seq(Payload) /\ Len(Rest) = 0
      /\ Len(heard) \in Nat /\ Len(sent) \in Nat
  BY DEF TypesInv
<1>2. Len(heard) = Len(sent)
  BY <1>1, RestType
<1>3. \A i \in 1..Len(heard) : heard[i] = sent[i]
  BY DEF HeardInv
<1> QED BY <1>1, <1>2, <1>3, SeqEqual

\* What the peer sends is a frame behind those it sent before.
LEMMA PeerSendsInv ==
    ASSUME FrameInv, NEW payload \in Payloads, PeerSends(payload)
    PROVE  FrameInv'
<1>1. budget' \in BudgetType /\ budget'.slots = budget.slots /\ budget'.slots <= MaxSlots
  <2>1. "received" \in {"received", "queued", "disconnects", "connections"}
    OBVIOUS
  <2> QED BY <2>1, SpentBudget DEF FrameInv, PeerSends
<1>2. payload \in Payload
  BY FrameConstants DEF FrameConstants, Payload
<1> DEFINE x == Framed(payload)
<1>3. x \in Seq(Byte)
  BY <1>2, FramedIs
<1> HIDE DEF x
<1>4. /\ Connected /\ ~socket.closed /\ stray = <<>> /\ sent' = Append(sent, payload)
      /\ socket' = [socket EXCEPT !.arrived = @ \o x]
  BY DEF PeerSends, MaySend, x
<1>5. /\ socket \in [arrived : Seq(Byte), closed : BOOLEAN, unread : Nat]
      /\ socket.arrived \in Seq(Byte) /\ sent \in Seq(Payload) /\ heard \in Seq(Payload)
  BY DEF FrameInv, TypesInv
<1>6. /\ socket.arrived \o x \in Seq(Byte) /\ sent' \in Seq(Payload)
      /\ Len(sent') = Len(sent) + 1 /\ sent'[Len(sent) + 1] = payload
      /\ \A i \in 1..Len(sent) : sent'[i] = sent[i]
  BY <1>2, <1>3, <1>4, <1>5, ConcatProperties, AppendProperties
<1>7. /\ socket' \in [arrived : Seq(Byte), closed : BOOLEAN, unread : Nat]
      /\ socket'.arrived = socket.arrived \o x /\ socket'.closed = socket.closed
  BY <1>4, <1>5, <1>6
<1>8. TypesInv'
  BY <1>1, <1>6, <1>7 DEF FrameInv, TypesInv, PeerSends
<1>9. PoolInv' /\ TransmitInv'
  BY <1>1, SamePool, SameTransmit DEF FrameInv, PeerSends, Connected
<1>10. HeardInv'
  <2>1. /\ Len(heard) \in Nat /\ Len(sent) \in Nat /\ Len(heard) <= Len(sent)
        /\ \A i \in 1..Len(heard) : heard[i] = sent[i]
    BY <1>5 DEF FrameInv, HeardInv
  <2>2. Len(heard) <= Len(sent') /\ \A i \in 1..Len(heard) : heard[i] = sent'[i]
    BY <1>6, <2>1
  <2> QED BY <2>2 DEF HeardInv, PeerSends
<1>11. Rest' = Append(Rest, payload) /\ Rest \in Seq(Payload)
  <2> DEFINE n == Len(sent)
             k == Len(heard)
             d == Rest
             e == Rest'
  <2>1. /\ d \in Seq(Payload) /\ Len(d) = n - k /\ \A i \in 1..(n - k) : d[i] = sent[k + i]
        /\ k \in 0..n /\ n \in Nat
    BY RestType DEF FrameInv
  <2>2. k \in 0..Len(sent') /\ heard' = heard
    BY <1>6, <2>1 DEF PeerSends
  <2>3. /\ e \in Seq(Payload) /\ Len(e) = n + 1 - k
        /\ \A i \in 1..(n + 1 - k) : e[i] = sent'[k + i]
    BY <1>6, <2>2, RestIs DEF Rest
  <2> HIDE DEF d, e, n, k
  <2>4. /\ Append(d, payload) \in Seq(Payload) /\ Len(Append(d, payload)) = Len(d) + 1
        /\ \A i \in 1..Len(d) : Append(d, payload)[i] = d[i]
        /\ Append(d, payload)[Len(d) + 1] = payload
    BY <1>2, <2>1, AppendProperties
  <2>5. ASSUME NEW i \in 1..(n + 1 - k) PROVE e[i] = Append(d, payload)[i]
    <3>1. CASE i = n + 1 - k
      <4>1. k + i = n + 1 /\ i = Len(d) + 1
        BY <2>1, <3>1
      <4>2. e[i] = payload
        BY <1>6, <2>3, <4>1 DEF n
      <4> QED BY <2>4, <4>1, <4>2
    <3>2. CASE i # n + 1 - k
      <4>1. i \in 1..(n - k) /\ k + i \in 1..n
        BY <2>1, <3>2
      <4>2. sent'[k + i] = sent[k + i]
        BY <1>6, <4>1 DEF n
      <4> QED BY <2>1, <2>3, <2>4, <4>1, <4>2
    <3> QED BY <3>1, <3>2
  <2>6. Len(e) = Len(Append(d, payload))
    BY <2>1, <2>3, <2>4
  <2>7. e = Append(d, payload)
    BY <2>3, <2>4, <2>5, <2>6, SeqEqual
  <2> QED BY <2>1, <2>7 DEF d, e
<1>12. Contents(ring) \o socket'.arrived = Stream(Rest') \o stray
  <2> DEFINE c == Contents(ring)
             s == Stream(Rest)
             u == socket.arrived
  <2>1. c \in Seq(Byte) /\ s \in Seq(Byte) /\ u \in Seq(Byte)
    BY <1>5, <1>11, ContentsType, StreamType DEF FrameInv, TypesInv
  <2>2. c \o u = s \o <<>> /\ Stream(Rest') = s \o x
    BY <1>2, <1>4, <1>11, StreamAppend DEF FrameInv, ReceiveInv, x
  <2>3. socket'.arrived = u \o x
    BY <1>7
  <2> HIDE DEF c, s, u
  <2>4. c \o (u \o x) = (c \o u) \o x
    <3>1. Regrouped(c, u, x)
      BY <1>3, <2>1, Regroup
    <3> QED BY <3>1 DEF Regrouped
  <2>5. s \o <<>> = s
    BY <2>1, ConcatEmptySeq
  <2>6. s \o x \in Seq(Byte)
    BY <1>3, <2>1, ConcatProperties
  <2>7. (s \o x) \o <<>> = s \o x
    BY <2>6, ConcatEmptySeq
  <2> QED BY <1>4, <2>2, <2>3, <2>4, <2>5, <2>7 DEF c
<1>13. ReceiveInv'
  <2>1. UNCHANGED <<ring, stray, state, result, at>>
    BY DEF PeerSends
  <2>2. ~(result = "peer_closed" /\ at \in {"dispatch", "callback"}) /\ state = "connected"
    BY <1>4 DEF FrameInv, ReceiveInv, Connected
  <2> QED BY <1>12, <2>1, <2>2 DEF ReceiveInv
<1>14. PhaseInv'
  BY DEF FrameInv, PhaseInv, PeerSends, Connected
<1> QED BY <1>8, <1>9, <1>10, <1>13, <1>14 DEF FrameInv

LEMMA PeerStraysInv ==
    ASSUME FrameInv, NEW more \in Strays, PeerStrays(more)
    PROVE  FrameInv'
<1>1. more \in Seq(Byte) /\ ~BeginWithFrame(more)
  BY FrameConstants DEF FrameConstants
<1>2. /\ Connected /\ ~socket.closed /\ stray = <<>> /\ stray' = more
      /\ socket' = [socket EXCEPT !.arrived = @ \o more]
  BY DEF PeerStrays, MaySend
<1>3. /\ socket \in [arrived : Seq(Byte), closed : BOOLEAN, unread : Nat]
      /\ socket.arrived \in Seq(Byte)
  BY DEF FrameInv, TypesInv
<1>4. socket.arrived \o more \in Seq(Byte)
  BY <1>1, <1>3, ConcatProperties
<1>5. /\ socket' \in [arrived : Seq(Byte), closed : BOOLEAN, unread : Nat]
      /\ socket'.arrived = socket.arrived \o more
  BY <1>2, <1>3, <1>4
<1>6. TypesInv'
  BY <1>1, <1>2, <1>5 DEF FrameInv, TypesInv, PeerStrays
<1>7. PoolInv' /\ HeardInv' /\ TransmitInv'
  BY SamePool, SameHeard, SameTransmit DEF FrameInv, PeerStrays, Connected
<1>8. Contents(ring) \o socket'.arrived = Stream(Rest) \o stray'
  <2> DEFINE c == Contents(ring)
             s == Stream(Rest)
             u == socket.arrived
  <2>1. c \in Seq(Byte) /\ s \in Seq(Byte) /\ u \in Seq(Byte)
    BY <1>3, RestType, ContentsType, StreamType DEF FrameInv, TypesInv
  <2>2. c \o u = s \o <<>>
    BY <1>2 DEF FrameInv, ReceiveInv
  <2> HIDE DEF c, s, u
  <2>3. c \o (u \o more) = (c \o u) \o more
    <3>1. Regrouped(c, u, more)
      BY <1>1, <2>1, Regroup
    <3> QED BY <3>1 DEF Regrouped
  <2>4. s \o <<>> = s
    BY <2>1, ConcatEmptySeq
  <2> QED BY <1>2, <1>5, <2>2, <2>3, <2>4 DEF c, s, u
<1>9. ReceiveInv'
  <2>1. UNCHANGED <<ring, sent, heard, state, result, at>>
    BY DEF PeerStrays
  <2>2. ~(result = "peer_closed" /\ at \in {"dispatch", "callback"}) /\ state = "connected"
    BY <1>2 DEF FrameInv, ReceiveInv, Connected
  <2> QED BY <1>8, <2>1, <2>2 DEF ReceiveInv, Rest
<1>10. PhaseInv'
  BY DEF FrameInv, PhaseInv, PeerStrays, Connected
<1> QED BY <1>6, <1>7, <1>9, <1>10 DEF FrameInv

LEMMA PeerClosesInv == ASSUME FrameInv, PeerCloses PROVE FrameInv'
<1>1. /\ Connected /\ ~socket.closed /\ socket' = [socket EXCEPT !.closed = TRUE]
      /\ socket \in [arrived : Seq(Byte), closed : BOOLEAN, unread : Nat]
  BY DEF PeerCloses, FrameInv, TypesInv
<1>2. /\ socket' \in [arrived : Seq(Byte), closed : BOOLEAN, unread : Nat]
      /\ socket'.arrived = socket.arrived
  BY <1>1
<1>3. TypesInv'
  BY <1>2 DEF FrameInv, TypesInv, PeerCloses
<1>4. PoolInv' /\ HeardInv' /\ TransmitInv'
  BY SamePool, SameHeard, SameTransmit DEF FrameInv, PeerCloses, Connected
<1>5. ReceiveInv'
  <2>1. UNCHANGED <<ring, sent, heard, stray, state, result, at>>
    BY DEF PeerCloses
  <2>2. ~(result = "peer_closed" /\ at \in {"dispatch", "callback"}) /\ state = "connected"
    BY <1>1 DEF FrameInv, ReceiveInv, Connected
  <2> QED BY <1>1, <1>2, <2>1, <2>2 DEF FrameInv, ReceiveInv, Rest, Connected
<1>6. PhaseInv'
  BY DEF FrameInv, PhaseInv, PeerCloses, Connected
<1> QED BY <1>3, <1>4, <1>5, <1>6 DEF FrameInv

LEMMA PeerReadsInv == ASSUME FrameInv, PeerReads PROVE FrameInv'
<1>1. /\ socket' = [socket EXCEPT !.unread = 0]
      /\ socket \in [arrived : Seq(Byte), closed : BOOLEAN, unread : Nat]
  BY DEF PeerReads, FrameInv, TypesInv
<1>2. /\ socket' \in [arrived : Seq(Byte), closed : BOOLEAN, unread : Nat]
      /\ socket'.arrived = socket.arrived /\ socket'.closed = socket.closed
  BY <1>1
<1>3. TypesInv'
  BY <1>2 DEF FrameInv, TypesInv, PeerReads
<1>4. PoolInv' /\ HeardInv' /\ TransmitInv'
  BY SamePool, SameHeard, SameTransmit DEF FrameInv, PeerReads, Connected
<1>5. ReceiveInv'
  BY <1>2 DEF FrameInv, ReceiveInv, Rest, Connected, PeerReads
<1>6. PhaseInv'
  BY DEF FrameInv, PhaseInv, PeerReads, Connected
<1> QED BY <1>3, <1>4, <1>5, <1>6 DEF FrameInv

LEMMA Halves ==
    ASSUME NEW s \in Seq(Byte), NEW n \in 0..Len(s)
    PROVE  /\ SubSeq(s, 1, n) \in Seq(Byte) /\ Len(SubSeq(s, 1, n)) = n
           /\ SubSeq(s, n + 1, Len(s)) \in Seq(Byte) /\ Len(SubSeq(s, n + 1, Len(s))) = Len(s) - n
           /\ SubSeq(s, 1, n) \o SubSeq(s, n + 1, Len(s)) = s
<1> DEFINE m == Len(s)
<1>1. m \in Nat /\ n \in Nat /\ n <= m /\ \A i \in 1..m : s[i] \in Byte
  <2>1. m \in Nat /\ \A i \in 1..m : s[i] \in Byte
    OBVIOUS
  <2> HIDE DEF m
  <2>2. n \in 0..m
    BY DEF m
  <2> QED BY <2>1, <2>2
<1> HIDE DEF m
<1>2. /\ \A i \in 1..n : s[i] \in Byte
      /\ \A i \in (n + 1)..m : s[i] \in Byte
      /\ 1 \in Int /\ n \in Int /\ m \in Int /\ n + 1 \in Int
      /\ n - 1 + 1 = n /\ m - (n + 1) + 1 = m - n
      /\ (~(1 <= n) => n = 0) /\ (~(n + 1 <= m) => m - n = 0)
  BY <1>1
<1>3. /\ SubSeq(s, 1, n) \in Seq(Byte)
      /\ Len(SubSeq(s, 1, n)) = IF 1 <= n THEN n - 1 + 1 ELSE 0
  BY <1>2, SubSeqProperties
<1>4. /\ SubSeq(s, n + 1, m) \in Seq(Byte)
      /\ Len(SubSeq(s, n + 1, m)) = IF n + 1 <= m THEN m - (n + 1) + 1 ELSE 0
  BY <1>2, SubSeqProperties
<1>5. SubSeq(s, 1, n) \o SubSeq(s, n + 1, m) = SubSeq(s, 1, m)
  <2>1. 1 \in 1..(Len(s) + 1) /\ n \in (1 - 1)..Len(s) /\ m \in n..Len(s)
    BY <1>1 DEF m
  <2> QED BY <2>1, ConcatAdjacentSubSeq
<1>6. SubSeq(s, 1, m) = s
  BY SubSeqFull DEF m
<1>7. Len(SubSeq(s, 1, n)) = n /\ Len(SubSeq(s, n + 1, m)) = m - n
  BY <1>2, <1>3, <1>4
<1> QED BY <1>3, <1>4, <1>5, <1>6, <1>7 DEF m

LEMMA WritableType ==
    ASSUME NEW r, WellFormed(r) PROVE ContiguousWritable(r) \in Int
<1>1. RingSize(r) \in Nat /\ r.write_seq \in Nat /\ Capacity \in Nat \ {0}
  BY RingTypes, FrameParameters DEF WellFormed
<1> DEFINE x == Capacity - RingSize(r)
           y == Capacity - IndexOf(r.write_seq)
<1>2. x \in Int /\ y \in Int
  BY <1>1, Remainder DEF IndexOf
<1>3. ContiguousWritable(r) = Min({x, y})
  BY DEF ContiguousWritable, WritableSize
<1> HIDE DEF x, y
<1>4. Min({x, y}) \in Int
  BY <1>2, MinOfTwo
<1> QED BY <1>3, <1>4

\* recv moves bytes from the socket to the ring, in order.
LEMMA ReceiveInvariant == ASSUME FrameInv, Receive PROVE FrameInv'
<1> DEFINE u == socket.arrived
           n == Min({Len(u), ContiguousWritable(ring)})
           x == SubSeq(u, 1, n)
           v == SubSeq(u, n + 1, Len(u))
           c == Contents(ring)
<1>1. /\ WellFormed(ring) /\ socket \in [arrived : Seq(Byte), closed : BOOLEAN, unread : Nat]
      /\ u \in Seq(Byte) /\ Len(u) \in Nat
  BY DEF FrameInv, TypesInv
<1>2. /\ at = "receive" /\ n > 0 /\ ring' = Committed(ring, x)
      /\ socket' = [socket EXCEPT !.arrived = v]
  BY DEF Receive
<1>3. n = IF Len(u) <= ContiguousWritable(ring) THEN Len(u) ELSE ContiguousWritable(ring)
  <2>1. Len(u) \in Int /\ ContiguousWritable(ring) \in Int
    BY <1>1, WritableType
  <2> HIDE DEF u
  <2> QED BY <2>1, MinOfTwo
<1>4. n \in 0..Len(u) /\ n <= ContiguousWritable(ring)
  <2>1. ContiguousWritable(ring) \in Int
    BY <1>1, WritableType
  <2> HIDE DEF n, u
  <2> QED BY <1>1, <1>2, <1>3, <2>1
<1> HIDE DEF n
<1>5. x \in Seq(Byte) /\ Len(x) = n /\ v \in Seq(Byte) /\ x \o v = u
  <2> HIDE DEF u
  <2> QED BY <1>1, <1>4, Halves
<1>6. socket' \in [arrived : Seq(Byte), closed : BOOLEAN, unread : Nat]
      /\ socket'.arrived = v
  BY <1>1, <1>2, <1>5
<1>7. WellFormed(ring') /\ Contents(ring') = c \o x
  BY <1>1, <1>2, <1>4, <1>5, CommittedContents
<1>8. TypesInv'
  BY <1>6, <1>7 DEF FrameInv, TypesInv, Receive
<1>9. PoolInv' /\ HeardInv' /\ TransmitInv'
  BY SamePool, SameHeard, SameTransmit DEF FrameInv, Receive, Connected
<1>10. Contents(ring') \o socket'.arrived = c \o u
  <2>1. c \in Seq(Byte)
    BY <1>1, ContentsType
  <2> HIDE DEF c, x, v, u
  <2>2. (c \o x) \o v = c \o (x \o v)
    <3>1. Regrouped(c, x, v)
      BY <1>5, <2>1, Regroup
    <3> QED BY <3>1 DEF Regrouped
  <2> QED BY <1>5, <1>6, <1>7, <2>2
<1>11. ReceiveInv'
  <2>1. UNCHANGED <<sent, stray, heard, state, result, at>> /\ at = "receive" /\ Connected
    BY DEF Receive, FrameInv, PhaseInv
  <2>2. c \o u = Stream(Rest) \o stray
    BY <2>1 DEF FrameInv, ReceiveInv
  <2>3. state = "connected" /\ Rest' = Rest
    BY <2>1 DEF Connected, Rest
  <2> QED BY <1>10, <2>1, <2>2, <2>3 DEF ReceiveInv
<1>12. PhaseInv'
  BY DEF FrameInv, PhaseInv, Receive, Connected
<1> QED BY <1>8, <1>9, <1>11, <1>12 DEF FrameInv

\* A whole frame in the ring is the first of those that were not delivered.
LEMMA FirstOfRest ==
    ASSUME FrameInv, Connected, BeginWithFrame(Contents(ring))
    PROVE  /\ Rest \in Seq(Payload) /\ Rest # <<>> /\ Head(Rest) \in Payload
           /\ PayloadOf(ring) = Head(Rest) /\ WellFormed(AfterFrame(ring))
           /\ Contents(AfterFrame(ring)) \o socket.arrived = Stream(Tail(Rest)) \o stray
<1> DEFINE b == Contents(ring)
           a == socket.arrived
           d == Rest
           p == Head(d)
           c == AfterFrame(ring)
           q == PayloadOf(ring)
           n == b[2]
<1>1. /\ WellFormed(ring) /\ b \in Seq(Byte) /\ a \in Seq(Byte) /\ d \in Seq(Payload)
      /\ stray \in Seq(Byte) /\ ~BeginWithFrame(stray)
  BY ContentsType, RestType DEF FrameInv, TypesInv
<1>2. b \o a = Stream(d) \o stray
  BY DEF FrameInv, ReceiveInv
<1>3. /\ n \in 0..MaxPayload /\ Len(b) >= 2 + n /\ q \in Seq(Byte) /\ Len(q) = n
      /\ \A i \in 1..n : q[i] = b[2 + i]
      /\ WellFormed(c) /\ Contents(c) = SubSeq(b, 2 + n + 1, Len(b))
  BY <1>1, FrameTaken
<1>b. Len(b) >= 2 /\ b[2] = n
  BY FrameParameters DEF BeginWithFrame
<1>f. BeginWithFrame(b)
  OBVIOUS
<1> HIDE DEF a, b, d, c, q, n
<1>4. d # <<>>
  <2>1. SUFFICES ASSUME d = <<>> PROVE FALSE
    OBVIOUS
  <2>2. b \o a = stray
    BY <1>1, <1>2, <2>1, StreamEmpty, ConcatEmptySeq
  <2> QED BY <1>1, <1>f, <2>2, NoFrameAtFront
<1>5. /\ p \in Payload /\ Tail(d) \in Seq(Payload)
      /\ Len(b) >= 2 => b[1] = Magic /\ b[2] = Len(p)
      /\ \A i \in 1..Len(p) : 2 + i <= Len(b) => b[2 + i] = p[i]
      /\ Len(b) >= 2 + Len(p) => SubSeq(b, 2 + Len(p) + 1, Len(b)) \o a = Stream(Tail(d)) \o stray
  <2>1. FirstFrame(b, a, d, stray)
    BY <1>1, <1>2, <1>4, FrameAtFront
  <2> QED BY <2>1 DEF FirstFrame
<1> HIDE DEF p
<1>6. Len(p) = n
  BY <1>b, <1>5
<1>7. Contents(c) \o a = Stream(Tail(d)) \o stray
  BY <1>3, <1>5, <1>6
<1>8. q = p
  <2>1. p \in Seq(Byte)
    BY <1>5 DEF Payload
  <2>2. ASSUME NEW i \in 1..n PROVE q[i] = p[i]
    <3>1. 2 + i <= Len(b)
      <4>1. Len(b) \in Nat /\ n \in Nat
        BY <1>1, <1>3, FrameParameters
      <4> QED BY <1>3, <4>1
    <3> QED BY <1>3, <1>5, <1>6, <3>1
  <2> QED BY <1>3, <1>6, <2>1, <2>2, SeqEqual
<1> QED BY <1>1, <1>3, <1>4, <1>5, <1>7, <1>8 DEF a, b, c, d, p, q

\* One more payload is delivered.
LEMMA RestTail ==
    ASSUME TypesInv, HeardInv, Rest # <<>>, heard' = Append(heard, Head(Rest)), sent' = sent
    PROVE  heard' \in Seq(Payload) /\ HeardInv' /\ Rest' = Tail(Rest)
<1> DEFINE n == Len(sent)
           k == Len(heard)
           d == Rest
           e == Rest'
           p == Head(d)
<1>1. /\ d \in Seq(Payload) /\ Len(d) = n - k /\ k \in 0..n /\ n \in Nat
      /\ \A i \in 1..(n - k) : d[i] = sent[k + i]
      /\ heard \in Seq(Payload) /\ sent \in Seq(Payload) /\ \A i \in 1..k : heard[i] = sent[i]
  BY RestType DEF TypesInv, HeardInv
<1> HIDE DEF d, e
<1>2. /\ p \in Payload /\ p = d[1] /\ Len(d) # 0
      /\ Tail(d) \in Seq(Payload) /\ Len(Tail(d)) = Len(d) - 1
      /\ \A i \in 1..Len(Tail(d)) : Tail(d)[i] = d[i + 1]
  <2>1. d # <<>>
    BY DEF d
  <2> QED BY <1>1, <2>1, HeadTailProperties
<1> HIDE DEF p
<1>3. p = sent[k + 1] /\ k + 1 \in 0..n
  <2> HIDE DEF k, n
  <2>1. 1 \in 1..(n - k) /\ k + 1 \in 0..n
    BY <1>1, <1>2
  <2> QED BY <1>1, <1>2, <2>1
<1>4. heard' = Append(heard, p)
  BY DEF p, d
<1>5. /\ heard' \in Seq(Payload) /\ Len(heard') = k + 1 /\ heard'[k + 1] = p
      /\ \A i \in 1..k : heard'[i] = heard[i]
  BY <1>1, <1>2, <1>4, AppendProperties
<1>6. HeardInv'
  <2> HIDE DEF k, n
  <2>1. ASSUME NEW i \in 1..(k + 1) PROVE heard'[i] = sent[i]
    <3>1. CASE i = k + 1
      BY <1>3, <1>5, <3>1
    <3>2. CASE i # k + 1
      <4>1. i \in 1..k
        BY <1>1, <3>2
      <4> QED BY <1>1, <1>5, <4>1
    <3> QED BY <3>1, <3>2
  <2>2. k + 1 <= n
    BY <1>3
  <2> QED BY <1>5, <2>1, <2>2 DEF HeardInv, n
<1>7. /\ e \in Seq(Payload) /\ Len(e) = n - (k + 1)
      /\ \A i \in 1..(n - (k + 1)) : e[i] = sent[(k + 1) + i]
  <2> DEFINE m == k + 1
  <2>1. m \in 0..Len(sent) /\ e = SubSeq(sent, m + 1, Len(sent))
    BY <1>3, <1>5 DEF e, Rest
  <2> HIDE DEF m
  <2>2. /\ e \in Seq(Payload) /\ Len(e) = n - m
        /\ \A i \in 1..(n - m) : e[i] = sent[m + i]
    BY <1>1, <2>1, RestIs
  <2> QED BY <2>2 DEF m
<1>8. e = Tail(d)
  <2> HIDE DEF k, n
  <2>1. Len(e) = Len(Tail(d)) /\ Len(e) = n - k - 1
    BY <1>1, <1>2, <1>7
  <2>2. ASSUME NEW i \in 1..Len(e) PROVE e[i] = Tail(d)[i]
    <3>1. i \in 1..(n - (k + 1)) /\ i + 1 \in 1..(n - k) /\ (k + 1) + i = k + (i + 1)
      BY <1>1, <2>1
    <3> QED BY <1>1, <1>2, <1>7, <2>1, <3>1
  <2> QED BY <1>2, <1>7, <2>1, <2>2, SeqEqual
<1> QED BY <1>5, <1>6, <1>8 DEF d, e

\* Buffers of which none is longer than its storage.
BuffersFit(f) ==
    /\ f \in [Slot -> Buffer(Byte)]
    /\ \A s \in Slot : f[s].headroom + Len(f[s].data) <= BufferCapacity

Differ(f, g, t, h, d) ==
    g[t].headroom = h /\ g[t].data = d /\ \A s \in Slot \ {t} : g[s] = f[s]

\* A buffer is changed.
LEMMA BufferChanged ==
    ASSUME NEW f, BuffersFit(f),
           NEW t \in Slot, NEW h \in Nat, NEW d \in Seq(Byte), h + Len(d) <= BufferCapacity,
           NEW g, g = [f EXCEPT ![t] = [headroom |-> h, data |-> d]]
    PROVE  BuffersFit(g) /\ Differ(f, g, t, h, d)
<1> DEFINE b == [headroom |-> h, data |-> d]
<1>1. b \in Buffer(Byte) /\ b.headroom = h /\ b.data = d
  BY BufferIs
<1>2. g = [f EXCEPT ![t] = b]
  OBVIOUS
<1> HIDE DEF b
<1>3. g \in [Slot -> Buffer(Byte)] /\ g[t] = b /\ \A s \in Slot \ {t} : g[s] = f[s]
  BY <1>1, <1>2 DEF BuffersFit
<1> QED BY <1>1, <1>3 DEF BuffersFit, Differ

\* The slots there is memory for.
LEMMA SlotsOf ==
    ASSUME FrameInv
    PROVE  /\ budget.slots \in 0..MaxSlots /\ pool.capacity <= budget.slots
           /\ PoolOf(pool, Used) /\ tx \in Seq(Slot) /\ IsInjective(tx) /\ ToSet(tx) \subseteq Slot
           /\ held \notin ToSet(tx) /\ Used \subseteq Slot /\ 0 \notin Slot
           /\ (held = 0 => Used = ToSet(tx))
           /\ (held # 0 => held \in Slot /\ Used = ToSet(tx) \cup {held})
<1>1. /\ budget.slots \in Nat /\ budget.slots <= MaxSlots /\ tx \in Seq(Slot)
      /\ held \in {0} \cup Slot /\ MaxSlots \in Nat
  BY FrameParameters DEF FrameInv, TypesInv, BudgetType
<1>2. ToSet(tx) \subseteq Slot
  BY <1>1, SetOf
<1>3. 0 \notin Slot
  BY DEF Slot
<1> QED BY <1>1, <1>2, <1>3 DEF FrameInv, PoolInv, Used

\* A frame that is delivered is the next one that was sent, in a buffer of its own.
LEMMA DispatchFrameInv == ASSUME FrameInv, DispatchFrame PROVE FrameInv'
<1> DEFINE p == PayloadOf(ring)
           slot == Taken(pool)
<1>1. /\ at = "dispatch" /\ Connected /\ Decoded(ring) = "ok" /\ Stocks
      /\ pool' = Acquired(pool) /\ buffer' = [buffer EXCEPT ![slot] = Appended(@, p)]
      /\ ring' = AfterFrame(ring) /\ held' = slot /\ heard' = Append(heard, p)
      /\ at' = "callback"
      /\ UNCHANGED <<tx, result, socket, sent, stray, queued, written, state, budget>>
  BY DEF DispatchFrame
<1>2. BeginWithFrame(Contents(ring))
  BY <1>1, DecodedIs DEF FrameInv, TypesInv
<1>3. /\ Rest \in Seq(Payload) /\ Rest # <<>> /\ Head(Rest) \in Payload
      /\ p = Head(Rest) /\ WellFormed(ring')
      /\ Contents(ring') \o socket.arrived = Stream(Tail(Rest)) \o stray
  BY <1>1, <1>2, FirstOfRest
<1>4. heard' \in Seq(Payload) /\ HeardInv' /\ Rest' = Tail(Rest)
  BY <1>1, <1>3, RestTail DEF FrameInv
<1>5. held = 0
  BY <1>1 DEF FrameInv, PoolInv
<1>6. Used = ToSet(tx) /\ ToSet(tx) \subseteq Slot /\ 0 \notin Slot /\ PoolOf(pool, Used)
  BY <1>5, SlotsOf
<1>7. /\ slot \in Slot \ Used /\ PoolOf(pool', Used \cup {slot}) /\ pool'.capacity <= budget.slots
  <2>1. /\ budget.slots \in 0..MaxSlots /\ pool.capacity <= budget.slots
        /\ pool.available # <<>> \/ pool.capacity + ChunkSize <= budget.slots
    BY <1>1, SlotsOf DEF Stocks
  <2> QED BY <1>1, <1>6, <2>1, AcquiredPool
<1> HIDE DEF p, slot
<1>8. buffer' = [buffer EXCEPT ![slot] = [headroom |-> 0, data |-> p]] /\ p \in Seq(Byte)
      /\ Len(p) \in Nat /\ Len(p) <= MaxPayload
  <2>1. p \in Seq(Byte) /\ Len(p) \in Nat /\ Len(p) <= MaxPayload
    BY <1>3 DEF Payload
  <2>2. buffer[slot] = NewBuffer /\ buffer \in [Slot -> Buffer(Byte)]
    BY <1>7 DEF FrameInv, PoolInv, TypesInv
  <2>3. <<>> \o p = p
    BY <2>1, ConcatEmptySeq
  <2>4. Appended(NewBuffer, p) = [headroom |-> 0, data |-> p]
    BY <2>3 DEF Appended, NewBuffer
  <2> QED BY <1>1, <1>7, <2>1, <2>2, <2>4
<1>9. /\ buffer' \in [Slot -> Buffer(Byte)]
      /\ \A s \in Slot : buffer'[s].headroom + Len(buffer'[s].data) <= BufferCapacity
      /\ \A s \in Slot \ {slot} : buffer'[s] = buffer[s]
  <2>1. 0 + Len(p) <= BufferCapacity /\ slot \in Slot /\ 0 \in Nat
    BY <1>7, <1>8, FrameParameters
  <2>2. BuffersFit(buffer)
    BY DEF FrameInv, TypesInv, BuffersFit
  <2>3. BuffersFit(buffer') /\ Differ(buffer, buffer', slot, 0, p)
    BY <1>8, <2>1, <2>2, BufferChanged
  <2> QED BY <2>3 DEF BuffersFit, Differ
<1>10. TypesInv'
  BY <1>1, <1>3, <1>4, <1>7, <1>9 DEF FrameInv, TypesInv
<1>11. PoolInv'
  <2>1. Used' = Used \cup {slot}
    BY <1>1, <1>6, <1>7 DEF Used
  <2>2. IsInjective(tx) /\ \A s \in Slot \ Used : buffer[s] = NewBuffer
    BY DEF FrameInv, PoolInv
  <2>3. held' \notin ToSet(tx) /\ held' # 0
    BY <1>1, <1>6, <1>7
  <2> QED BY <1>1, <1>7, <1>9, <2>1, <2>2, <2>3 DEF PoolInv
<1>12. ReceiveInv'
  <2>1. Connected /\ state = "connected"
    BY <1>1 DEF Connected
  <2>2. Connected /\ result = "peer_closed" /\ at \in {"dispatch", "callback"} =>
          socket.closed /\ socket.arrived = <<>>
    BY DEF FrameInv, ReceiveInv
  <2> QED BY <1>1, <1>3, <1>4, <2>1, <2>2 DEF ReceiveInv
<1>13. TransmitInv'
  <2>1. DataOf(tx, buffer') = DataOf(tx, buffer)
    <3>1. \A i \in DOMAIN tx : tx[i] \in ToSet(tx)
      BY DEF ToSet
    <3>2. \A i \in DOMAIN tx : tx[i] \in Slot \ {slot}
      BY <1>6, <1>7, <3>1
    <3> QED BY <1>9, <3>2 DEF DataOf
  <2> QED BY <1>1, <2>1 DEF FrameInv, TransmitInv, Connected
<1>14. PhaseInv'
  BY <1>1 DEF FrameInv, PhaseInv, Connected
<1> QED BY <1>4, <1>10, <1>11, <1>12, <1>13, <1>14 DEF FrameInv

\* A connection that ends leaves no slot queued and no byte in the ring.
LEMMA CloseInv ==
    ASSUME FrameInv,
           NEW why \in {"peer_closed", "frame_error", "disconnected", "internal_error"},
           NEW p, NEW b \in [Slot -> Buffer(Byte)], Close(why, p, b),
           \A s \in Slot : b[s].headroom + Len(b[s].data) <= BufferCapacity,
           PoolOf(p, ToSet(tx) \cup ({held'} \ {0})), p.capacity <= budget.slots,
           held' \in {0} \cup Slot, held' \notin ToSet(tx),
           at' \in {"idle", "dispatch", "callback"}, at' = "callback" <=> held' # 0,
           \A s \in Slot \ (ToSet(tx) \cup ({held'} \ {0})) : b[s] = NewBuffer,
           UNCHANGED <<result, sent, stray, heard, queued, written>>,
           budget' \in BudgetType, budget'.slots = budget.slots,
           why = "peer_closed" => heard = sent,
           why = "frame_error" => heard = sent /\ stray # <<>>
    PROVE  FrameInv'
<1>1. /\ state' = why /\ ring' = RingCleared(ring) /\ tx' = <<>> /\ pool' = AllReleased(p, tx)
      /\ buffer' = [s \in Slot |-> IF s \in ToSet(tx) THEN NewBuffer ELSE b[s]]
      /\ socket' = NewSocket
  BY DEF Close
<1>2. state' # "connected" /\ state' # "terminated"
  BY <1>1
<1>3. WellFormed(ring') /\ RingSize(ring') = 0
  BY <1>1, ClearedRing DEF FrameInv, TypesInv, WellFormed
<1>4. /\ buffer' \in [Slot -> Buffer(Byte)]
      /\ \A s \in Slot : buffer'[s].headroom + Len(buffer'[s].data) <= BufferCapacity
  <2>1. 0 + 0 <= BufferCapacity
    BY FrameParameters
  <2> QED BY <1>1, <2>1, BufferIs
<1>5. socket' \in [arrived : Seq(Byte), closed : BOOLEAN, unread : Nat]
  BY <1>1 DEF NewSocket
<1>6. TypesInv'
  <2>1. tx' \in Seq(Slot) /\ budget'.slots <= MaxSlots
    BY <1>1 DEF FrameInv, TypesInv
  <2> QED BY <1>1, <1>3, <1>4, <1>5, <2>1 DEF FrameInv, TypesInv
<1>7. PoolInv'
  <2> DEFINE H == {held'} \ {0}
             T == ToSet(tx)
  <2>1. tx \in Seq(Slot) /\ IsInjective(tx) /\ H \cap T = {}
    BY DEF FrameInv, PoolInv, TypesInv
  <2>2. PoolOf(pool', (T \cup H) \ T) /\ pool'.capacity = p.capacity
    <3>1. PoolOf(p, T \cup H) /\ T \subseteq T \cup H
      OBVIOUS
    <3> HIDE DEF H
    <3> QED BY <1>1, <2>1, <3>1, AllReleasedPool
  <2>3. (T \cup H) \ T = H
    BY <2>1
  <2>4. ToSet(tx') = {} /\ IsInjective(tx')
    BY <1>1 DEF ToSet, IsInjective
  <2>5. Used' = H
    BY <2>4 DEF Used
  <2>6. \A s \in Slot \ H : buffer'[s] = NewBuffer
    BY <1>1
  <2> HIDE DEF H, T
  <2> QED BY <2>2, <2>3, <2>4, <2>5, <2>6 DEF PoolInv
<1>8. HeardInv'
  BY SameHeard DEF FrameInv
<1>9. ReceiveInv' /\ TransmitInv'
  BY <1>1, <1>2 DEF ReceiveInv, TransmitInv, Connected
<1>10. PhaseInv'
  BY <1>1, <1>3 DEF PhaseInv
<1> QED BY <1>6, <1>7, <1>8, <1>9, <1>10 DEF FrameInv

\* What the pool and the buffers are while no callback runs, or while one does.
LEMMA PoolIdle ==
    ASSUME FrameInv
    PROVE  /\ PoolOf(pool, ToSet(tx) \cup ({held} \ {0})) /\ pool.capacity <= budget.slots
           /\ held \in {0} \cup Slot /\ held \notin ToSet(tx)
           /\ at = "callback" <=> held # 0
           /\ buffer \in [Slot -> Buffer(Byte)]
           /\ \A s \in Slot : buffer[s].headroom + Len(buffer[s].data) <= BufferCapacity
           /\ \A s \in Slot \ (ToSet(tx) \cup ({held} \ {0})) : buffer[s] = NewBuffer
           /\ budget \in BudgetType
BY DEF FrameInv, PoolInv, TypesInv, Used

\* Bytes that are no frame come behind all that is one.
LEMMA FrameErrorInv == ASSUME FrameInv, FrameError PROVE FrameInv'
<1> DEFINE b == Contents(ring)
           a == socket.arrived
<1>1. /\ at = "dispatch" /\ Connected /\ Decoded(ring) \in {"bad_magic", "too_long"}
      /\ Close("frame_error", pool, buffer) /\ at' = "idle"
      /\ UNCHANGED <<held, result, sent, stray, heard, queued, written, budget>>
  BY DEF FrameError
<1>2. /\ b \in Seq(Byte) /\ a \in Seq(Byte) /\ Rest \in Seq(Payload)
      /\ stray \in Seq(Byte) /\ ~BeginWithFrame(stray) /\ WellFormed(ring)
  BY ContentsType, RestType DEF FrameInv, TypesInv
<1>3. b \o a = Stream(Rest) \o stray
  BY <1>1 DEF FrameInv, ReceiveInv
<1>4. Len(b) >= 2 /\ (b[1] # Magic \/ b[2] > MaxPayload)
  BY <1>1, <1>2, DecodedIs
<1> HIDE DEF a, b
<1>5. Rest = <<>>
  <2>1. SUFFICES ASSUME Rest # <<>> PROVE FALSE
    OBVIOUS
  <2>2. Head(Rest) \in Payload /\ b[1] = Magic /\ b[2] = Len(Head(Rest))
    <3>1. FirstFrame(b, a, Rest, stray)
      BY <1>2, <1>3, <2>1, FrameAtFront
    <3> QED BY <1>4, <3>1 DEF FirstFrame
  <2>3. Len(Head(Rest)) \in Nat /\ Len(Head(Rest)) <= MaxPayload /\ MaxPayload \in Nat
    BY <2>2, FrameParameters DEF Payload
  <2> QED BY <1>4, <2>2, <2>3
<1>6. heard = sent
  BY <1>5, RestEmpty DEF FrameInv
<1>7. stray # <<>>
  <2>1. b \o a = stray
    BY <1>2, <1>3, <1>5, StreamEmpty, ConcatEmptySeq
  <2>2. b # <<>>
    BY <1>2, <1>4
  <2> QED BY <1>2, <2>1, <2>2, NoFrameAtFront
<1>8. held' = held /\ held = 0 /\ budget' = budget
  BY <1>1 DEF FrameInv, PoolInv
<1> QED BY <1>1, <1>6, <1>7, <1>8, PoolIdle, CloseInv

\* Nothing that was sent before the end of the stream is left behind.
LEMMA DispatchReturnsInv == ASSUME FrameInv, DispatchReturns PROVE FrameInv'
<1>1. /\ at = "dispatch"
      /\ Connected => Decoded(ring) = "incomplete"
      /\ UNCHANGED <<held, result, sent, stray, heard, queued, written, budget>>
  BY DEF DispatchReturns
<1>2. held = 0
  BY <1>1 DEF FrameInv, PoolInv
<1>3. CASE Connected /\ result = "peer_closed"
  <2> DEFINE b == Contents(ring)
             a == socket.arrived
  <2>1. Close("peer_closed", pool, buffer) /\ at' = "idle"
    BY <1>3 DEF DispatchReturns
  <2>2. a = <<>> /\ b \o a = Stream(Rest) \o stray
    BY <1>1, <1>3 DEF FrameInv, ReceiveInv
  <2>3. /\ b \in Seq(Byte) /\ a \in Seq(Byte) /\ Rest \in Seq(Payload) /\ stray \in Seq(Byte)
        /\ WellFormed(ring)
    BY ContentsType, RestType DEF FrameInv, TypesInv
  <2>4. ~BeginWithFrame(b)
    BY <1>1, <1>3, <2>3, DecodedIs
  <2> HIDE DEF a, b
  <2>5. Rest = <<>>
    <3>1. SUFFICES ASSUME Rest # <<>> PROVE FALSE
      OBVIOUS
    <3> DEFINE n == Len(Head(Rest))
    <3>2. /\ Head(Rest) \in Payload /\ Len(b) >= 2 + n
          /\ Len(b) >= 2 => b[1] = Magic /\ b[2] = n
      <4>1. FirstFrame(b, a, Rest, stray)
        BY <2>2, <2>3, <3>1, FrameAtFront
      <4> QED BY <2>2, <4>1 DEF FirstFrame
    <3>3. n \in Nat /\ n <= MaxPayload /\ Len(b) \in Nat
      BY <2>3, <3>2 DEF Payload
    <3> HIDE DEF n
    <3>4. Len(b) >= 2
      BY <3>2, <3>3
    <3> QED BY <2>4, <3>2, <3>3, <3>4, FrameParameters DEF BeginWithFrame
  <2>6. heard = sent
    BY <2>5, RestEmpty DEF FrameInv
  <2>7. held' = held /\ budget' = budget
    BY <1>1
  <2> QED BY <1>1, <1>2, <2>1, <2>6, <2>7, PoolIdle, CloseInv
<1>4. CASE ~(Connected /\ result = "peer_closed")
  <2>1. /\ at' = CASE ~Connected -> "idle"
                   [] Connected /\ result = "full" -> "receive"
                   [] OTHER -> "transmit"
        /\ UNCHANGED <<ring, pool, buffer, tx, socket, state>>
    BY <1>4 DEF DispatchReturns
  <2>2. at' \in {"idle", "receive", "transmit"} /\ (at' # "idle" => Connected)
    BY <2>1
  <2>3. TypesInv'
    BY <1>1, <2>1, <2>2 DEF FrameInv, TypesInv
  <2>4. PoolInv' /\ HeardInv' /\ ReceiveInv' /\ TransmitInv'
    BY <1>1, <2>1, <2>2, SamePool, SameHeard, SameReceive, SameTransmit
       DEF FrameInv, Connected
  <2>5. PhaseInv'
    BY <1>1, <2>1, <2>2 DEF FrameInv, PhaseInv, Connected
  <2> QED BY <2>3, <2>4, <2>5 DEF FrameInv
<1> QED BY <1>3, <1>4

LEMMA DisconnectInv == ASSUME FrameInv, Disconnect PROVE FrameInv'
<1>1. /\ at \in {"idle", "callback"} /\ Close("disconnected", pool, buffer)
      /\ UNCHANGED <<held, at, result, sent, stray, heard, queued, written>>
      /\ Spend("disconnects")
  BY DEF Disconnect, Application
<1>2. budget' \in BudgetType /\ budget'.slots = budget.slots
  <2>1. "disconnects" \in {"received", "queued", "disconnects", "connections"}
    OBVIOUS
  <2> QED BY <1>1, <2>1, SpentBudget DEF FrameInv
<1>3. /\ held' = held /\ at' = at
      /\ UNCHANGED <<result, sent, stray, heard, queued, written>>
      /\ at' \in {"idle", "dispatch", "callback"}
  BY <1>1
<1>4. /\ PoolOf(pool, ToSet(tx) \cup ({held'} \ {0})) /\ held' \in {0} \cup Slot
      /\ held' \notin ToSet(tx)
      /\ at' = "callback" <=> held' # 0
      /\ \A s \in Slot \ (ToSet(tx) \cup ({held'} \ {0})) : buffer[s] = NewBuffer
  BY <1>3, PoolIdle
<1>5. "disconnected" \in {"peer_closed", "frame_error", "disconnected", "internal_error"}
      /\ "disconnected" # "peer_closed" /\ "disconnected" # "frame_error"
  OBVIOUS
<1> QED BY <1>1, <1>2, <1>3, <1>4, <1>5, PoolIdle, CloseInv

\* What a callback gives back.
LEMMA HeldReleased ==
    ASSUME FrameInv, held # 0
    PROVE  /\ PoolOf(Released(pool, held), ToSet(tx)) /\ Released(pool, held).capacity <= budget.slots
           /\ [buffer EXCEPT ![held] = NewBuffer] \in [Slot -> Buffer(Byte)]
           /\ \A s \in Slot : /\ [buffer EXCEPT ![held] = NewBuffer][s].headroom
                                   + Len([buffer EXCEPT ![held] = NewBuffer][s].data) <= BufferCapacity
                              /\ s # held =>
                                   [buffer EXCEPT ![held] = NewBuffer][s] = buffer[s]
           /\ \A s \in Slot \ ToSet(tx) : [buffer EXCEPT ![held] = NewBuffer][s] = NewBuffer
<1> DEFINE T == ToSet(tx)
           b == [buffer EXCEPT ![held] = NewBuffer]
<1>1. /\ held \in Slot /\ Used = T \cup {held} /\ held \notin T /\ PoolOf(pool, Used)
      /\ pool.capacity <= budget.slots
  BY SlotsOf
<1>2. PoolOf(Released(pool, held), Used \ {held}) /\ Released(pool, held).capacity = pool.capacity
  BY <1>1, ReleasedPool
<1>3. Used \ {held} = T
  BY <1>1
<1>4. /\ buffer \in [Slot -> Buffer(Byte)]
      /\ \A s \in Slot : buffer[s].headroom + Len(buffer[s].data) <= BufferCapacity
      /\ \A s \in Slot \ Used : buffer[s] = NewBuffer
  BY DEF FrameInv, TypesInv, PoolInv
<1> HIDE DEF T
<1>5. b \in [Slot -> Buffer(Byte)] /\ b[held] = NewBuffer /\ \A s \in Slot : s # held => b[s] = buffer[s]
  BY <1>1, <1>4, BufferIs
<1> HIDE DEF b
<1>6. \A s \in Slot : b[s].headroom + Len(b[s].data) <= BufferCapacity
  <2>1. 0 + 0 <= BufferCapacity
    BY FrameParameters
  <2>2. NewBuffer.headroom + Len(NewBuffer.data) <= BufferCapacity
    BY <2>1, BufferIs
  <2> QED BY <1>4, <1>5, <2>2
<1>7. \A s \in Slot \ T : b[s] = NewBuffer
  BY <1>1, <1>4, <1>5
<1> QED BY <1>1, <1>2, <1>3, <1>5, <1>6, <1>7 DEF T, b

LEMMA DataIs ==
    ASSUME NEW t \in Seq(Slot), NEW f \in [Slot -> Buffer(Byte)]
    PROVE  /\ DataOf(t, f) \in Seq(Seq(Byte)) /\ Len(DataOf(t, f)) = Len(t) /\ Len(t) \in Nat
           /\ \A i \in 1..Len(t) : DataOf(t, f)[i] = f[t[i]].data /\ t[i] \in Slot
<1> DEFINE d == DataOf(t, f)
           n == Len(t)
<1>1. n \in Nat /\ DOMAIN t = 1..n /\ \A i \in 1..n : t[i] \in Slot
  OBVIOUS
<1>2. d = [i \in 1..n |-> f[t[i]].data]
  BY <1>1 DEF DataOf
<1>3. \A i \in 1..n : f[t[i]].data \in Seq(Byte)
  BY <1>1, BufferIs
<1> HIDE DEF d, n
<1>4. d \in [1..n -> Seq(Byte)]
  BY <1>2, <1>3
<1>5. d \in Seq(Seq(Byte)) /\ Len(d) = n
  BY <1>1, <1>4, SeqOfFunction
<1> QED BY <1>1, <1>2, <1>5 DEF d, n

\* Buffers that are not queued do not matter.
LEMMA SameData ==
    ASSUME NEW t \in Seq(Slot), NEW f, NEW g, \A s \in ToSet(t) : f[s] = g[s]
    PROVE  DataOf(t, f) = DataOf(t, g)
<1>1. \A i \in DOMAIN t : t[i] \in ToSet(t)
  BY DEF ToSet
<1> QED BY <1>1 DEF DataOf

LEMMA HeldGoesBack ==
    ASSUME FrameInv, at = "callback", at' = "dispatch", held' = 0,
           pool' = Released(pool, held), buffer' = [buffer EXCEPT ![held] = NewBuffer],
           UNCHANGED <<ring, tx, result, socket, sent, stray, heard, queued, written, state, budget>>
    PROVE  FrameInv'
<1>1. held # 0
  BY DEF FrameInv, PoolInv
<1>2. /\ PoolOf(pool', ToSet(tx)) /\ pool'.capacity <= budget.slots
      /\ buffer' \in [Slot -> Buffer(Byte)]
      /\ \A s \in Slot : /\ buffer'[s].headroom + Len(buffer'[s].data) <= BufferCapacity
                         /\ s # held => buffer'[s] = buffer[s]
      /\ \A s \in Slot \ ToSet(tx) : buffer'[s] = NewBuffer
  BY <1>1, HeldReleased
<1>3. /\ tx \in Seq(Slot) /\ IsInjective(tx) /\ ToSet(tx) \subseteq Slot /\ held \notin ToSet(tx)
      /\ 0 \notin Slot
  BY SlotsOf
<1>4. TypesInv'
  BY <1>2 DEF FrameInv, TypesInv
<1>5. PoolInv'
  <2>1. Used' = ToSet(tx)
    BY DEF Used
  <2> QED BY <1>2, <1>3, <2>1 DEF PoolInv
<1>6. HeardInv' /\ ReceiveInv'
  BY SameHeard, SameReceive DEF FrameInv
<1>7. TransmitInv'
  <2>1. \A s \in ToSet(tx) : buffer'[s] = buffer[s]
    BY <1>2, <1>3
  <2>2. DataOf(tx, buffer') = DataOf(tx, buffer)
    BY <1>3, <2>1, SameData
  <2> QED BY <2>2 DEF FrameInv, TransmitInv, Connected
<1>8. PhaseInv'
  BY DEF FrameInv, PhaseInv, Connected
<1> QED BY <1>4, <1>5, <1>6, <1>7, <1>8 DEF FrameInv

LEMMA CallbackReturnsInv == ASSUME FrameInv, CallbackReturns PROVE FrameInv'
BY HeldGoesBack DEF CallbackReturns

\* A callback that ends with an exception gives its buffer back first.
LEMMA SendThrowsInv == ASSUME FrameInv, SendThrows PROVE FrameInv'
<1>1. /\ at = "callback" /\ held' = 0 /\ at' = "dispatch"
      /\ UNCHANGED <<result, sent, stray, heard, queued, written, budget>>
  BY DEF SendThrows
<1>2. CASE Connected
  <2> DEFINE p == Released(pool, held)
             b == [buffer EXCEPT ![held] = NewBuffer]
             T == ToSet(tx)
  <2>1. Close("internal_error", p, b)
    BY <1>2 DEF SendThrows
  <2>2. held # 0
    BY <1>1 DEF FrameInv, PoolInv
  <2>3. /\ PoolOf(p, T) /\ p.capacity <= budget.slots /\ b \in [Slot -> Buffer(Byte)]
        /\ \A s \in Slot : b[s].headroom + Len(b[s].data) <= BufferCapacity
        /\ \A s \in Slot \ T : b[s] = NewBuffer
    BY <2>2, HeldReleased
  <2>4. T \subseteq Slot /\ 0 \notin Slot /\ budget \in BudgetType
    BY SlotsOf DEF FrameInv, TypesInv
  <2>5. T \cup ({held'} \ {0}) = T /\ held' \notin T /\ held' \in {0} \cup Slot
    BY <1>1, <2>4
  <2>6. /\ "internal_error" \in {"peer_closed", "frame_error", "disconnected", "internal_error"}
        /\ "internal_error" # "peer_closed" /\ "internal_error" # "frame_error"
        /\ at' \in {"idle", "dispatch", "callback"}
        /\ budget' \in BudgetType /\ budget'.slots = budget.slots
    BY <1>1, <2>4
  <2>7. at' = "callback" <=> held' # 0
    BY <1>1
  <2> HIDE DEF p, b
  <2>8. /\ PoolOf(p, ToSet(tx) \cup ({held'} \ {0}))
        /\ \A s \in Slot \ (ToSet(tx) \cup ({held'} \ {0})) : b[s] = NewBuffer
        /\ held' \notin ToSet(tx)
    BY <2>3, <2>5
  <2>9. UNCHANGED <<result, sent, stray, heard, queued, written>>
    BY <1>1
  <2> QED BY <2>1, <2>3, <2>5, <2>6, <2>7, <2>8, <2>9, CloseInv
<1>3. CASE ~Connected
  BY <1>1, <1>3, HeldGoesBack DEF SendThrows
<1> QED BY <1>2, <1>3

\* A message is queued behind the others, in a slot of its own.
LEMMA SendInv ==
    ASSUME FrameInv, NEW payload \in Messages, Send(payload)
    PROVE  FrameInv'
<1> DEFINE slot == Taken(pool)
           x == Framed(payload)
<1>1. /\ at \in {"idle", "callback"} /\ state # "terminated" /\ Stocks /\ Spend("queued")
      /\ UNCHANGED <<ring, held, at, result, socket, sent, stray, heard, written, state>>
  BY DEF Send, Application
<1>2. budget' \in BudgetType /\ budget'.slots = budget.slots /\ budget'.slots <= MaxSlots
  <2>1. "queued" \in {"received", "queued", "disconnects", "connections"}
    OBVIOUS
  <2> QED BY <1>1, <2>1, SpentBudget DEF FrameInv
<1>3. /\ tx \in Seq(Slot) /\ IsInjective(tx) /\ ToSet(tx) \subseteq Slot /\ held \notin ToSet(tx)
      /\ PoolOf(pool, Used) /\ Used \subseteq Slot /\ 0 \notin Slot /\ ToSet(tx) \subseteq Used
      /\ (held # 0 => held \in Used)
  BY SlotsOf DEF Used
<1>4. /\ slot \in Slot \ Used /\ PoolOf(Acquired(pool), Used \cup {slot})
      /\ Acquired(pool).capacity <= budget.slots
  <2>1. /\ budget.slots \in 0..MaxSlots /\ pool.capacity <= budget.slots
        /\ pool.available # <<>> \/ pool.capacity + ChunkSize <= budget.slots
    BY <1>1, SlotsOf DEF Stocks
  <2> QED BY <1>3, <2>1, AcquiredPool
<1>5. /\ buffer \in [Slot -> Buffer(Byte)]
      /\ \A s \in Slot : buffer[s].headroom + Len(buffer[s].data) <= BufferCapacity
      /\ \A s \in Slot \ Used : buffer[s] = NewBuffer
  BY DEF FrameInv, TypesInv, PoolInv
<1>6. HeardInv' /\ ReceiveInv'
  BY <1>1, SameHeard, SameReceive DEF FrameInv
<1>7. CASE Connected /\ Encodes(payload)
  <2>1. /\ pool' = Acquired(pool) /\ tx' = Append(tx, slot) /\ queued' = Append(queued, payload)
        /\ buffer' = [buffer EXCEPT ![slot] = Prepended(Composed(payload), Header(Len(payload)))]
    BY <1>7 DEF Send
  <2>2. /\ payload \in Seq(Byte) /\ Len(payload) \in Nat /\ Len(payload) <= MaxPayload
        /\ payload \in Payload
    <3>1. payload \in Seq(Byte) /\ Len(payload) \in Nat
      BY FrameConstants DEF FrameConstants
    <3>2. TailroomSize(WithHeadroom(NewBuffer, HeaderSize)) = BufferCapacity - HeaderSize - 0
      BY EmptySeq DEF TailroomSize, WithHeadroom, NewBuffer
    <3>3. Len(payload) <= MaxPayload
      BY <1>7, <3>1, <3>2, FrameParameters DEF Encodes
    <3> QED BY <3>1, <3>3 DEF Payload
  <2>3. /\ x \in Seq(Byte) /\ Len(x) = 2 + Len(payload) /\ Len(Header(Len(payload))) = 2
    BY <2>2, FramedIs
  <2>4. Prepended(Composed(payload), Header(Len(payload))) = [headroom |-> 0, data |-> x]
    <3>1. <<>> \o payload = payload
      BY <2>2, ConcatEmptySeq
    <3>2. Composed(payload) = [headroom |-> HeaderSize, data |-> payload]
      <4>1. WithHeadroom(NewBuffer, HeaderSize) = [headroom |-> HeaderSize, data |-> <<>>]
        BY DEF WithHeadroom, NewBuffer
      <4>2. Appended([headroom |-> HeaderSize, data |-> <<>>], payload)
              = [headroom |-> HeaderSize, data |-> <<>> \o payload]
        BY DEF Appended
      <4> QED BY <3>1, <4>1, <4>2 DEF Composed
    <3>3. HeaderSize - Len(Header(Len(payload))) = 0
      BY <2>3, FrameParameters
    <3> QED BY <3>2, <3>3 DEF Prepended, Framed
  <2> HIDE DEF slot, x
  <2>5. /\ buffer' \in [Slot -> Buffer(Byte)]
        /\ \A s \in Slot : buffer'[s].headroom + Len(buffer'[s].data) <= BufferCapacity
        /\ buffer'[slot].data = x /\ \A s \in Slot \ {slot} : buffer'[s] = buffer[s]
    <3>1. 0 + Len(x) <= BufferCapacity /\ 0 \in Nat /\ slot \in Slot
      BY <1>4, <2>2, <2>3, FrameParameters
    <3>2. buffer' = [buffer EXCEPT ![slot] = [headroom |-> 0, data |-> x]]
      BY <2>1, <2>4
    <3>3. BuffersFit(buffer)
      BY <1>5 DEF BuffersFit
    <3>4. BuffersFit(buffer') /\ Differ(buffer, buffer', slot, 0, x)
      BY <2>3, <3>1, <3>2, <3>3, BufferChanged
    <3> QED BY <3>4 DEF BuffersFit, Differ
  <2>6. /\ tx' \in Seq(Slot) /\ IsInjective(tx') /\ ToSet(tx') = ToSet(tx) \cup {slot}
        /\ Len(tx') = Len(tx) + 1 /\ tx'[Len(tx) + 1] = slot
        /\ \A i \in 1..Len(tx) : tx'[i] = tx[i] /\ tx[i] \in ToSet(tx)
    <3> DEFINE one == <<slot>>
    <3>1. one \in Seq(Slot) /\ ToSet(one) = {slot} /\ IsInjective(one) /\ slot \in Slot
      BY <1>4, SetOfOne
    <3>2. tx' = tx \o one
      BY <1>3, <2>1, <3>1, AppendIsConcat
    <3> HIDE DEF one
    <3>3. ToSet(tx) \cap ToSet(one) = {}
      BY <1>3, <1>4, <3>1
    <3>4. tx' \in Seq(Slot) /\ IsInjective(tx') /\ ToSet(tx') = ToSet(tx) \cup {slot}
      BY <1>3, <3>1, <3>2, <3>3, SetOfConcat
    <3>5. \A i \in 1..Len(tx) : tx[i] \in ToSet(tx)
      BY <1>3, SetOf
    <3> QED BY <1>3, <1>4, <2>1, <3>4, <3>5, AppendProperties
  <2>7. TypesInv'
    <3>1. queued' \in Seq(Payload)
      BY <2>1, <2>2, AppendProperties DEF FrameInv, TypesInv
    <3> QED BY <1>1, <1>2, <2>5, <2>6, <3>1 DEF FrameInv, TypesInv
  <2>8. PoolInv'
    <3>1. Used' = Used \cup {slot}
      BY <1>1, <2>6 DEF Used
    <3>2. held \notin ToSet(tx')
      BY <1>3, <1>4, <2>6
    <3>3. \A s \in Slot \ (Used \cup {slot}) : buffer'[s] = NewBuffer
      BY <1>5, <2>5
    <3> QED BY <1>1, <1>2, <1>4, <2>1, <2>6, <3>1, <3>2, <3>3 DEF FrameInv, PoolInv
  <2>9. DataOf(tx', buffer') = Append(DataOf(tx, buffer), x)
    <3> DEFINE d == DataOf(tx, buffer)
               e == DataOf(tx', buffer')
               n == Len(tx)
    <3>1. /\ d \in Seq(Seq(Byte)) /\ Len(d) = n /\ n \in Nat
          /\ \A i \in 1..n : d[i] = buffer[tx[i]].data /\ tx[i] \in Slot
      BY <1>3, <1>5, DataIs
    <3>2. /\ e \in Seq(Seq(Byte)) /\ Len(e) = n + 1
          /\ \A i \in 1..(n + 1) : e[i] = buffer'[tx'[i]].data
      <4>1. /\ e \in Seq(Seq(Byte)) /\ Len(e) = Len(tx')
            /\ \A i \in 1..Len(tx') : e[i] = buffer'[tx'[i]].data
        BY <2>5, <2>6, DataIs
      <4> QED BY <2>6, <4>1
    <3> HIDE DEF d, e
    <3>3. /\ Append(d, x) \in Seq(Seq(Byte)) /\ Len(Append(d, x)) = n + 1
          /\ \A i \in 1..n : Append(d, x)[i] = d[i]
          /\ Append(d, x)[n + 1] = x
      BY <2>3, <3>1, AppendProperties
    <3>4. ASSUME NEW i \in 1..(n + 1) PROVE e[i] = Append(d, x)[i]
      <4>1. CASE i = n + 1
        BY <2>5, <2>6, <3>2, <3>3, <4>1
      <4>2. CASE i # n + 1
        <5>1. i \in 1..n
          BY <3>1, <4>2
        <5>2. tx[i] \in Slot \ {slot} /\ tx'[i] = tx[i]
          BY <1>3, <1>4, <2>6, <5>1
        <5>3. buffer'[tx'[i]].data = buffer[tx[i]].data
          BY <2>5, <5>2
        <5> QED BY <3>1, <3>2, <3>3, <5>1, <5>3
      <4> QED BY <4>1, <4>2
    <3>5. e = Append(d, x)
      BY <3>2, <3>3, <3>4, SeqEqual
    <3> QED BY <3>5 DEF d, e
  <2>10. TransmitInv'
    <3> DEFINE d == DataOf(tx, buffer)
               f == FlattenSeq(d)
               s == Stream(queued)
    <3>1. d \in Seq(Seq(Byte))
      BY <1>3, <1>5, DataIs
    <3>2. f \in Seq(Byte) /\ FlattenSeq(Append(d, x)) = f \o x
      <4> HIDE DEF d
      <4> QED BY <2>3, <3>1, JoinAppend
    <3>3. written \in Seq(Byte) /\ queued \in Seq(Payload)
      BY DEF FrameInv, TypesInv
    <3>4. Stream(queued') = s \o x
      BY <2>1, <2>2, <3>3, StreamAppend DEF x
    <3>5. written \o f = s
      BY <1>7 DEF FrameInv, TransmitInv
    <3> HIDE DEF d, f, s
    <3>6. written \o (f \o x) = (written \o f) \o x
      <4>1. Regrouped(written, f, x)
        BY <2>3, <3>2, <3>3, Regroup
      <4> QED BY <4>1 DEF Regrouped
    <3>7. written' \o FlattenSeq(DataOf(tx', buffer')) = Stream(queued')
      BY <1>1, <2>9, <3>2, <3>4, <3>5, <3>6 DEF d
    <3> QED BY <3>7 DEF TransmitInv
  <2>11. PhaseInv'
    BY <1>1, <1>7 DEF FrameInv, PhaseInv, Connected
  <2> QED BY <1>6, <2>7, <2>8, <2>10, <2>11 DEF FrameInv
<1>8. CASE ~(Connected /\ Encodes(payload))
  <2>1. pool' = Released(Acquired(pool), slot) /\ UNCHANGED <<buffer, tx, queued>>
    BY <1>8 DEF Send
  <2> HIDE DEF slot
  <2>2. PoolOf(pool', Used) /\ pool'.capacity <= budget.slots
    <3> DEFINE q == Acquired(pool)
               V == Used \cup {slot}
    <3>1. PoolOf(q, V) /\ q.capacity <= budget.slots /\ slot \in V /\ slot \in Slot
      BY <1>4
    <3>2. V \ {slot} = Used
      BY <1>4
    <3> HIDE DEF q, V
    <3>3. PoolOf(Released(q, slot), V \ {slot}) /\ Released(q, slot).capacity = q.capacity
      BY <3>1, ReleasedPool
    <3> QED BY <2>1, <3>1, <3>2, <3>3 DEF q
  <2>3. TypesInv'
    BY <1>1, <1>2, <2>1 DEF FrameInv, TypesInv
  <2>4. PoolInv'
    <3>1. Used' = Used
      BY <1>1, <2>1 DEF Used
    <3> QED BY <1>1, <1>2, <2>1, <2>2, <3>1 DEF FrameInv, PoolInv
  <2>5. TransmitInv'
    BY <1>1, <2>1, SameTransmit DEF FrameInv, Connected
  <2>6. PhaseInv'
    BY <1>1, <2>1 DEF FrameInv, PhaseInv, Connected
  <2> QED BY <1>6, <2>3, <2>4, <2>5, <2>6 DEF FrameInv
<1> QED BY <1>7, <1>8

\* What is written is the front of the front buffer.
LEMMA TransmitInvariant == ASSUME FrameInv, Transmit PROVE FrameInv'
<1> DEFINE slot == Head(tx)
           u == buffer[slot].data
           h == buffer[slot].headroom
           d == DataOf(tx, buffer)
           R == FlattenSeq(Tail(d))
<1>1. /\ at = "transmit" /\ tx # <<>>
      /\ UNCHANGED <<ring, held, at, result, sent, stray, heard, queued, state, budget>>
  BY DEF Transmit
<1>2. /\ tx \in Seq(Slot) /\ IsInjective(tx) /\ ToSet(tx) \subseteq Slot /\ held \notin ToSet(tx)
      /\ PoolOf(pool, Used) /\ pool.capacity <= budget.slots /\ held = 0 /\ Used = ToSet(tx)
  BY <1>1, SlotsOf DEF FrameInv, PoolInv
<1>3. /\ buffer \in [Slot -> Buffer(Byte)]
      /\ \A s \in Slot : buffer[s].headroom + Len(buffer[s].data) <= BufferCapacity
      /\ \A s \in Slot \ Used : buffer[s] = NewBuffer
      /\ written \in Seq(Byte)
      /\ socket \in [arrived : Seq(Byte), closed : BOOLEAN, unread : Nat]
  BY DEF FrameInv, TypesInv, PoolInv
<1>4. /\ Tail(tx) \in Seq(Slot) /\ IsInjective(Tail(tx)) /\ Len(Tail(tx)) = Len(tx) - 1
      /\ slot \in ToSet(tx) /\ ToSet(Tail(tx)) = ToSet(tx) \ {slot} /\ slot = tx[1]
      /\ Len(tx) \in Nat \ {0} /\ \A i \in 1..Len(Tail(tx)) : Tail(tx)[i] = tx[i + 1]
  BY <1>1, <1>2, SetOfTail, HeadTailProperties
<1>5. slot \in Slot
  BY <1>2, <1>4
<1>6. u \in Seq(Byte) /\ h \in Nat /\ Len(u) \in Nat /\ buffer[slot] = [headroom |-> h, data |-> u]
      /\ h + Len(u) <= BufferCapacity
  BY <1>3, <1>5, BufferIs
<1>7. PICK n \in 1..Min({Len(u), Room}) :
        /\ written' = written \o SubSeq(u, 1, n)
        /\ socket' = [socket EXCEPT !.unread = @ + n]
        /\ IF n = Len(u)
             THEN /\ tx' = Tail(tx) /\ pool' = Released(pool, slot)
                  /\ buffer' = [buffer EXCEPT ![slot] = NewBuffer]
             ELSE /\ buffer' = [buffer EXCEPT ![slot] = ConsumedFront(@, n)]
                  /\ UNCHANGED <<tx, pool>>
  BY DEF Transmit
<1> DEFINE x == SubSeq(u, 1, n)
           v == SubSeq(u, n + 1, Len(u))
<1>8. n \in 1..Len(u)
  <2>1. Room \in Int
    BY <1>3, FrameParameters DEF Room
  <2> DEFINE k == Len(u)
             m == Min({k, Room})
  <2>2. n \in 1..m /\ k \in Nat
    BY <1>6
  <2>3. m = IF k <= Room THEN k ELSE Room
    <3> HIDE DEF k
    <3> QED BY <2>1, <2>2, MinOfTwo
  <2> HIDE DEF k, m
  <2>4. n \in 1..k
    BY <2>1, <2>2, <2>3
  <2> QED BY <2>4 DEF k
<1>9. /\ x \in Seq(Byte) /\ Len(x) = n /\ v \in Seq(Byte) /\ Len(v) = Len(u) - n /\ x \o v = u
      /\ n \in Nat
  <2> HIDE DEF u
  <2>1. n \in 0..Len(u) /\ n \in Nat
    BY <1>6, <1>8
  <2> QED BY <1>6, <2>1, Halves
<1>10. written' = written \o x /\ written' \in Seq(Byte)
  <2>1. written' = written \o x
    BY <1>7
  <2> HIDE DEF x
  <2> QED BY <1>3, <1>9, <2>1, ConcatProperties
<1>11. /\ socket' \in [arrived : Seq(Byte), closed : BOOLEAN, unread : Nat]
       /\ socket'.arrived = socket.arrived /\ socket'.closed = socket.closed
  <2>1. socket' = [socket EXCEPT !.unread = @ + n]
    BY <1>7
  <2>2. n \in Nat
    BY <1>9
  <2> QED BY <1>3, <2>1, <2>2
<1>12. HeardInv' /\ ReceiveInv'
  <2>1. ReceiveInv'
    BY <1>1, <1>11 DEF FrameInv, ReceiveInv, Rest, Connected
  <2> QED BY <1>1, <2>1, SameHeard DEF FrameInv
<1>13. /\ d \in Seq(Seq(Byte)) /\ Len(d) = Len(tx) /\ d # <<>> /\ Head(d) = u
       /\ \A i \in 1..Len(tx) : d[i] = buffer[tx[i]].data
       /\ Tail(d) \in Seq(Seq(Byte)) /\ Len(Tail(d)) = Len(tx) - 1
       /\ \A i \in 1..Len(Tail(d)) : Tail(d)[i] = d[i + 1]
  <2>1. /\ d \in Seq(Seq(Byte)) /\ Len(d) = Len(tx)
        /\ \A i \in 1..Len(tx) : d[i] = buffer[tx[i]].data
    BY <1>2, <1>3, DataIs
  <2> HIDE DEF d, slot
  <2>2. d # <<>> /\ Head(d) = d[1] /\ 1 \in 1..Len(tx)
    BY <1>4, <2>1
  <2>3. Head(d) = u
    BY <1>4, <2>1, <2>2
  <2>4. /\ Tail(d) \in Seq(Seq(Byte)) /\ Len(Tail(d)) = Len(d) - 1
        /\ \A i \in 1..Len(Tail(d)) : Tail(d)[i] = d[i + 1]
    <3> HIDE DEF u
    <3> QED BY <2>1, <2>2, HeadTailProperties
  <2> QED BY <2>1, <2>2, <2>3, <2>4
<1>14. FlattenSeq(d) = u \o R /\ R \in Seq(Byte)
  <2> HIDE DEF d, u
  <2> QED BY <1>13, JoinFirst
<1>15. state = "connected" /\ written \o FlattenSeq(d) = Stream(queued)
  BY <1>1 DEF FrameInv, PhaseInv, TransmitInv, Connected
<1> HIDE DEF u, h, d, R, x, v
\* What is written and what is left are what was to be written.
<1>16. written' \o (v \o R) = Stream(queued)
  <2>1. (written \o x) \o (v \o R) = written \o (x \o (v \o R))
    <3>1. v \o R \in Seq(Byte)
      BY <1>9, <1>14, ConcatProperties
    <3>2. Regrouped(written, x, v \o R)
      BY <1>3, <1>9, <3>1, Regroup
    <3> QED BY <3>2 DEF Regrouped
  <2>2. x \o (v \o R) = (x \o v) \o R
    <3>1. Regrouped(x, v, R)
      BY <1>9, <1>14, Regroup
    <3> QED BY <3>1 DEF Regrouped
  <2> QED BY <1>9, <1>10, <1>14, <1>15, <2>1, <2>2
<1>17. CASE n = Len(u)
  <2>1. /\ tx' = Tail(tx) /\ pool' = Released(pool, slot)
        /\ buffer' = [buffer EXCEPT ![slot] = NewBuffer]
    BY <1>7, <1>17 DEF u
  <2> HIDE DEF slot
  <2>2. PoolOf(pool', Used \ {slot}) /\ pool'.capacity <= budget.slots
    BY <1>2, <1>4, <1>5, <2>1, ReleasedPool
  <2>3. /\ buffer' \in [Slot -> Buffer(Byte)]
        /\ \A s \in Slot : buffer'[s].headroom + Len(buffer'[s].data) <= BufferCapacity
        /\ buffer'[slot] = NewBuffer /\ \A s \in Slot \ {slot} : buffer'[s] = buffer[s]
    <3>1. 0 + Len(<<>>) <= BufferCapacity /\ 0 \in Nat /\ <<>> \in Seq(Byte)
      BY BufferIs, FrameParameters
    <3>2. buffer' = [buffer EXCEPT ![slot] = [headroom |-> 0, data |-> <<>>]]
      BY <2>1 DEF NewBuffer
    <3>3. buffer'[slot] = NewBuffer
      BY <1>3, <1>5, <2>1
    <3>4. BuffersFit(buffer) /\ slot \in Slot
      BY <1>3, <1>5 DEF BuffersFit
    <3>5. BuffersFit(buffer') /\ Differ(buffer, buffer', slot, 0, <<>>)
      BY <3>1, <3>2, <3>4, BufferChanged
    <3> QED BY <3>3, <3>5 DEF BuffersFit, Differ
  <2>4. TypesInv'
    BY <1>1, <1>4, <1>10, <1>11, <2>1, <2>3 DEF FrameInv, TypesInv
  <2>5. PoolInv'
    <3>1. Used' = Used \ {slot}
      BY <1>1, <1>2, <1>4, <2>1 DEF Used
    <3>2. \A s \in Slot \ (Used \ {slot}) : buffer'[s] = NewBuffer
      BY <1>3, <2>3
    <3>3. held \notin ToSet(tx')
      BY <1>2, <1>4, <2>1
    <3> QED BY <1>1, <1>4, <2>1, <2>2, <3>1, <3>2, <3>3 DEF FrameInv, PoolInv
  <2>6. DataOf(tx', buffer') = Tail(d)
    <3> DEFINE e == DataOf(tx', buffer')
               t == Tail(tx)
               w == Tail(d)
    <3>1. /\ t \in Seq(Slot) /\ tx' = t /\ Len(t) = Len(tx) - 1 /\ Len(tx) \in Nat
          /\ \A i \in 1..Len(t) : t[i] = tx[i + 1] /\ t[i] \in Slot \ {slot}
      <4>1. t = Tail(tx) /\ t \in Seq(Slot)
        BY <1>4
      <4> HIDE DEF t
      <4>2. \A i \in 1..Len(t) : t[i] \in ToSet(t)
        BY <4>1, Members
      <4> QED BY <1>2, <1>4, <2>1, <4>1, <4>2
    <3>2. /\ e \in Seq(Seq(Byte)) /\ Len(e) = Len(t) /\ \A i \in 1..Len(t) : e[i] = buffer'[t[i]].data
      BY <2>3, <3>1, DataIs
    <3>3. w \in Seq(Seq(Byte)) /\ Len(w) = Len(tx) - 1 /\ \A i \in 1..Len(w) : w[i] = d[i + 1]
      BY <1>13
    <3> HIDE DEF e, t, w
    <3>4. ASSUME NEW i \in 1..Len(t) PROVE e[i] = w[i]
      <4>1. i + 1 \in 1..Len(tx) /\ i \in 1..Len(w)
        BY <3>1, <3>3
      <4>2. buffer'[t[i]] = buffer[tx[i + 1]]
        BY <2>3, <3>1
      <4> QED BY <1>13, <3>2, <3>3, <4>1, <4>2
    <3>5. e = w
      <4>1. Len(e) = Len(w) /\ \A i \in 1..Len(e) : e[i] = w[i]
        BY <3>1, <3>2, <3>3, <3>4
      <4> QED BY <3>2, <3>3, <4>1, SeqEqual
    <3> QED BY <3>5 DEF e, w
  <2>7. v \o R = R
    <3>1. Len(v) = 0
      BY <1>6, <1>9, <1>17 DEF u
    <3>2. v = <<>>
      BY <1>9, <3>1
    <3> QED BY <1>14, <3>2, ConcatEmptySeq
  <2>8. TransmitInv'
    BY <1>1, <1>15, <1>16, <2>6, <2>7 DEF TransmitInv, R
  <2>9. PhaseInv'
    BY <1>1, <1>15 DEF FrameInv, PhaseInv, Connected
  <2> QED BY <1>12, <2>4, <2>5, <2>8, <2>9 DEF FrameInv
<1>18. CASE n # Len(u)
  <2>1. /\ UNCHANGED <<tx, pool>>
        /\ buffer' = [buffer EXCEPT ![slot] = ConsumedFront(@, n)]
    BY <1>7, <1>18 DEF u
  <2> HIDE DEF slot
  <2>2. buffer' = [buffer EXCEPT ![slot] = [headroom |-> h + n, data |-> v]]
    <3>1. ConsumedFront(buffer[slot], n) = [headroom |-> h + n, data |-> v]
      BY DEF ConsumedFront, h, v, u
    <3> QED BY <1>3, <1>5, <2>1, <3>1
  <2>3. /\ buffer' \in [Slot -> Buffer(Byte)]
        /\ \A s \in Slot : buffer'[s].headroom + Len(buffer'[s].data) <= BufferCapacity
        /\ buffer'[slot].data = v /\ \A s \in Slot \ {slot} : buffer'[s] = buffer[s]
    <3> DEFINE k == h + n
    <3>1. k \in Nat /\ k + Len(v) <= BufferCapacity
      <4>1. h \in Nat /\ Len(u) \in Nat /\ h + Len(u) <= BufferCapacity
        BY <1>6
      <4> QED BY <1>8, <1>9, <4>1, FrameParameters
    <3>2. buffer' = [buffer EXCEPT ![slot] = [headroom |-> k, data |-> v]]
      BY <2>2
    <3> HIDE DEF k
    <3>3. BuffersFit(buffer) /\ slot \in Slot /\ v \in Seq(Byte)
      BY <1>3, <1>5, <1>9 DEF BuffersFit
    <3>4. BuffersFit(buffer') /\ Differ(buffer, buffer', slot, k, v)
      BY <3>1, <3>2, <3>3, BufferChanged
    <3> QED BY <3>4 DEF BuffersFit, Differ
  <2>4. TypesInv'
    BY <1>1, <1>10, <1>11, <2>1, <2>3 DEF FrameInv, TypesInv
  <2>5. PoolInv'
    <3>1. Used' = Used
      BY <1>1, <2>1 DEF Used
    <3>2. \A s \in Slot \ Used : buffer'[s] = NewBuffer
      BY <1>2, <1>3, <1>4, <2>3
    <3> QED BY <1>1, <2>1, <3>1, <3>2 DEF FrameInv, PoolInv
  <2>6. DataOf(tx, buffer') # <<>> /\ DataOf(tx, buffer') \in Seq(Seq(Byte))
        /\ Head(DataOf(tx, buffer')) = v /\ Tail(DataOf(tx, buffer')) = Tail(d)
    <3> DEFINE e == DataOf(tx, buffer')
               w == Tail(d)
    <3>1. /\ e \in Seq(Seq(Byte)) /\ Len(e) = Len(tx)
          /\ \A i \in 1..Len(tx) : e[i] = buffer'[tx[i]].data /\ tx[i] \in Slot
      BY <1>2, <2>3, DataIs
    <3>2. w \in Seq(Seq(Byte)) /\ Len(w) = Len(tx) - 1 /\ \A i \in 1..Len(w) : w[i] = d[i + 1]
      BY <1>13
    <3> HIDE DEF e, w
    <3>3. 1 \in 1..Len(tx) /\ e # <<>> /\ Head(e) = e[1]
      BY <1>4, <3>1
    <3>4. e[1] = v
      BY <1>4, <2>3, <3>1, <3>3
    <3>5. /\ Tail(e) \in Seq(Seq(Byte)) /\ Len(Tail(e)) = Len(e) - 1
          /\ \A i \in 1..Len(Tail(e)) : Tail(e)[i] = e[i + 1]
      BY <3>1, <3>3, HeadTailProperties
    <3>6. ASSUME NEW i \in 1..Len(w) PROVE Tail(e)[i] = w[i]
      <4>1. i + 1 \in 1..Len(tx) /\ i + 1 # 1 /\ i \in 1..Len(Tail(e))
        BY <1>4, <3>1, <3>2, <3>5
      <4>2. tx[i + 1] # slot
        BY <1>2, <1>4, <3>3, <4>1, InjectiveIs
      <4>3. buffer'[tx[i + 1]] = buffer[tx[i + 1]]
        BY <2>3, <3>1, <4>1, <4>2
      <4> QED BY <1>13, <3>1, <3>2, <3>5, <4>1, <4>3
    <3>7. Len(w) = Len(Tail(e))
      BY <3>1, <3>2, <3>5
    <3>8. Tail(e) = w
      BY <3>2, <3>5, <3>6, <3>7, SeqEqual
    <3> QED BY <3>1, <3>3, <3>4, <3>8 DEF e, w
  <2>7. FlattenSeq(DataOf(tx, buffer')) = v \o R
    <3> DEFINE e == DataOf(tx, buffer')
    <3>1. e # <<>> /\ e \in Seq(Seq(Byte)) /\ Head(e) = v /\ Tail(e) = Tail(d)
      BY <2>6
    <3> HIDE DEF e
    <3>2. FlattenSeq(e) = Head(e) \o FlattenSeq(Tail(e))
      BY <3>1, JoinFirst
    <3> QED BY <3>1, <3>2 DEF e, R
  <2>8. TransmitInv'
    BY <1>1, <1>16, <2>1, <2>7 DEF TransmitInv
  <2>9. PhaseInv'
    BY <1>1, <1>15, <2>1 DEF FrameInv, PhaseInv, Connected
  <2> QED BY <1>12, <2>4, <2>5, <2>8, <2>9 DEF FrameInv
<1> QED BY <1>17, <1>18

----------------------------------------------------------------------------
(* What the invariant says *)

\* The pool is exact.
LEMMA InvPoolExact == ASSUME FrameInv PROVE PoolExact
<1>1. PoolOf(pool, Used) /\ IsInjective(tx) /\ held \notin ToSet(tx)
      /\ \A s \in Slot \ Used : buffer[s] = NewBuffer
  BY DEF FrameInv, PoolInv
<1>2. /\ IsInjective(pool.available) /\ pool.available \in Seq(Slot)
      /\ ToSet(pool.available) \cup Used = 1..pool.capacity
      /\ ToSet(pool.available) \cap Used = {}
  BY <1>1 DEF PoolOf
<1>3. ToSet(pool.available) \subseteq Slot \ Used
  BY <1>2, SetOf
<1>4. InUse(pool) = Cardinality(Used)
  BY <1>1, PoolCounts
<1> QED BY <1>1, <1>2, <1>3, <1>4 DEF PoolExact, Used

\* A full ring holds the longest frame.
LEMMA InvNeverStuck == ASSUME FrameInv PROVE NeverStuck
<1> DEFINE b == Contents(ring)
<1>1. WellFormed(ring)
  BY DEF FrameInv, TypesInv
<1>2. b \in Seq(Byte) /\ Len(b) = RingSize(ring) /\ RingSize(ring) \in Nat
  BY <1>1, ContentsType
<1>3. /\ Decoded(ring) = "ok" <=> BeginWithFrame(b)
      /\ Decoded(ring) \in {"bad_magic", "too_long"} <=>
           Len(b) >= 2 /\ (b[1] # Magic \/ b[2] > MaxPayload)
  BY <1>1, DecodedIs
<1> HIDE DEF b
<1>4. ASSUME RingFull(ring) PROVE Decoded(ring) # "incomplete"
  <2>1. Len(b) >= HeaderSize + MaxPayload /\ HeaderSize = 2 /\ MaxPayload \in Nat
    BY <1>2, <1>4, FrameParameters DEF RingFull
  <2>2. Len(b) >= 2 /\ 2 \in 1..Len(b)
    BY <1>2, <2>1
  <2>3. b[2] \in Nat
    <3>1. b[2] \in Byte
      BY <1>2, <2>2, ElementOfSeq
    <3> QED BY <3>1, FrameParameters DEF Byte
  <2>4. CASE b[1] # Magic \/ b[2] > MaxPayload
    BY <1>3, <2>2, <2>4
  <2>5. CASE b[1] = Magic /\ ~(b[2] > MaxPayload)
    <3>1. b[2] <= MaxPayload /\ Len(b) >= HeaderSize + b[2]
      BY <1>2, <2>1, <2>3, <2>5
    <3>2. BeginWithFrame(b)
      BY <2>1, <2>2, <2>5, <3>1 DEF BeginWithFrame
    <3> QED BY <1>3, <3>2
  <2> QED BY <2>4, <2>5
<1> QED BY <1>4 DEF NeverStuck

LEMMA InvTypes == ASSUME FrameInv PROVE FrameTypeOK
<1>1. TypesInv /\ pool.capacity \in Nat /\ pool.capacity <= MaxSlots
  BY DEF FrameInv, PoolInv, PoolOf
<1>2. pool.capacity \in 0..MaxSlots
  BY <1>1, FrameParameters
<1> QED BY <1>1, <1>2 DEF FrameTypeOK, TypesInv, WellFormed

\* What was delivered is the front of what was sent.
LEMMA HeardIsFront ==
    ASSUME TypesInv, HeardInv
    PROVE  /\ heard = SubSeq(sent, 1, Len(heard)) /\ IsPrefix(heard, sent)
           /\ Len(heard) \in 0..Len(sent) /\ heard \in Seq(Payload) /\ sent \in Seq(Payload)
<1>1. /\ heard \in Seq(Payload) /\ sent \in Seq(Payload) /\ Len(heard) \in 0..Len(sent)
      /\ \A i \in 1..Len(heard) : heard[i] = sent[i]
  <2>1. heard \in Seq(Payload) /\ sent \in Seq(Payload)
    BY DEF TypesInv
  <2>2. Len(heard) <= Len(sent) /\ \A i \in 1..Len(heard) : heard[i] = sent[i]
    BY DEF HeardInv
  <2>3. Len(heard) \in Nat /\ Len(sent) \in Nat
    BY <2>1, LenProperties
  <2> QED BY <2>1, <2>2, <2>3
<1> DEFINE front == SubSeq(sent, 1, Len(heard))
<1>2. /\ front \in Seq(Payload) /\ Len(front) = Len(heard)
      /\ \A i \in 1..Len(heard) : front[i] = sent[i]
  BY <1>1
<1>3. heard = front
  <2> HIDE DEF front
  <2>1. \A i \in 1..Len(heard) : heard[i] = front[i]
    BY <1>1, <1>2
  <2> QED BY <1>1, <1>2, <2>1, SeqEqual
<1>4. SubSeq(heard, 1, Len(heard)) = heard
  BY <1>1
<1>5. Len(heard) <= Len(sent)
  BY <1>1
<1> QED BY <1>1, <1>3, <1>4, <1>5 DEF IsPrefix

\* The bytes of the peer, and those of the messages.
LEMMA InvBytesInOrder == ASSUME FrameInv PROVE BytesInOrder
<1> SUFFICES ASSUME Connected
             PROVE  /\ Stream(heard) \o Peeked(ring, RingSize(ring)) \o socket.arrived
                         = Stream(sent) \o stray
                    /\ written \o FlattenSeq([i \in DOMAIN tx |-> buffer[tx[i]].data])
                         = Stream(queued)
  BY DEF BytesInOrder
<1>1. TypesInv /\ HeardInv /\ ReceiveInv /\ TransmitInv
  BY DEF FrameInv
<1>2. /\ heard = SubSeq(sent, 1, Len(heard)) /\ Len(heard) \in 0..Len(sent)
      /\ heard \in Seq(Payload) /\ sent \in Seq(Payload)
  BY <1>1, HeardIsFront
<1>3. Rest \in Seq(Payload) /\ Contents(ring) \in Seq(Byte)
      /\ socket.arrived \in Seq(Byte) /\ stray \in Seq(Byte)
  BY <1>1, RestType, ContentsType DEF TypesInv
<1>4. Contents(ring) \o socket.arrived = Stream(Rest) \o stray
  BY <1>1 DEF ReceiveInv
<1>5. Stream(heard) \o Stream(Rest) = Stream(sent)
  BY <1>2, StreamCut DEF Rest
<1>6. Stream(heard) \in Seq(Byte) /\ Stream(Rest) \in Seq(Byte)
  BY <1>2, <1>3, StreamType
<1>7. (Stream(heard) \o Contents(ring)) \o socket.arrived = Stream(sent) \o stray
  <2>1. (Stream(heard) \o Contents(ring)) \o socket.arrived
          = Stream(heard) \o (Contents(ring) \o socket.arrived)
    <3>1. Regrouped(Stream(heard), Contents(ring), socket.arrived)
      BY <1>3, <1>6, Regroup
    <3> QED BY <3>1 DEF Regrouped
  <2>2. (Stream(heard) \o Stream(Rest)) \o stray = Stream(heard) \o (Stream(Rest) \o stray)
    <3>1. Regrouped(Stream(heard), Stream(Rest), stray)
      BY <1>3, <1>6, Regroup
    <3> QED BY <3>1 DEF Regrouped
  <2> QED BY <1>4, <1>5, <2>1, <2>2
<1> QED BY <1>1, <1>7 DEF Contents, TransmitInv, DataOf

LEMMA InvEndsTruthful == ASSUME FrameInv PROVE EndsTruthful
BY HeardIsFront DEF FrameInv, ReceiveInv, EndsTruthful

----------------------------------------------------------------------------

\* Every step of the specification keeps the invariant.
LEMMA InvStep == ASSUME FrameInv, [FrameNext]_frameVars PROVE FrameInv'
<1>1. CASE OnConnectionEvent
  BY <1>1, OnConnectionEventInv
<1>2. CASE Receive
  BY <1>2, ReceiveInvariant
<1>3. CASE ReceiveReturns
  BY <1>3, ReceiveReturnsInv
<1>4. CASE DispatchFrame
  BY <1>4, DispatchFrameInv
<1>5. CASE DispatchThrows
  BY <1>5, DispatchThrowsInv
<1>6. CASE FrameError
  BY <1>6, FrameErrorInv
<1>7. CASE DispatchReturns
  BY <1>7, DispatchReturnsInv
<1>8. CASE Transmit
  BY <1>8, TransmitInvariant
<1>9. CASE TransmitReturns
  BY <1>9, TransmitReturnsInv
<1>10. CASE \E m \in Messages : Send(m)
  <2>1. PICK m \in Messages : Send(m)
    BY <1>10
  <2> QED BY <2>1, SendInv
<1>11. CASE SendThrows
  BY <1>11, SendThrowsInv
<1>12. CASE Disconnect
  BY <1>12, DisconnectInv
<1>13. CASE CallbackReturns
  BY <1>13, CallbackReturnsInv
<1>14. CASE Reconnect
  BY <1>14, ReconnectInv
<1>15. CASE \E p \in Payloads : PeerSends(p)
  <2>1. PICK p \in Payloads : PeerSends(p)
    BY <1>15
  <2> QED BY <2>1, PeerSendsInv
<1>16. CASE \E b \in Strays : PeerStrays(b)
  <2>1. PICK b \in Strays : PeerStrays(b)
    BY <1>16
  <2> QED BY <2>1, PeerStraysInv
<1>17. CASE PeerCloses
  BY <1>17, PeerClosesInv
<1>18. CASE PeerReads
  BY <1>18, PeerReadsInv
<1>19. CASE UNCHANGED frameVars
  BY <1>19, StutterInv
<1> QED BY <1>1, <1>2, <1>3, <1>4, <1>5, <1>6, <1>7, <1>8, <1>9, <1>10, <1>11, <1>12, <1>13,
           <1>14, <1>15, <1>16, <1>17, <1>18, <1>19 DEF FrameNext

\* The inductive invariant holds of every behaviour.
LEMMA InvAlways == FrameSpec => []FrameInv
<1>1. FrameInit => FrameInv
  BY InitialInv
<1>2. FrameInv /\ [FrameNext]_frameVars => FrameInv'
  BY InvStep
<1> QED BY <1>1, <1>2, PTL DEF FrameSpec

\* Whatever the socket does with the bytes, every slot of the pool is available, queued or
\* held by a callback, once, and reset when it is available (ObjectPool::acquire, release
\* and every way a connection ends), and a full receive ring never waits for more bytes
\* (dispatch_frames).
THEOREM FramesAlwaysConsistent == FrameSpec => []FramesConsistent
<1>1. FrameInv => FramesConsistent
  BY InvTypes, InvPoolExact, InvNeverStuck DEF FramesConsistent
<1> QED BY <1>1, InvAlways, PTL

\* However frames are cut by the socket and wrapped by the ring, what is delivered is the
\* front of what the peer sent, what is written is the frames of the accepted messages in
\* order, and an orderly end is told only after everything before it (receive_into,
\* decode_frame, encode_frame, transmit_from).
THEOREM StreamsAlwaysIntact == FrameSpec => []StreamsIntact
<1>1. FrameInv => StreamsIntact
  BY InvBytesInOrder, InvEndsTruthful DEF StreamsIntact
<1> QED BY <1>1, InvAlways, PTL

----------------------------------------------------------------------------
(* Messages: their types and fields *)

LEMMA MessageTypes ==
    /\ Type = {"register_request", "register_outcome", "register_ack", "heartbeat",
               "status_report", "command_request", "command_ack", "command_outcome"}
    /\ \A t \in Type : TypeByte[t] \in DOMAIN Types /\ Types[TypeByte[t]] = t
    /\ DOMAIN Types = 1..8 /\ Len(Types) = 8
<1>1. DOMAIN Types = 1..8 /\ Len(Types) = 8
  BY DEF Types
<1>2. Type = {Types[1], Types[2], Types[3], Types[4], Types[5], Types[6], Types[7], Types[8]}
  BY <1>1 DEF Type
<1>3. ASSUME NEW t \in Type PROVE TypeByte[t] \in DOMAIN Types /\ Types[TypeByte[t]] = t
  <2>1. \E i \in DOMAIN Types : Types[i] = t
    BY DEF Type
  <2>2. TypeByte[t] = CHOOSE i \in DOMAIN Types : Types[i] = t
    BY DEF TypeByte
  <2> QED BY <2>1, <2>2
<1>4. Type = {"register_request", "register_outcome", "register_ack", "heartbeat",
               "status_report", "command_request", "command_ack", "command_outcome"}
  BY <1>2 DEF Types
<1> QED BY <1>1, <1>3, <1>4

Kinds == {"string", "uuid", "u8", "u64", "f64"}

LEMMA MessageFields ==
    ASSUME NEW t \in Type
    PROVE  /\ DecoderFields[t] = EncoderFields[t]
           /\ EncoderFields[t] \in Seq(Kinds)
<1>1. DecoderFields[t] = EncoderFields[t]
  BY MessageTypes DEF DecoderFields, EncoderFields
<1>2. /\ {"string", "uuid", "u8", "u64", "f64"} = Kinds /\ <<>> \in Seq(Kinds)
      /\ \A a, b, c \in Kinds : /\ <<a>> \in Seq(Kinds) /\ <<a, b>> \in Seq(Kinds)
                                /\ <<a, b, c>> \in Seq(Kinds)
  BY DEF Kinds
<1>3. EncoderFields[t] \in {<<"uuid", "string">>, <<"u8">>, <<>>, <<"u8", "f64", "f64">>,
                           <<"u64", "u8">>, <<"u64">>}
  BY MessageTypes DEF EncoderFields
<1>4. EncoderFields[t] \in Seq(Kinds)
  BY <1>2, <1>3
<1> QED BY <1>1, <1>4

\* A field on the wire.
FieldBytes(kind, value) ==
    CASE kind = "string" -> LeBytes(Len(value), Width["u16"]) \o value
      [] kind = "uuid" -> value
      [] OTHER -> LeBytes(value, Width[kind])

LEMMA OctetsAreNumbers ==
    ASSUME CodecConstants
    PROVE  /\ Base \in Nat /\ Base > 8 /\ Base * Base \in Nat
           /\ \A n \in Wide : n % Base \in Octet /\ n \div Base \in Octet
                                /\ (n % Base) + Base * (n \div Base) = n
<1>1. Base \in Nat /\ Base > 8
  BY MessageTypes DEF CodecConstants
<1>2. \A b \in Nat : b > 8 => b * b \in Nat /\ \A n \in 0..(b * b - 1) :
         n % b \in 0..(b - 1) /\ n \div b \in 0..(b - 1) /\ (n % b) + b * (n \div b) = n
  OBVIOUS
<1> QED BY <1>1, <1>2 DEF Wide, Octet

LEMMA Concatenated ==
    ASSUME NEW S, NEW a, NEW b, a \in Seq(S), b \in Seq(S)
    PROVE  /\ a \o b \in Seq(S)
           /\ Len(a) \in Nat /\ Len(b) \in Nat /\ Len(a \o b) = Len(a) + Len(b)
           /\ \A i \in 1..(Len(a) + Len(b)) :
                 (a \o b)[i] = IF i <= Len(a) THEN a[i] ELSE b[i - Len(a)]
BY ConcatProperties

LEMMA TupleIsSeq ==
    ASSUME NEW S, NEW n \in Nat, NEW f \in [1..n -> S]
    PROVE  f \in Seq(S) /\ Len(f) = n
OBVIOUS

LEMMA FieldOnWire ==
    ASSUME CodecConstants, NEW kind \in Kinds, NEW value \in FieldValues(kind),
           FieldSize(kind, value) < Base * Base
    PROVE  /\ FieldBytes(kind, value) \in Seq(Octet)
           /\ Len(FieldBytes(kind, value)) = FieldSize(kind, value)
           /\ FieldSize(kind, value) \in Nat \ {0}
<1>1. \A a, b \in Octet : /\ <<a>> \in Seq(Octet) /\ Len(<<a>>) = 1
                         /\ <<a, b>> \in Seq(Octet) /\ Len(<<a, b>>) = 2
  OBVIOUS
<1>2. ASSUME NEW n \in Wide
      PROVE  LeBytes(n, 2) \in Seq(Octet) /\ Len(LeBytes(n, 2)) = 2
  BY <1>1, OctetsAreNumbers DEF LeBytes
<1>3. CASE kind = "string"
  <2>1. value \in Seq(Octet) /\ FieldSize(kind, value) = 2 + Len(value)
    BY <1>3 DEF FieldValues, FieldSize, Width
  <2>2. Len(value) \in Wide
    BY <2>1, OctetsAreNumbers DEF Wide
  <2>3. FieldBytes(kind, value) = LeBytes(Len(value), 2) \o value
    BY <1>3 DEF FieldBytes, Width
  <2> DEFINE le == LeBytes(Len(value), 2)
  <2>4. le \in Seq(Octet) /\ Len(le) = 2
    BY <1>2, <2>2
  <2>m. le \in Seq(Octet) /\ value \in Seq(Octet)
    BY <2>1, <2>4
  <2> HIDE DEF le
  <2>c. le \o value \in Seq(Octet) /\ Len(le \o value) = Len(le) + Len(value)
    BY ONLY <2>m, Concatenated
  <2>5. le \o value \in Seq(Octet) /\ Len(le \o value) = 2 + Len(value)
    BY <2>4, <2>c
  <2> QED BY <2>1, <2>3, <2>5 DEF le
<1>4. CASE kind = "uuid"
  <2>1. value \in [1..3 -> Octet] /\ FieldSize(kind, value) = 3 /\ FieldBytes(kind, value) = value
    BY <1>4 DEF FieldValues, FieldSize, FieldBytes, UuidSize
  <2>2. value \in Seq(Octet) /\ Len(value) = 3
    BY <2>1, TupleIsSeq
  <2> QED BY <2>1, <2>2
<1>5. CASE kind = "u8"
  <2>1. value \in Octet /\ FieldSize(kind, value) = 1 /\ FieldBytes(kind, value) = <<value>>
    BY <1>5 DEF FieldValues, FieldSize, FieldBytes, Width, LeBytes
  <2> QED BY <1>1, <2>1
<1>6. CASE kind \in {"u64", "f64"}
  <2>1. value \in Wide /\ FieldSize(kind, value) = 2 /\ FieldBytes(kind, value) = LeBytes(value, 2)
    BY <1>6 DEF FieldValues, FieldSize, FieldBytes, Width
  <2> QED BY <1>2, <2>1
<1> QED BY <1>3, <1>4, <1>5, <1>6 DEF Kinds

\* The bytes a buffer has taken and the room it has left.
Buffered(out, room, data) ==
    /\ out.ok /\ out.room = room /\ out.data = data /\ room \in Nat /\ data \in Seq(Octet)

LEMMA BytesAppended ==
    ASSUME NEW out, NEW r, NEW d, Buffered(out, r, d), NEW b \in Seq(Octet)
    PROVE  /\ Len(b) <= r =>
                /\ Buffered(AppendBytes(out, b), r - Len(b), d \o b)
                /\ Len(d \o b) = Len(d) + Len(b)
                /\ \A i \in 1..Len(d) : (d \o b)[i] = d[i]
                /\ \A i \in 1..Len(b) : (d \o b)[Len(d) + i] = b[i]
           /\ ~(Len(b) <= r) => ~AppendBytes(out, b).ok
<1>1. CASE Len(b) <= r
  <2>1. AppendBytes(out, b) = [ok |-> TRUE, room |-> r - Len(b), data |-> d \o b]
    BY <1>1 DEF AppendBytes, Buffered
  <2>2. r \in Nat /\ d \in Seq(Octet)
    BY DEF Buffered
  <2>3. d \o b \in Seq(Octet) /\ r - Len(b) \in Nat
    BY <1>1, <2>2
  <2>4. /\ Len(d \o b) = Len(d) + Len(b) /\ Len(d) \in Nat /\ Len(b) \in Nat
        /\ \A i \in 1..(Len(d) + Len(b)) : (d \o b)[i] = IF i <= Len(d) THEN d[i] ELSE b[i - Len(d)]
    BY <2>2, ConcatProperties, LenProperties
  <2>5. \A i \in 1..Len(b) : Len(d) + i \in 1..(Len(d) + Len(b)) /\ ~(Len(d) + i <= Len(d))
                               /\ Len(d) + i - Len(d) = i
    BY <2>4
  <2> QED BY <1>1, <2>1, <2>2, <2>3, <2>4, <2>5 DEF Buffered
<1>2. CASE ~(Len(b) <= r)
  BY <1>2 DEF AppendBytes, Buffered, Failed
<1> QED BY <1>1, <1>2

\* A field is appended whole, or not.
LEMMA FieldAppended ==
    ASSUME CodecConstants, NEW out, NEW r \in Wide, NEW d, Buffered(out, r, d),
           NEW kind \in Kinds, NEW value \in FieldValues(kind)
    PROVE  LET next == AppendField(out, kind, value)
               size == FieldSize(kind, value) IN
           IF size <= r
             THEN /\ Buffered(next, r - size, next.data) /\ Len(next.data) = Len(d) + size
                  /\ \A i \in 1..Len(d) : next.data[i] = d[i]
                  /\ \A i \in 1..size : next.data[Len(d) + i] = FieldBytes(kind, value)[i]
             ELSE ~next.ok
<1> DEFINE size == FieldSize(kind, value)
           b == FieldBytes(kind, value)
<1>1. r \in Nat /\ r < Base * Base /\ d \in Seq(Octet) /\ Len(d) \in Nat
  BY OctetsAreNumbers, LenProperties DEF Wide, Buffered
<1>2. CASE kind # "string"
  <2>1. size <= 3 /\ size \in Nat
    BY <1>2 DEF FieldSize, Width, UuidSize, Kinds
  <2>2. 3 < Base * Base
    <3>1. \A x \in Nat : x > 8 => 3 < x * x
      OBVIOUS
    <3> QED BY <3>1, OctetsAreNumbers
  <2>3. size < Base * Base
    BY <2>1, <2>2, OctetsAreNumbers
  <2>4. b \in Seq(Octet) /\ Len(b) = size
    BY <2>3, FieldOnWire
  <2>5. AppendField(out, kind, value) = AppendBytes(out, b)
    BY <1>2 DEF AppendField, FieldBytes
  <2> HIDE DEF b, size
  <2> DEFINE next == AppendBytes(out, b)
  <2>6. b \in Seq(Octet)
    BY <2>4
  <2>7. /\ Len(b) <= r => /\ Buffered(next, r - Len(b), d \o b) /\ Len(d \o b) = Len(d) + Len(b)
                          /\ \A i \in 1..Len(d) : (d \o b)[i] = d[i]
                          /\ \A i \in 1..Len(b) : (d \o b)[Len(d) + i] = b[i]
        /\ ~(Len(b) <= r) => ~next.ok
    BY <2>6, BytesAppended
  <2> HIDE DEF next
  <2>8. Len(b) <= r => next.data = d \o b
    BY <2>7 DEF Buffered
  <2> QED BY <2>4, <2>5, <2>7, <2>8 DEF b, size, next
<1>3. CASE kind = "string"
  <2>1. value \in Seq(Octet) /\ size = 2 + Len(value) /\ Len(value) \in Nat
    BY <1>3 DEF FieldSize, FieldValues, Width
  <2>2. AppendField(out, kind, value) = AppendString(out, value)
    BY <1>3 DEF AppendField
  <2> DEFINE le == LeBytes(Len(value), 2)
             first == AppendBytes(out, le)
  <2>3. CASE Len(value) \notin Wide
    <3>1. ~(size <= r)
      BY <1>1, <2>1, <2>3, OctetsAreNumbers DEF Wide
    <3>2. AppendString(out, value) = Failed
      BY <2>3 DEF AppendString
    <3> QED BY <2>2, <3>1, <3>2 DEF Failed
  <2>4. CASE Len(value) \in Wide
    <3>1. AppendString(out, value) = IF first.ok THEN AppendBytes(first, value) ELSE Failed
      BY <2>4 DEF AppendString, Width
    <3>2. le \in Seq(Octet) /\ Len(le) = 2
      <4>1. \A x, y \in Octet : <<x, y>> \in Seq(Octet) /\ Len(<<x, y>>) = 2
        OBVIOUS
      <4> QED BY <2>4, <4>1, OctetsAreNumbers DEF LeBytes
    <3>3. b = le \o value
      BY <1>3 DEF FieldBytes, Width
    <3>b. /\ Len(b) = size
          /\ (\A i \in 1..2 : b[i] = le[i]) /\ \A i \in 1..Len(value) : b[2 + i] = value[i]
      <4>1. Len(b) = 2 + Len(value) /\ \A i \in 1..(2 + Len(value)) :
                b[i] = IF i <= 2 THEN le[i] ELSE value[i - 2]
        <5>1. le \in Seq(Octet) /\ value \in Seq(Octet)
          BY <2>1, <3>2
        <5>2. Len(le \o value) = Len(le) + Len(value) /\ \A i \in 1..(Len(le) + Len(value)) :
                (le \o value)[i] = IF i <= Len(le) THEN le[i] ELSE value[i - Len(le)]
          BY ONLY <5>1, Concatenated
        <5> QED BY <3>2, <3>3, <5>2
      <4>2. \A i \in 1..Len(value) : 2 + i \in 1..(2 + Len(value)) /\ ~(2 + i <= 2) /\ 2 + i - 2 = i
        BY <2>1
      <4>3. \A i \in 1..2 : i \in 1..(2 + Len(value)) /\ i <= 2
        BY <2>1
      <4>4. Len(b) = 2 + Len(value) /\ size = 2 + Len(value)
        BY <2>1, <4>1
      <4> HIDE DEF b, le, size
      <4>5. \A i \in 1..2 : b[i] = le[i]
        BY <4>1, <4>3
      <4>6. \A i \in 1..Len(value) : b[2 + i] = value[i]
        BY <4>1, <4>2
      <4> QED BY <4>4, <4>5, <4>6
    <3> HIDE DEF le, first, b, size
    <3>4. CASE ~(2 <= r)
      <4>1. ~first.ok
        <5>1. le \in Seq(Octet)
          BY <3>2
        <5>2. ~(Len(le) <= r)
          BY <3>2, <3>4
        <5>3. ~(Len(le) <= r) => ~first.ok
          BY <5>1, BytesAppended DEF first
        <5> QED BY <5>2, <5>3
      <4> QED BY <1>1, <2>1, <2>2, <3>1, <3>4, <4>1 DEF Failed, size
    <3>5. CASE 2 <= r
      <4> DEFINE e == d \o le
      <4>1. /\ Buffered(first, r - 2, e) /\ Len(e) = Len(d) + 2
            /\ \A i \in 1..Len(d) : e[i] = d[i]
            /\ \A i \in 1..2 : e[Len(d) + i] = le[i]
        <5>1. le \in Seq(Octet)
          BY <3>2
        <5>2. Len(le) <= r => /\ Buffered(first, r - Len(le), e) /\ Len(e) = Len(d) + Len(le)
                              /\ \A i \in 1..Len(d) : e[i] = d[i]
                              /\ \A i \in 1..Len(le) : e[Len(d) + i] = le[i]
          BY <5>1, BytesAppended DEF first
        <5> HIDE DEF e
        <5> QED BY <3>2, <3>5, <5>2
      <4>2. first.ok
        BY <4>1 DEF Buffered
      <4> DEFINE next == AppendBytes(first, value)
      <4> HIDE DEF e
      <4>3. IF Len(value) <= r - 2
              THEN /\ Buffered(next, r - 2 - Len(value), e \o value)
                   /\ Len(e \o value) = Len(e) + Len(value)
                   /\ \A i \in 1..Len(e) : (e \o value)[i] = e[i]
                   /\ \A i \in 1..Len(value) : (e \o value)[Len(e) + i] = value[i]
              ELSE ~next.ok
        <5>1. value \in Seq(Octet) /\ Buffered(first, r - 2, e)
          BY <2>1, <4>1
        <5>2. /\ Len(value) <= r - 2 =>
                    /\ Buffered(next, (r - 2) - Len(value), e \o value)
                    /\ Len(e \o value) = Len(e) + Len(value)
                    /\ \A i \in 1..Len(e) : (e \o value)[i] = e[i]
                    /\ \A i \in 1..Len(value) : (e \o value)[Len(e) + i] = value[i]
              /\ ~(Len(value) <= r - 2) => ~next.ok
          BY <5>1, BytesAppended
        <5> QED BY <5>2
      <4> HIDE DEF next
      <4>4. AppendField(out, kind, value) = next
        BY <2>2, <3>1, <4>2 DEF next
      <4>5. CASE Len(value) <= r - 2
        <5>1. next.data = e \o value /\ Buffered(next, r - size, next.data)
          <6>1. r - 2 - Len(value) = r - size
            BY <1>1, <2>1
          <6>2. Buffered(next, r - size, e \o value)
            BY <4>3, <4>5, <6>1
          <6> QED BY <6>2 DEF Buffered
        <5>2. \A i \in 1..Len(d) : next.data[i] = d[i]
          <6>1. \A i \in 1..Len(d) : i \in 1..Len(e)
            BY <1>1, <4>1
          <6> QED BY <4>1, <4>3, <4>5, <5>1, <6>1
        <5>3. ASSUME NEW i \in 1..size PROVE next.data[Len(d) + i] = b[i]
          <6>1. CASE i <= 2
            <7>1. i \in 1..2 /\ Len(d) + i \in 1..Len(e)
              BY <1>1, <4>1, <6>1, <2>1
            <7> QED BY <3>b, <4>1, <4>3, <4>5, <5>1, <7>1
          <6>2. CASE ~(i <= 2)
            <7>1. i - 2 \in 1..Len(value) /\ Len(e) + (i - 2) = Len(d) + i /\ 2 + (i - 2) = i
              BY <1>1, <2>1, <4>1, <6>2
            <7>2. b[2 + (i - 2)] = value[i - 2]
              BY <3>b, <7>1
            <7> QED BY <4>3, <4>5, <5>1, <7>1, <7>2
          <6> QED BY <6>1, <6>2
        <5>4. Len(next.data) = Len(d) + size /\ size <= r
          BY <1>1, <2>1, <4>1, <4>3, <4>5, <5>1
        <5> QED BY <4>4, <5>1, <5>2, <5>3, <5>4 DEF b, size
      <4>6. CASE ~(Len(value) <= r - 2)
        <5>1. ~(size <= r)
          BY <1>1, <2>1, <4>6
        <5> QED BY <4>3, <4>4, <4>6, <5>1 DEF size
      <4> QED BY <4>5, <4>6
    <3> QED BY <3>4, <3>5
  <2> QED BY <2>3, <2>4
<1> QED BY <1>2, <1>3

----------------------------------------------------------------------------
(* The encoder *)

IsMessage(m) ==
    /\ m.type \in Type
    /\ m.fields = [i \in DOMAIN EncoderFields[m.type] |-> m.fields[i]]
    /\ \A i \in DOMAIN m.fields : m.fields[i] \in FieldValues(EncoderFields[m.type][i])
    /\ IF m.type = "command_request" THEN \E mode \in Octet : m.payload = <<mode>>
                                     ELSE m.payload = <<>>

Kind(m, i) == EncoderFields[m.type][i]
Fields(m) == Len(EncoderFields[m.type])

LEMMA MessageParts ==
    ASSUME NEW m, IsMessage(m)
    PROVE  /\ m.type \in Type /\ Fields(m) \in Nat
           /\ DOMAIN EncoderFields[m.type] = 1..Fields(m)
           /\ m.fields = [i \in 1..Fields(m) |-> m.fields[i]]
           /\ \A i \in 1..Fields(m) : /\ Kind(m, i) \in Kinds
                                      /\ m.fields[i] \in FieldValues(Kind(m, i))
                                      /\ FieldSize(Kind(m, i), m.fields[i]) \in Nat
           /\ m.payload \in Seq(Octet) /\ Len(m.payload) \in 0..1
           /\ m.type = "command_request" => Len(m.payload) = 1
           /\ m.type # "command_request" => m.payload = <<>>
<1>1. m.type \in Type /\ EncoderFields[m.type] \in Seq(Kinds)
  BY MessageFields DEF IsMessage
<1> DEFINE k == EncoderFields[m.type]
<1>2. Len(k) \in Nat /\ DOMAIN k = 1..Len(k) /\ \A i \in 1..Len(k) : k[i] \in Kinds
  <2> HIDE DEF k
  <2>1. k \in Seq(Kinds)
    BY <1>1 DEF k
  <2> QED BY <2>1
<1>3. m.fields = [i \in 1..Len(k) |-> m.fields[i]]
  BY <1>2 DEF IsMessage
<1>4. \A i \in 1..Len(k) : m.fields[i] \in FieldValues(k[i])
  <2>1. DOMAIN m.fields = 1..Len(k)
    BY <1>3
  <2> QED BY <2>1 DEF IsMessage
<1>5. ASSUME NEW kind \in Kinds, NEW value \in FieldValues(kind) PROVE FieldSize(kind, value) \in Nat
  <2>1. CASE kind = "string"
    <3>1. value \in Seq(Octet)
      BY <2>1 DEF FieldValues
    <3>2. Len(value) \in Nat /\ FieldSize(kind, value) = 2 + Len(value)
      BY <2>1, <3>1 DEF FieldSize, Width
    <3> QED BY <3>2
  <2>2. CASE kind # "string"
    BY <2>2 DEF FieldSize, Width, UuidSize, Kinds
  <2> QED BY <2>1, <2>2
<1>6. /\ m.payload \in Seq(Octet) /\ Len(m.payload) \in 0..1
      /\ m.type = "command_request" => Len(m.payload) = 1
      /\ m.type # "command_request" => m.payload = <<>>
  <2>1. \A mode \in Octet : <<mode>> \in Seq(Octet) /\ Len(<<mode>>) = 1
    OBVIOUS
  <2>2. <<>> \in Seq(Octet) /\ Len(<<>>) = 0
    OBVIOUS
  <2>3. CASE m.type = "command_request"
    <3>1. PICK mode \in Octet : m.payload = <<mode>>
      BY <2>3 DEF IsMessage
    <3> QED BY <2>1, <2>3, <3>1
  <2>4. CASE m.type # "command_request"
    <3>1. m.payload = <<>>
      BY <2>4 DEF IsMessage
    <3> QED BY <2>2, <2>4, <3>1
  <2> QED BY <2>3, <2>4
<1> HIDE DEF k
<1> QED BY <1>1, <1>2, <1>3, <1>4, <1>5, <1>6 DEF Kind, Fields, k

\* Where the fields of a message end.
Ends(m, end) ==
    end = [i \in 0..Fields(m) |-> IF i = 0 THEN 1
                                  ELSE end[i - 1] + FieldSize(Kind(m, i), m.fields[i])]

LEMMA EndsExist ==
    ASSUME NEW m
    PROVE  \A n \in Nat : \E end :
              end = [i \in 0..n |-> IF i = 0 THEN 1
                                    ELSE end[i - 1] + FieldSize(Kind(m, i), m.fields[i])]
<1> DEFINE P(n, s) == s = [i \in 0..n |-> IF i = 0 THEN 1
                                    ELSE s[i - 1] + FieldSize(Kind(m, i), m.fields[i])]
           S == {n \in Nat : \E s : P(n, s)}
<1>1. 0 \in S
  <2> DEFINE s == [i \in 0..0 |-> 1]
  <2>1. P(0, s)
    OBVIOUS
  <2> QED BY <2>1
<1>2. ASSUME NEW n \in Nat, n \in S PROVE n + 1 \in S
  <2>1. PICK s : P(n, s)
    BY <1>2
  <2> DEFINE t == [i \in 0..(n + 1) |->
                     IF i = n + 1 THEN s[n] + FieldSize(Kind(m, n + 1), m.fields[n + 1]) ELSE s[i]]
  <2>2. ASSUME NEW i \in 0..(n + 1)
        PROVE  t[i] = IF i = 0 THEN 1 ELSE t[i - 1] + FieldSize(Kind(m, i), m.fields[i])
    <3>1. CASE i = n + 1
      <4>1. i # 0 /\ i - 1 = n /\ n \in 0..(n + 1) /\ n # n + 1
        BY <3>1
      <4>2. t[n] = s[n] /\ t[i] = s[n] + FieldSize(Kind(m, n + 1), m.fields[n + 1])
        BY <3>1, <4>1
      <4> HIDE DEF t
      <4> QED BY <3>1, <4>1, <4>2
    <3>2. CASE i # n + 1
      <4>1. i \in 0..n /\ (i # 0 => i - 1 \in 0..n)
        BY <3>2
      <4>2. s[i] = IF i = 0 THEN 1 ELSE s[i - 1] + FieldSize(Kind(m, i), m.fields[i])
        BY <2>1, <4>1
      <4>3. t[i] = s[i] /\ (i # 0 => t[i - 1] = s[i - 1])
        BY <3>2, <4>1
      <4> HIDE DEF t
      <4> QED BY <4>2, <4>3
    <3> QED BY <3>1, <3>2
  <2>3. t = [i \in 0..(n + 1) |-> t[i]]
    OBVIOUS
  <2> HIDE DEF t
  <2>4. P(n + 1, t)
    BY <2>2, <2>3
  <2>5. n + 1 \in Nat
    OBVIOUS
  <2> HIDE DEF P
  <2> QED BY <2>4, <2>5
<1> HIDE DEF S
<1>3. Nat \subseteq S
  BY <1>1, <1>2, SetInduction
<1> QED BY <1>3 DEF S

EndsOf(m) ==
    LET end[i \in 0..Fields(m)] ==
            IF i = 0 THEN 1 ELSE end[i - 1] + FieldSize(Kind(m, i), m.fields[i])
    IN  end

LEMMA WireSizeIs ==
    ASSUME NEW m, IsMessage(m)
    PROVE  Ends(m, EndsOf(m)) /\ WireSize(m) = EndsOf(m)[Fields(m)] + Len(m.payload)
<1> DEFINE size == CHOOSE s : s =
             [i \in 0..Fields(m) |-> IF i = 0 THEN 1
                                     ELSE s[i - 1] + FieldSize(Kind(m, i), m.fields[i])]
<1>1. size = [i \in 0..Fields(m) |-> IF i = 0 THEN 1
                                     ELSE size[i - 1] + FieldSize(Kind(m, i), m.fields[i])]
  <2>1. \E s : s = [i \in 0..Fields(m) |-> IF i = 0 THEN 1
                                           ELSE s[i - 1] + FieldSize(Kind(m, i), m.fields[i])]
    <3>1. Fields(m) \in Nat
      BY MessageParts
    <3> QED BY <3>1, EndsExist
  <2> QED BY <2>1, Zenon
<1>2. WireSize(m) = size[Fields(m)] + Len(m.payload)
  BY DEF WireSize, Fields, Kind
<1>3. EndsOf(m) = size
  BY DEF EndsOf
<1> HIDE DEF size
<1> QED BY <1>1, <1>2, <1>3 DEF Ends

LEMMA EndsGrow ==
    ASSUME NEW m, IsMessage(m), NEW end, Ends(m, end)
    PROVE  /\ end[0] = 1
           /\ \A i \in 1..Fields(m) : end[i] = end[i - 1] + FieldSize(Kind(m, i), m.fields[i])
           /\ \A i \in 0..Fields(m) : end[i] \in Nat \ {0} /\ \A j \in 0..i : end[j] \in Nat /\ end[j] <= end[i]
<1> DEFINE n == Fields(m)
<1>1. n \in Nat /\ \A i \in 1..n : FieldSize(Kind(m, i), m.fields[i]) \in Nat
  BY MessageParts
<1>2. end[0] = 1 /\ \A i \in 1..n : end[i] = end[i - 1] + FieldSize(Kind(m, i), m.fields[i])
  <2>1. \A i \in 1..n : i \in 0..n /\ i # 0
    BY <1>1
  <2>2. 0 \in 0..n
    BY <1>1
  <2> QED BY <2>1, <2>2 DEF Ends
<1> HIDE DEF n
<1> DEFINE S == {i \in Nat : i <= n => /\ end[i] \in Nat \ {0}
                                      /\ \A j \in 0..i : end[j] \in Nat /\ end[j] <= end[i]}
<1>3. 0 \in S
  BY <1>2
<1>4. ASSUME NEW i \in Nat, i \in S PROVE i + 1 \in S
  <2> SUFFICES ASSUME i + 1 <= n
               PROVE  /\ end[i + 1] \in Nat \ {0}
                      /\ \A j \in 0..(i + 1) : end[j] \in Nat /\ end[j] <= end[i + 1]
    OBVIOUS
  <2>1. /\ end[i] \in Nat \ {0} /\ i + 1 \in 1..n /\ i + 1 - 1 = i
        /\ \A j \in 0..i : end[j] \in Nat /\ end[j] <= end[i]
    BY <1>1, <1>4
  <2>2. end[i + 1] = end[i] + FieldSize(Kind(m, i + 1), m.fields[i + 1])
    BY <1>2, <2>1
  <2>3. end[i + 1] \in Nat \ {0} /\ end[i] <= end[i + 1]
    BY <1>1, <2>1, <2>2
  <2>4. ASSUME NEW j \in 0..(i + 1) PROVE end[j] \in Nat /\ end[j] <= end[i + 1]
    <3>1. CASE j = i + 1
      BY <2>3, <3>1
    <3>2. CASE j # i + 1
      <4>1. j \in 0..i
        BY <3>2
      <4>2. end[j] \in Nat /\ end[j] <= end[i]
        BY <2>1, <4>1
      <4> QED BY <2>1, <2>3, <4>2
    <3> QED BY <3>1, <3>2
  <2> QED BY <2>3, <2>4
<1> HIDE DEF S
<1>5. \A i \in Nat : i \in S
  BY <1>3, <1>4, SetInduction
<1> QED BY <1>1, <1>2, <1>5 DEF S, n

\* The bytes agree with the type and the first fields of a message, as far as they go.
Agrees(m, end, n, b) ==
    /\ Len(b) >= 1 => b[1] = TypeByte[m.type]
    /\ \A i \in 1..n : \A x \in 1..FieldSize(Kind(m, i), m.fields[i]) :
         end[i - 1] + x <= Len(b) => b[end[i - 1] + x] = FieldBytes(Kind(m, i), m.fields[i])[x]

OutStep(m, room, out, i) ==
    IF i = 0 THEN AppendBytes([room |-> room, data |-> <<>>], <<TypeByte[m.type]>>)
    ELSE IF out[i - 1].ok THEN AppendField(out[i - 1], Kind(m, i), m.fields[i]) ELSE Failed

LEMMA OutsExist ==
    ASSUME NEW m, NEW room
    PROVE  \A n \in Nat : \E out : out = [i \in 0..n |-> OutStep(m, room, out, i)]
<1> DEFINE P(n, s) == s = [i \in 0..n |-> OutStep(m, room, s, i)]
           S == {n \in Nat : \E s : P(n, s)}
<1>1. 0 \in S
  <2> DEFINE s == [i \in 0..0 |-> AppendBytes([room |-> room, data |-> <<>>], <<TypeByte[m.type]>>)]
  <2>1. P(0, s)
    BY DEF OutStep
  <2> QED BY <2>1
<1>2. ASSUME NEW n \in Nat, n \in S PROVE n + 1 \in S
  <2>1. PICK s : P(n, s)
    BY <1>2
  <2> DEFINE t == [i \in 0..(n + 1) |-> IF i = n + 1 THEN OutStep(m, room, s, n + 1) ELSE s[i]]
  <2>2. ASSUME NEW i \in 0..(n + 1) PROVE t[i] = OutStep(m, room, t, i)
    <3>1. i = n + 1 \/ i \in 0..n
      OBVIOUS
    <3>2. i # 0 => i - 1 \in 0..n /\ t[i - 1] = s[i - 1]
      OBVIOUS
    <3>3. t[i] = OutStep(m, room, s, i)
      <4>1. CASE i = n + 1
        BY <4>1
      <4>2. CASE i # n + 1
        <5>1. i \in 0..n /\ t[i] = s[i]
          BY <3>1, <4>2
        <5>2. s[i] = OutStep(m, room, s, i)
          BY <2>1, <5>1
        <5> QED BY <5>1, <5>2
      <4> QED BY <4>1, <4>2
    <3> HIDE DEF t
    <3> QED BY <3>2, <3>3 DEF OutStep
  <2>3. t = [i \in 0..(n + 1) |-> t[i]]
    OBVIOUS
  <2> HIDE DEF t
  <2>4. P(n + 1, t)
    BY <2>2, <2>3
  <2>5. n + 1 \in Nat
    OBVIOUS
  <2> HIDE DEF P
  <2> QED BY <2>4, <2>5
<1> HIDE DEF S
<1>3. Nat \subseteq S
  BY <1>1, <1>2, SetInduction
<1> QED BY <1>3 DEF S

LEMMA OutsAre ==
    ASSUME NEW m, IsMessage(m), NEW room
    PROVE  \E out : /\ \A i \in 0..Fields(m) : out[i] = OutStep(m, room, out, i)
                    /\ EncodeMessage(m.type, m.fields, room) = out[Fields(m)]
<1> DEFINE out == CHOOSE s : s = [i \in 0..Fields(m) |->
             IF i = 0 THEN AppendBytes([room |-> room, data |-> <<>>], <<TypeByte[m.type]>>)
             ELSE IF s[i - 1].ok THEN AppendField(s[i - 1], Kind(m, i), m.fields[i]) ELSE Failed]
<1>1. out = [i \in 0..Fields(m) |-> OutStep(m, room, out, i)]
  <2>1. Fields(m) \in Nat
    BY MessageParts
  <2>2. \E s : s = [i \in 0..Fields(m) |-> OutStep(m, room, s, i)]
    BY <2>1, OutsExist
  <2>3. \E s : s = [i \in 0..Fields(m) |->
             IF i = 0 THEN AppendBytes([room |-> room, data |-> <<>>], <<TypeByte[m.type]>>)
             ELSE IF s[i - 1].ok THEN AppendField(s[i - 1], Kind(m, i), m.fields[i]) ELSE Failed]
    BY <2>2, Zenon DEF OutStep
  <2> QED BY <2>3, Zenon DEF OutStep
<1>2. EncodeMessage(m.type, m.fields, room) = out[Fields(m)]
  BY DEF EncodeMessage, Fields, Kind
<1> HIDE DEF out
<1>3. \A i \in 0..Fields(m) : out[i] = OutStep(m, room, out, i)
  BY <1>1
<1> QED BY <1>2, <1>3

\* The type and the fields go out whole if there is room for them.
LEMMA HeaderEncoded ==
    ASSUME CodecConstants, NEW m, IsMessage(m), NEW end, Ends(m, end), NEW room \in Wide
    PROVE  LET header == EncodeMessage(m.type, m.fields, room)
               size == end[Fields(m)] IN
           IF size <= room
             THEN /\ Buffered(header, room - size, header.data) /\ Len(header.data) = size
                  /\ Agrees(m, end, Fields(m), header.data)
             ELSE ~header.ok
<1> DEFINE n == Fields(m)
           Size(i) == FieldSize(Kind(m, i), m.fields[i])
<1>1. PICK out : /\ \A i \in 0..n : out[i] = OutStep(m, room, out, i)
                 /\ EncodeMessage(m.type, m.fields, room) = out[n]
  BY OutsAre
<1>2. n \in Nat /\ room \in Nat /\ room < Base * Base /\ 1 <= room + 1
      /\ \A i \in 1..n : /\ Kind(m, i) \in Kinds /\ m.fields[i] \in FieldValues(Kind(m, i))
                         /\ Size(i) \in Nat
  <2>1. n \in Nat /\ \A i \in 1..n : /\ Kind(m, i) \in Kinds
                                     /\ m.fields[i] \in FieldValues(Kind(m, i)) /\ Size(i) \in Nat
    BY MessageParts
  <2>2. room \in Nat /\ room < Base * Base
    <3>1. \A b \in Nat : \A r \in 0..(b - 1) : r \in Nat /\ r < b
      OBVIOUS
    <3> QED BY <3>1, OctetsAreNumbers DEF Wide
  <2> HIDE DEF n, Size
  <2> QED BY <2>1, <2>2
<1>3. /\ end[0] = 1
      /\ \A i \in 1..n : end[i] = end[i - 1] + Size(i)
      /\ \A i \in 0..n : end[i] \in Nat \ {0} /\ \A j \in 0..i : end[j] \in Nat /\ end[j] <= end[i]
  BY EndsGrow
<1>4. TypeByte[m.type] \in Octet
  <2>1. TypeByte[m.type] \in 1..8
    BY MessageTypes, MessageParts
  <2> QED BY <2>1, OctetsAreNumbers DEF Octet
<1> HIDE DEF n
<1> DEFINE Good(i) ==
             IF end[i] <= room
               THEN /\ Buffered(out[i], room - end[i], out[i].data) /\ Len(out[i].data) = end[i]
                    /\ Agrees(m, end, i, out[i].data)
               ELSE ~out[i].ok
           S == {i \in Nat : i <= n => Good(i)}
<1>5. Good(0)
  <2>1. out[0] = AppendBytes([room |-> room, data |-> <<>>], <<TypeByte[m.type]>>)
    BY <1>1, <1>2 DEF OutStep
  <2> DEFINE first == [room |-> room, data |-> <<>>]
             b == <<TypeByte[m.type]>>
  <2>0. first.room = room /\ first.data = <<>>
    OBVIOUS
  <2> HIDE DEF first
  <2>2. <<TypeByte[m.type]>> \in Seq(Octet) /\ Len(<<TypeByte[m.type]>>) = 1
        /\ <<>> \o <<TypeByte[m.type]>> = <<TypeByte[m.type]>>
    BY <1>4
  <2>3. CASE 1 <= room
    <3>1. out[0].ok /\ out[0].room = room - 1 /\ out[0].data = <<TypeByte[m.type]>>
      <4>1. ~(Len(b) > first.room)
        BY <1>2, <2>0, <2>2, <2>3
      <4>2. AppendBytes(first, b) = [ok |-> TRUE, room |-> first.room - Len(b), data |-> first.data \o b]
        BY <4>1 DEF AppendBytes
      <4> QED BY <2>0, <2>1, <2>2, <4>2 DEF first
    <3>2. room - 1 \in Nat
      BY <1>2, <2>3
    <3> QED BY <1>3, <2>2, <2>3, <3>1, <3>2 DEF Buffered, Agrees
  <2>4. CASE ~(1 <= room)
    <3>1. out[0] = Failed
      <4>1. Len(b) > first.room
        BY <1>2, <2>0, <2>2, <2>4
      <4> QED BY <2>1, <4>1 DEF AppendBytes, first
    <3> QED BY <1>3, <2>4, <3>1 DEF Failed
  <2> QED BY <2>3, <2>4
<1>6. ASSUME NEW i \in Nat, i \in S PROVE i + 1 \in S
  <2> SUFFICES ASSUME i + 1 <= n PROVE Good(i + 1)
    OBVIOUS
  <2>1. /\ Good(i) /\ i + 1 \in 1..n /\ i + 1 \in 0..n /\ i + 1 - 1 = i /\ i + 1 # 0
        /\ i \in 0..n
    BY <1>2, <1>6
  <2>2. out[i + 1] = IF out[i].ok THEN AppendField(out[i], Kind(m, i + 1), m.fields[i + 1])
                     ELSE Failed
    BY <1>1, <2>1 DEF OutStep
  <2>3. end[i + 1] = end[i] + Size(i + 1) /\ end[i] \in Nat /\ Size(i + 1) \in Nat /\ end[i] > 0
    BY <1>2, <1>3, <2>1
  <2> DEFINE next == AppendField(out[i], Kind(m, i + 1), m.fields[i + 1])
             d == out[i].data
             b == FieldBytes(Kind(m, i + 1), m.fields[i + 1])
  <2>4. CASE ~(end[i] <= room)
    <3>1. ~out[i].ok
      BY <2>1, <2>4
    <3> QED BY <1>2, <2>2, <2>3, <2>4, <3>1 DEF Failed
  <2>5. CASE end[i] <= room
    <3>1. Buffered(out[i], room - end[i], d) /\ Len(d) = end[i] /\ Agrees(m, end, i, d)
      BY <2>1, <2>5
    <3>2. out[i].ok /\ out[i + 1] = next
      BY <2>2, <3>1 DEF Buffered
    <3>3. room - end[i] \in Wide
      <4>1. \A c, r, e \in Nat : r < c /\ e <= r => r - e \in 0..(c - 1)
        OBVIOUS
      <4> QED BY <1>2, <2>3, <2>5, <4>1, OctetsAreNumbers DEF Wide
    <3> DEFINE s == Size(i + 1)
    <3>4. IF s <= room - end[i]
            THEN /\ Buffered(next, room - end[i] - s, next.data) /\ Len(next.data) = Len(d) + s
                 /\ \A x \in 1..Len(d) : next.data[x] = d[x]
                 /\ \A x \in 1..s : next.data[Len(d) + x] = b[x]
            ELSE ~next.ok
      BY <1>2, <2>1, <3>1, <3>3, FieldAppended
    <3> HIDE DEF next, d, b, s
    <3>5. CASE ~(s <= room - end[i])
      <4>1. ~(end[i + 1] <= room)
        BY <1>2, <2>3, <3>5 DEF s
      <4> QED BY <3>2, <3>4, <3>5, <4>1
    <3>6. CASE s <= room - end[i]
      <4>1. end[i + 1] <= room /\ room - end[i] - s = room - end[i + 1] /\ Len(d) + s = end[i + 1]
        BY <1>2, <2>3, <3>1, <3>6 DEF s
      <4>2. Buffered(next, room - end[i + 1], next.data) /\ Len(next.data) = end[i + 1]
        BY <3>4, <3>6, <4>1
      <4>3. Agrees(m, end, i + 1, next.data)
        <5>1. next.data[1] = TypeByte[m.type]
          <6>1. 1 \in 1..Len(d) /\ Len(d) >= 1
            BY <2>3, <3>1
          <6> QED BY <3>1, <3>4, <3>6, <6>1 DEF Agrees
        <5>2. ASSUME NEW j \in 1..(i + 1), NEW x \in 1..Size(j)
              PROVE  next.data[end[j - 1] + x] = FieldBytes(Kind(m, j), m.fields[j])[x]
          <6>1. CASE j = i + 1
            <7>1. j - 1 = i
              BY <6>1
            <7> QED BY <3>1, <3>4, <3>6, <6>1, <7>1 DEF b, s
          <6>2. CASE j # i + 1
            <7>1. j \in 1..i /\ j \in 1..n /\ j \in 0..i /\ j - 1 \in 0..i
              <8>1. j \in Int /\ i \in Int /\ i <= n /\ 1 <= j /\ j <= i
                BY <2>1, <6>2
              <8> QED BY <1>2, <8>1
            <7>2. end[j] = end[j - 1] + Size(j) /\ end[j] <= end[i] /\ end[j - 1] \in Nat /\ end[j] \in Nat
                  /\ Size(j) \in Nat
              <8> HIDE DEF Size
              <8>1. end[j] = end[j - 1] + Size(j) /\ Size(j) \in Nat
                BY <1>2, <1>3, <7>1
              <8>2. end[j] <= end[i] /\ end[j] \in Nat /\ end[j - 1] \in Nat
                BY <1>3, <2>1, <7>1
              <8> QED BY <8>1, <8>2
            <7>3. end[j - 1] + x <= Len(d) /\ end[j - 1] + x \in 1..Len(d)
              <8> DEFINE e == end[j - 1]
                         f == end[i]
                         g == end[j]
                         q == Size(j)
              <8>1. /\ e \in Nat /\ q \in Nat /\ g = e + q /\ g <= f /\ f \in Nat /\ g \in Nat
                    /\ Len(d) = f /\ x \in 1..q
                BY <2>3, <3>1, <7>2
              <8> HIDE DEF e, f, g, q
              <8>2. e + x <= Len(d) /\ e + x \in 1..Len(d)
                BY <8>1
              <8> QED BY <8>2 DEF e
            <7>4. d[end[j - 1] + x] = FieldBytes(Kind(m, j), m.fields[j])[x]
              BY <3>1, <7>1, <7>3 DEF Agrees
            <7> QED BY <3>4, <3>6, <7>3, <7>4
          <6> QED BY <6>1, <6>2
        <5> QED BY <5>1, <5>2 DEF Agrees
      <4> QED BY <3>2, <4>1, <4>2, <4>3
    <3> QED BY <3>5, <3>6
  <2> QED BY <2>4, <2>5
<1>7. 0 \in S
  BY <1>5
<1> HIDE DEF S
<1>8. n \in S
  BY <1>2, <1>6, <1>7, SetInduction
<1>9. Good(n)
  BY <1>2, <1>8 DEF S
<1> QED BY <1>1, <1>9 DEF n

\* The bytes are those of a message, as far as they go.
Carries(m, end, b) ==
    /\ Agrees(m, end, Fields(m), b)
    /\ \A x \in 1..Len(m.payload) :
         end[Fields(m)] + x <= Len(b) => b[end[Fields(m)] + x] = m.payload[x]

\* A message is encoded if there is room for all of it.
LEMMA EncodedIs ==
    ASSUME CodecConstants, NEW m, IsMessage(m), NEW end, Ends(m, end), NEW room \in Wide
    PROVE  LET out == Encoded(m, room)
               size == end[Fields(m)] + Len(m.payload) IN
           IF size <= room
             THEN /\ out.ok /\ out.data \in Seq(Octet) /\ Len(out.data) = size
                  /\ Carries(m, end, out.data)
             ELSE ~out.ok
<1> DEFINE header == EncodeMessage(m.type, m.fields, room)
           h == end[Fields(m)]
<1>1. /\ h \in Nat /\ Len(m.payload) \in 0..1 /\ m.payload \in Seq(Octet)
      /\ m.type = "command_request" => Len(m.payload) = 1
      /\ m.type # "command_request" => m.payload = <<>>
  <2>1. Fields(m) \in Nat
    BY MessageParts
  <2>2. Fields(m) \in 0..Fields(m)
    BY <2>1
  <2>3. h \in Nat
    BY <2>2, EndsGrow
  <2> HIDE DEF h
  <2> QED BY <2>3, MessageParts
<1>2. IF h <= room
        THEN /\ Buffered(header, room - h, header.data) /\ Len(header.data) = h
             /\ Agrees(m, end, Fields(m), header.data)
        ELSE ~header.ok
  BY HeaderEncoded
<1>3. room \in Nat
  BY OctetsAreNumbers DEF Wide
<1> HIDE DEF header, h
<1>4. CASE m.type # "command_request"
  <2>1. Encoded(m, room) = header /\ m.payload = <<>> /\ Len(m.payload) = 0 /\ h + Len(m.payload) = h
    BY <1>1, <1>4 DEF Encoded, header
  <2> QED BY <1>2, <2>1 DEF Carries, Buffered, h
<1>5. CASE m.type = "command_request"
  <2>1. Len(m.payload) = 1 /\ m.payload = <<m.payload[1]>> /\ m.payload[1] \in Octet
    BY <1>1, <1>5
  <2> DEFINE d == header.data
             b == m.payload
             next == AppendBytes(header, b)
  <2>2. Encoded(m, room) = IF header.ok THEN next ELSE header
    BY <1>5, <2>1 DEF Encoded, EncodeSetMode, header
  <2>3. CASE ~(h <= room)
    <3>1. ~(h + Len(m.payload) <= room)
      BY <1>1, <1>3, <2>3
    <3> QED BY <1>2, <2>2, <2>3, <3>1 DEF h
  <2>4. CASE h <= room
    <3>1. header.ok /\ Encoded(m, room) = next
      BY <1>2, <2>2, <2>4 DEF Buffered
    <3>2. Buffered(header, room - h, d) /\ b \in Seq(Octet) /\ Len(d) = h
      BY <1>1, <1>2, <2>4
    <3> HIDE DEF next, d
    <3>3. IF Len(b) <= room - h
            THEN /\ Buffered(next, room - h - Len(b), d \o b)
                 /\ Len(d \o b) = Len(d) + Len(b)
                 /\ \A i \in 1..Len(d) : (d \o b)[i] = d[i]
                 /\ \A i \in 1..Len(b) : (d \o b)[Len(d) + i] = b[i]
            ELSE ~next.ok
      <4>1. /\ Len(b) <= room - h =>
                 /\ Buffered(next, room - h - Len(b), d \o b)
                 /\ Len(d \o b) = Len(d) + Len(b)
                 /\ \A i \in 1..Len(d) : (d \o b)[i] = d[i]
                 /\ \A i \in 1..Len(b) : (d \o b)[Len(d) + i] = b[i]
            /\ ~(Len(b) <= room - h) => ~next.ok
        BY <3>2, BytesAppended DEF next
      <4> QED BY <4>1
    <3>4. Len(b) <= room - h <=> h + Len(b) <= room
      BY <1>1, <1>3
    <3>5. CASE ~(h + Len(b) <= room)
      BY <3>1, <3>3, <3>4, <3>5 DEF h
    <3>6. CASE h + Len(b) <= room
      <4>1. /\ next.ok /\ next.data = d \o b /\ next.data \in Seq(Octet)
            /\ Len(next.data) = h + Len(b)
            /\ \A i \in 1..h : next.data[i] = d[i]
            /\ \A i \in 1..Len(b) : next.data[h + i] = b[i]
        BY <3>2, <3>3, <3>4, <3>6 DEF Buffered
      <4>2. Agrees(m, end, Fields(m), next.data)
        <5>1. next.data[1] = TypeByte[m.type]
          <6>1. 1 \in 1..h /\ Len(d) >= 1
            <7>0. Fields(m) \in Nat
              BY MessageParts
            <7>1. Fields(m) \in 0..Fields(m)
              BY <7>0
            <7>2. h \in Nat \ {0}
              BY <7>1, EndsGrow DEF h
            <7> QED BY <3>2, <7>2
          <6> QED BY <1>2, <2>4, <4>1, <6>1 DEF Agrees, d
        <5>2. ASSUME NEW i \in 1..Fields(m), NEW x \in 1..FieldSize(Kind(m, i), m.fields[i])
              PROVE  next.data[end[i - 1] + x] = FieldBytes(Kind(m, i), m.fields[i])[x]
          <6>1. /\ end[i] = end[i - 1] + FieldSize(Kind(m, i), m.fields[i])
                /\ end[i - 1] \in Nat /\ end[i] \in Nat /\ end[i] <= h
                /\ FieldSize(Kind(m, i), m.fields[i]) \in Nat
            <7>1. Fields(m) \in Nat
              BY MessageParts
            <7>2. i - 1 \in 0..Fields(m) /\ i \in 0..Fields(m) /\ Fields(m) \in 0..Fields(m)
              BY <7>1
            <7>3. \A j \in 0..Fields(m) : end[j] \in Nat
              BY EndsGrow
            <7>4. end[i] = end[i - 1] + FieldSize(Kind(m, i), m.fields[i]) /\ end[i] <= h
              BY <7>2, EndsGrow DEF h
            <7>5. FieldSize(Kind(m, i), m.fields[i]) \in Nat
              BY MessageParts
            <7> QED BY <7>2, <7>3, <7>4, <7>5
          <6>2. end[i - 1] + x \in 1..h /\ end[i - 1] + x <= h
            BY <1>1, <6>1
          <6>3. d[end[i - 1] + x] = FieldBytes(Kind(m, i), m.fields[i])[x]
            BY <1>2, <2>4, <6>2, <3>2 DEF Agrees, d
          <6> QED BY <4>1, <6>2, <6>3
        <5> QED BY <5>1, <5>2 DEF Agrees
      <4> QED BY <3>1, <3>6, <4>1, <4>2 DEF Carries, h
    <3> QED BY <3>5, <3>6
  <2> QED BY <2>3, <2>4
<1> QED BY <1>4, <1>5

----------------------------------------------------------------------------
(* The decoder *)

LEMMA SameSequence ==
    ASSUME NEW S, NEW a \in Seq(S), NEW b \in Seq(S), Len(a) = Len(b),
           \A i \in 1..Len(a) : a[i] = b[i]
    PROVE  a = b
BY SeqEqual

\* What is behind the first k elements.
LEMMA Behind ==
    ASSUME NEW S, NEW s \in Seq(S), NEW k \in 0..Len(s)
    PROVE  LET r == SubSeq(s, k + 1, Len(s)) IN
           /\ r \in Seq(S) /\ Len(r) = Len(s) - k /\ Len(s) \in Nat
           /\ \A i \in 1..(Len(s) - k) : r[i] = s[k + i]
           /\ \A j \in 0..(Len(s) - k) : SubSeq(r, j + 1, Len(r)) = SubSeq(s, k + j + 1, Len(s))
           /\ (r = <<>> <=> k = Len(s))
<1> DEFINE n == Len(s)
           r == SubSeq(s, k + 1, n)
<1>1. n \in Nat /\ k \in 0..n /\ \A i \in 1..n : s[i] \in S
  BY LenProperties, ElementOfSeq
<1>2. ASSUME NEW j \in 0..n
      PROVE  /\ SubSeq(s, j + 1, n) \in Seq(S) /\ Len(SubSeq(s, j + 1, n)) = n - j
             /\ \A i \in 1..(n - j) : SubSeq(s, j + 1, n)[i] = s[j + i]
  <2>1. j + 1 \in Int /\ n \in Int /\ \A i \in (j + 1)..n : s[i] \in S
    BY <1>1
  <2> HIDE DEF n
  <2>2. /\ SubSeq(s, j + 1, n) \in Seq(S)
        /\ Len(SubSeq(s, j + 1, n)) = IF j + 1 <= n THEN n - (j + 1) + 1 ELSE 0
        /\ \A i \in 1..(n - (j + 1) + 1) : SubSeq(s, j + 1, n)[i] = s[j + 1 + i - 1]
    BY <2>1, SubSeqProperties
  <2>3. n - (j + 1) + 1 = n - j /\ \A i \in 1..(n - j) : j + 1 + i - 1 = j + i
    BY <1>1
  <2>4. (IF j + 1 <= n THEN n - (j + 1) + 1 ELSE 0) = n - j
    BY <1>1
  <2> QED BY <2>2, <2>3, <2>4
<1> HIDE DEF n
<1>3. r \in Seq(S) /\ Len(r) = n - k /\ \A i \in 1..(n - k) : r[i] = s[k + i]
  BY <1>1, <1>2
<1> HIDE DEF r
<1>4. ASSUME NEW j \in 0..(n - k) PROVE SubSeq(r, j + 1, Len(r)) = SubSeq(s, k + j + 1, n)
  <2>1. k + j \in 0..n /\ n - k \in Nat
    BY <1>1
  <2> DEFINE a == SubSeq(r, j + 1, n - k)
             b == SubSeq(s, (k + j) + 1, n)
  <2>2. b \in Seq(S) /\ Len(b) = n - (k + j) /\ \A i \in 1..(n - (k + j)) : b[i] = s[(k + j) + i]
    BY <1>2, <2>1
  <2>3. j + 1 \in Int /\ n - k \in Int /\ \A i \in (j + 1)..(n - k) : r[i] \in S
    <3>1. \A i \in 1..(n - k) : r[i] \in S
      BY <1>3, <2>1, ElementOfSeq
    <3> QED BY <2>1, <3>1
  <2>4. /\ a \in Seq(S) /\ Len(a) = IF j + 1 <= n - k THEN n - k - (j + 1) + 1 ELSE 0
        /\ \A i \in 1..(n - k - (j + 1) + 1) : a[i] = r[j + 1 + i - 1]
    BY <2>3, SubSeqProperties
  <2> HIDE DEF a, b
  <2>5. Len(a) = n - (k + j)
    BY <1>1, <2>1, <2>4
  <2>6. ASSUME NEW i \in 1..(n - (k + j)) PROVE a[i] = b[i]
    <3>1. i \in 1..(n - k - (j + 1) + 1) /\ j + 1 + i - 1 = j + i /\ j + i \in 1..(n - k)
          /\ k + (j + i) = (k + j) + i
      BY <1>1, <2>1
    <3> QED BY <1>3, <2>2, <2>4, <3>1
  <2>7. a = b
    BY <2>2, <2>4, <2>5, <2>6, SameSequence
  <2> QED BY <1>3, <2>7 DEF a, b
<1>5. r = <<>> <=> k = n
  <2>1. r = <<>> <=> Len(r) = 0
    BY <1>3, EmptySeq
  <2> QED BY <1>1, <1>3, <2>1
<1> QED BY <1>1, <1>3, <1>4, <1>5 DEF n, r

\* The bytes of a field are taken off the front, if all of them are there.
LEMMA FieldExtracted ==
    ASSUME CodecConstants, NEW kind \in Kinds, NEW value \in FieldValues(kind),
           FieldSize(kind, value) < Base * Base, NEW in \in Seq(Octet),
           \A x \in 1..FieldSize(kind, value) : x <= Len(in) => in[x] = FieldBytes(kind, value)[x]
    PROVE  LET field == Extract(kind, in)
               size == FieldSize(kind, value) IN
           IF size <= Len(in)
             THEN field.ok /\ field.value = value /\ field.rest = SubSeq(in, size + 1, Len(in))
             ELSE ~field.ok
<1> DEFINE size == FieldSize(kind, value)
           b == FieldBytes(kind, value)
<1>1. Len(in) \in Nat /\ Base \in Nat /\ Base * Base \in Nat
  BY OctetsAreNumbers, LenProperties
<1>2. \A n \in Wide : \A d : (d = LeBytes(n, 2)) =>
          /\ d[1] + Base * d[2] = n /\ d[1] = n % Base /\ d[2] = n \div Base
  BY OctetsAreNumbers DEF LeBytes
<1>3. CASE kind = "u8"
  <2>1. size = 1 /\ b[1] = value /\ value \in Octet
    BY <1>3 DEF FieldSize, FieldBytes, LeBytes, Width, FieldValues
  <2>2. Extract(kind, in) = ExtractLe(in, 1)
    BY <1>3 DEF Extract, Width
  <2>3. CASE 1 <= Len(in)
    <3>1. in[1] = value
      BY <1>1, <2>1, <2>3
    <3> QED BY <1>1, <2>1, <2>2, <2>3, <3>1 DEF ExtractLe
  <2>4. CASE ~(1 <= Len(in))
    BY <1>1, <2>1, <2>2, <2>4 DEF ExtractLe, Failed
  <2> QED BY <2>3, <2>4
<1>4. CASE kind \in {"u64", "f64"}
  <2>1. size = 2 /\ b = LeBytes(value, 2) /\ value \in Wide
    BY <1>4 DEF FieldSize, FieldBytes, Width, FieldValues
  <2>2. Extract(kind, in) = ExtractLe(in, 2)
    BY <1>4 DEF Extract, Width
  <2>3. CASE 2 <= Len(in)
    <3>1. in[1] = b[1] /\ in[2] = b[2]
      BY <1>1, <2>1, <2>3
    <3>2. in[1] + Base * in[2] = value
      BY <1>2, <2>1, <3>1
    <3> QED BY <1>1, <2>1, <2>2, <2>3, <3>2 DEF ExtractLe
  <2>4. CASE ~(2 <= Len(in))
    BY <1>1, <2>1, <2>2, <2>4 DEF ExtractLe, Failed
  <2> QED BY <2>3, <2>4
<1>5. CASE kind = "uuid"
  <2>1. size = 3 /\ b = value /\ value \in [1..3 -> Octet]
    BY <1>5 DEF FieldSize, FieldBytes, UuidSize, FieldValues
  <2>2. Extract(kind, in) = ExtractUuid(in)
    BY <1>5 DEF Extract
  <2>3. CASE 3 <= Len(in)
    <3>1. \A x \in 1..3 : in[x] = value[x] /\ in[x] \in Octet
      BY <1>1, <2>1, <2>3
    <3> DEFINE a == SubSeq(in, 1, 3)
    <3>2. a \in Seq(Octet) /\ Len(a) = 3 /\ \A i \in 1..3 : a[i] = in[i]
      BY <1>1, <2>3, <3>1, SubSeqProperties
    <3>3. value \in Seq(Octet) /\ Len(value) = 3
      BY <2>1, TupleIsSeq
    <3> HIDE DEF a
    <3>4. a = value
      BY <3>1, <3>2, <3>3, SameSequence
    <3>5. ExtractUuid(in) = [ok |-> TRUE, value |-> a, rest |-> SubSeq(in, 3 + 1, Len(in))]
      BY <1>1, <2>3 DEF ExtractUuid, UuidSize, a
    <3> QED BY <2>1, <2>2, <2>3, <3>4, <3>5
  <2>4. CASE ~(3 <= Len(in))
    BY <1>1, <2>1, <2>2, <2>4 DEF ExtractUuid, UuidSize, Failed
  <2> QED BY <2>3, <2>4
<1>6. CASE kind = "string"
  <2> DEFINE k == Len(value)
             le == LeBytes(k, 2)
             length == ExtractLe(in, 2)
             r == SubSeq(in, 3, Len(in))
  <2>1. value \in Seq(Octet) /\ size = 2 + k /\ k \in Nat
    BY <1>6 DEF FieldSize, FieldValues, Width
  <2>2. k \in Wide
    BY <2>1, OctetsAreNumbers DEF Wide
  <2>3. b = le \o value
    BY <1>6 DEF FieldBytes, Width
  <2>4. Extract(kind, in) = ExtractString(in)
    BY <1>6 DEF Extract
  <2>5. (\A i \in 1..2 : b[i] = le[i]) /\ \A i \in 1..k : b[2 + i] = value[i]
    <3>1. \A x, y \in Octet : <<x, y>> \in Seq(Octet) /\ Len(<<x, y>>) = 2
      OBVIOUS
    <3>2. le \in Seq(Octet) /\ Len(le) = 2
      BY <2>2, <3>1, OctetsAreNumbers DEF LeBytes
    <3> HIDE DEF le
    <3>3. le \in Seq(Octet) /\ value \in Seq(Octet)
      BY <2>1, <3>2
    <3>4. Len(le \o value) = Len(le) + Len(value) /\ \A i \in 1..(Len(le) + Len(value)) :
             (le \o value)[i] = IF i <= Len(le) THEN le[i] ELSE value[i - Len(le)]
      BY ONLY <3>3, Concatenated
    <3> HIDE DEF k, b
    <3>5. \A i \in 1..(2 + k) : b[i] = IF i <= 2 THEN le[i] ELSE value[i - 2]
      BY <2>3, <3>2, <3>4 DEF k
    <3>6. \A i \in 1..k : 2 + i \in 1..(2 + k) /\ ~(2 + i <= 2) /\ 2 + i - 2 = i
      BY <2>1
    <3>7. \A i \in 1..2 : i \in 1..(2 + k) /\ i <= 2
      BY <2>1
    <3> QED BY <3>5, <3>6, <3>7
  <2>6. ExtractString(in) =
          IF ~length.ok THEN Failed
          ELSE IF Len(length.rest) < length.value THEN Failed
          ELSE [ok |-> TRUE, value |-> SubSeq(length.rest, 1, length.value),
                rest |-> SubSeq(length.rest, length.value + 1, Len(length.rest))]
    BY DEF ExtractString, Width
  <2> HIDE DEF b, size
  <2>7. CASE ~(2 <= Len(in))
    <3>1. ~length.ok
      BY <1>1, <2>7 DEF ExtractLe, Failed
    <3>2. ~(size <= Len(in))
      BY <1>1, <2>1, <2>7
    <3> QED BY <2>4, <2>6, <3>1, <3>2 DEF Failed, size
  <2>8. CASE 2 <= Len(in)
    <3>1. in[1] = b[1] /\ in[2] = b[2]
      <4>1. 1 \in 1..size /\ 2 \in 1..size
        BY <2>1
      <4> QED BY <1>1, <2>8, <4>1 DEF b, size
    <3>2. in[1] + Base * in[2] = k
      <4>1. in[1] = le[1] /\ in[2] = le[2]
        BY <2>5, <3>1
      <4> HIDE DEF k
      <4> QED BY <1>2, <2>2, <4>1
    <3>3. length.ok /\ length.value = k /\ length.rest = r
      <4>1. length = [ok |-> TRUE, rest |-> r, value |-> in[1] + Base * in[2]]
        BY <1>1, <2>8 DEF ExtractLe
      <4> QED BY <3>2, <4>1
    <3>4. /\ r \in Seq(Octet) /\ Len(r) = Len(in) - 2
          /\ \A i \in 1..(Len(in) - 2) : r[i] = in[2 + i]
          /\ \A j \in 0..(Len(in) - 2) : SubSeq(r, j + 1, Len(r)) = SubSeq(in, 2 + j + 1, Len(in))
      <4> DEFINE two == 2
                 q == SubSeq(in, two + 1, Len(in))
      <4>1. two \in 0..Len(in)
        BY <1>1, <2>8
      <4> HIDE DEF two
      <4>2. /\ q \in Seq(Octet) /\ Len(q) = Len(in) - two
            /\ \A i \in 1..(Len(in) - two) : q[i] = in[two + i]
            /\ \A j \in 0..(Len(in) - two) : SubSeq(q, j + 1, Len(q)) = SubSeq(in, two + j + 1, Len(in))
        BY ONLY <4>1, in \in Seq(Octet), Behind
      <4> HIDE DEF q
      <4>3. r = q
        BY DEF q, two
      <4> HIDE DEF r
      <4> QED BY <4>2, <4>3 DEF two
    <3> HIDE DEF length, r
    <3>5. CASE ~(size <= Len(in))
      <4>1. Len(r) < k
        BY <1>1, <2>1, <2>8, <3>4, <3>5
      <4> QED BY <2>4, <2>6, <3>3, <3>5, <4>1 DEF Failed, size
    <3>6. CASE size <= Len(in)
      <4>1. ~(Len(r) < k) /\ k \in 0..(Len(in) - 2)
        BY <1>1, <2>1, <2>8, <3>4, <3>6
      <4> DEFINE a == SubSeq(r, 1, k)
      <4>2. a = value
        <5>1. \A i \in 1..k : i \in 1..(Len(in) - 2) /\ r[i] = value[i] /\ r[i] \in Octet
          <6> SUFFICES ASSUME NEW i \in 1..k
                       PROVE  i \in 1..(Len(in) - 2) /\ r[i] = value[i] /\ r[i] \in Octet
            OBVIOUS
          <6>1. i \in 1..(Len(in) - 2) /\ 2 + i \in 1..size /\ 2 + i <= Len(in)
            BY <1>1, <2>1, <4>1
          <6>2. in[2 + i] = b[2 + i]
            BY <6>1 DEF b, size
          <6>3. r[i] \in Octet
            BY <3>4, <6>1, ElementOfSeq
          <6> QED BY <2>5, <3>4, <6>1, <6>2, <6>3
        <5>2. a \in Seq(Octet) /\ Len(a) = k /\ \A i \in 1..k : a[i] = r[i]
          <6> HIDE DEF k
          <6> QED BY <2>1, <5>1, SubSeqProperties
        <5> HIDE DEF a
        <5> QED BY <2>1, <5>1, <5>2, SameSequence
      <4>3. SubSeq(r, k + 1, Len(r)) = SubSeq(in, size + 1, Len(in))
        <5>1. 2 + k + 1 = size + 1
          BY <2>1
        <5> HIDE DEF k
        <5> QED BY <3>4, <4>1, <5>1
      <4> HIDE DEF a, k
      <4>4. ExtractString(in) = [ok |-> TRUE, value |-> a, rest |-> SubSeq(r, k + 1, Len(r))]
        BY <2>6, <3>3, <4>1 DEF a
      <4>5. /\ Extract(kind, in).ok /\ Extract(kind, in).value = value
            /\ Extract(kind, in).rest = SubSeq(in, size + 1, Len(in))
        <5>1. ExtractString(in) = [ok |-> TRUE, value |-> value, rest |-> SubSeq(in, size + 1, Len(in))]
          BY <4>2, <4>3, <4>4, Zenon
        <5>2. \A f, v, rest : f = [ok |-> TRUE, value |-> v, rest |-> rest] =>
                             f.ok /\ f.value = v /\ f.rest = rest
          OBVIOUS
        <5>3. Extract(kind, in) = [ok |-> TRUE, value |-> value, rest |-> SubSeq(in, size + 1, Len(in))]
          BY <2>4, <5>1, Zenon
        <5> QED BY ONLY <5>2, <5>3, Zenon
      <4> QED BY <3>6, <4>5 DEF size
    <3> QED BY <3>5, <3>6
  <2> QED BY <2>7, <2>8
<1> QED BY <1>3, <1>4, <1>5, <1>6 DEF Kinds

CursorStep(type, in, cursor, i) ==
    IF i = 0 THEN [ok |-> TRUE, value |-> <<>>, rest |-> in]
    ELSE Take(cursor[i - 1], DecoderFields[type][i])

LEMMA CursorsExist ==
    ASSUME NEW type, NEW in
    PROVE  \A n \in Nat : \E cursor : cursor = [i \in 0..n |-> CursorStep(type, in, cursor, i)]
<1> DEFINE P(n, s) == s = [i \in 0..n |-> CursorStep(type, in, s, i)]
           S == {n \in Nat : \E s : P(n, s)}
<1>1. 0 \in S
  <2> DEFINE s == [i \in 0..0 |-> [ok |-> TRUE, value |-> <<>>, rest |-> in]]
  <2>1. P(0, s)
    BY DEF CursorStep
  <2> QED BY <2>1
<1>2. ASSUME NEW n \in Nat, n \in S PROVE n + 1 \in S
  <2>1. PICK s : P(n, s)
    BY <1>2
  <2> DEFINE t == [i \in 0..(n + 1) |-> IF i = n + 1 THEN CursorStep(type, in, s, n + 1) ELSE s[i]]
  <2>2. ASSUME NEW i \in 0..(n + 1) PROVE t[i] = CursorStep(type, in, t, i)
    <3>1. i = n + 1 \/ i \in 0..n
      OBVIOUS
    <3>2. i # 0 => i - 1 \in 0..n /\ t[i - 1] = s[i - 1]
      OBVIOUS
    <3>3. t[i] = CursorStep(type, in, s, i)
      <4>1. CASE i = n + 1
        BY <4>1
      <4>2. CASE i # n + 1
        <5>1. i \in 0..n /\ t[i] = s[i]
          BY <3>1, <4>2
        <5>2. s[i] = CursorStep(type, in, s, i)
          BY <2>1, <5>1
        <5> QED BY <5>1, <5>2
      <4> QED BY <4>1, <4>2
    <3> HIDE DEF t
    <3> QED BY <3>2, <3>3 DEF CursorStep
  <2>3. t = [i \in 0..(n + 1) |-> t[i]]
    OBVIOUS
  <2> HIDE DEF t
  <2>4. P(n + 1, t)
    BY <2>2, <2>3
  <2>5. n + 1 \in Nat
    OBVIOUS
  <2> HIDE DEF P
  <2> QED BY <2>4, <2>5
<1> HIDE DEF S
<1>3. Nat \subseteq S
  BY <1>1, <1>2, SetInduction
<1> QED BY <1>3 DEF S

LEMMA CursorsAre ==
    ASSUME NEW type \in Type, NEW in
    PROVE  \E cursor :
             /\ \A i \in 0..Len(DecoderFields[type]) : cursor[i] = CursorStep(type, in, cursor, i)
             /\ DecodeBody(type, in) =
                  LET last == cursor[Len(DecoderFields[type])] IN
                  IF ~last.ok \/ (last.rest # <<>> /\ ~TakesRest(type)) THEN Failed
                  ELSE [ok |-> TRUE, type |-> type, fields |-> last.value, payload |-> last.rest]
<1> DEFINE n == Len(DecoderFields[type])
           cursor == CHOOSE s : s = [i \in 0..n |->
             IF i = 0 THEN [ok |-> TRUE, value |-> <<>>, rest |-> in]
             ELSE Take(s[i - 1], DecoderFields[type][i])]
<1>1. cursor = [i \in 0..n |-> CursorStep(type, in, cursor, i)]
  <2>1. n \in Nat
    BY MessageFields, LenProperties
  <2>2. \E s : s = [i \in 0..n |-> CursorStep(type, in, s, i)]
    BY <2>1, CursorsExist
  <2>3. \E s : s = [i \in 0..n |->
             IF i = 0 THEN [ok |-> TRUE, value |-> <<>>, rest |-> in]
             ELSE Take(s[i - 1], DecoderFields[type][i])]
    BY <2>2, Zenon DEF CursorStep
  <2> QED BY <2>3, Zenon DEF CursorStep
<1>2. DecodeBody(type, in) =
        LET last == cursor[n] IN
        IF ~last.ok \/ (last.rest # <<>> /\ ~TakesRest(type)) THEN Failed
        ELSE [ok |-> TRUE, type |-> type, fields |-> last.value, payload |-> last.rest]
  BY DEF DecodeBody
<1> HIDE DEF cursor
<1>3. \A i \in 0..n : cursor[i] = CursorStep(type, in, cursor, i)
  BY <1>1
<1> QED BY <1>2, <1>3

LEMMA FieldsGrow ==
    ASSUME NEW f, NEW i \in Nat
    PROVE  Append([j \in 1..i |-> f[j]], f[i + 1]) = [j \in 1..(i + 1) |-> f[j]]
<1> DEFINE S == {f[j] : j \in 1..(i + 1)}
           a == [j \in 1..i |-> f[j]]
           b == [j \in 1..(i + 1) |-> f[j]]
<1>1. a \in [1..i -> S] /\ b \in [1..(i + 1) -> S] /\ f[i + 1] \in S
  OBVIOUS
<1> HIDE DEF S
<1>2. a \in Seq(S) /\ Len(a) = i /\ b \in Seq(S) /\ Len(b) = i + 1
  BY <1>1, TupleIsSeq
<1>3. \A j \in 1..i : a[j] = f[j]
  OBVIOUS
<1>4. \A j \in 1..(i + 1) : b[j] = f[j]
  OBVIOUS
<1> HIDE DEF a, b
<1> DEFINE c == Append(a, f[i + 1])
<1>5. c \in Seq(S) /\ Len(c) = i + 1 /\ (\A j \in 1..i : c[j] = a[j]) /\ c[i + 1] = f[i + 1]
  BY <1>1, <1>2, AppendProperties
<1> HIDE DEF c
<1>6. \A j \in 1..(i + 1) : c[j] = b[j]
  <2>1. \A j \in 1..(i + 1) : j = i + 1 \/ j \in 1..i
    OBVIOUS
  <2> QED BY <1>3, <1>4, <1>5, <2>1
<1>7. c = b
  BY <1>2, <1>5, <1>6, SameSequence
<1> QED BY <1>7 DEF a, b, c

\* The fields of a message are decoded as far as its bytes go.
LEMMA FieldsDecoded ==
    ASSUME CodecConstants, NEW m, IsMessage(m), NEW end, Ends(m, end),
           end[Fields(m)] < Base * Base,
           NEW b \in Seq(Octet), Agrees(m, end, Fields(m), b), Len(b) >= 1,
           NEW cursor, \A i \in 0..Fields(m) :
                cursor[i] = CursorStep(m.type, SubSeq(b, 2, Len(b)), cursor, i)
    PROVE  LET last == cursor[Fields(m)]
               size == end[Fields(m)] IN
           IF size <= Len(b)
             THEN last.ok /\ last.value = m.fields /\ last.rest = SubSeq(b, size + 1, Len(b))
             ELSE ~last.ok
<1> DEFINE n == Fields(m)
           Size(i) == FieldSize(Kind(m, i), m.fields[i])
           Good(i) ==
             IF end[i] <= Len(b)
               THEN /\ cursor[i].ok /\ cursor[i].value = [j \in 1..i |-> m.fields[j]]
                    /\ cursor[i].rest = SubSeq(b, end[i] + 1, Len(b))
               ELSE ~cursor[i].ok
<1>1. /\ n \in Nat /\ m.type \in Type /\ m.fields = [j \in 1..n |-> m.fields[j]]
      /\ \A i \in 1..n : /\ Kind(m, i) \in Kinds /\ m.fields[i] \in FieldValues(Kind(m, i))
                         /\ Size(i) \in Nat
  BY MessageParts
<1>2. /\ end[0] = 1
      /\ \A i \in 1..n : end[i] = end[i - 1] + Size(i)
      /\ \A i \in 0..n : end[i] \in Nat \ {0} /\ \A j \in 0..i : end[j] \in Nat /\ end[j] <= end[i]
  BY EndsGrow
<1>3. Len(b) \in Nat /\ Base * Base \in Nat
  BY OctetsAreNumbers, LenProperties
<1>4. \A i \in 1..n : DecoderFields[m.type][i] = Kind(m, i)
  BY <1>1, MessageFields DEF Kind
<1>5. \A i \in 1..n : \A x \in 1..Size(i) :
         end[i - 1] + x <= Len(b) => b[end[i - 1] + x] = FieldBytes(Kind(m, i), m.fields[i])[x]
  BY DEF Agrees
<1>6. end[n] < Base * Base /\ \A i \in 0..n :
         cursor[i] = CursorStep(m.type, SubSeq(b, 2, Len(b)), cursor, i)
  OBVIOUS
<1> HIDE DEF n, Size
<1>7. Good(0)
  <2>1. cursor[0] = [ok |-> TRUE, value |-> <<>>, rest |-> SubSeq(b, 2, Len(b))]
    <3>1. 0 \in 0..n
      BY <1>1
    <3>2. cursor[0] = CursorStep(m.type, SubSeq(b, 2, Len(b)), cursor, 0)
      BY <1>6, <3>1
    <3> QED BY <3>2 DEF CursorStep
  <2>2. <<>> = [j \in 1..0 |-> m.fields[j]] /\ end[0] = 1 /\ 1 + 1 = 2
    BY <1>2
  <2>3. end[0] + 1 = 2
    BY <2>2
  <2> QED BY <1>3, <2>1, <2>2, <2>3
<1> DEFINE S == {i \in Nat : i <= n => Good(i)}
<1>8. 0 \in S
  BY <1>7
<1>9. ASSUME NEW i \in Nat, i \in S PROVE i + 1 \in S
  <2> SUFFICES ASSUME i + 1 <= n PROVE Good(i + 1)
    OBVIOUS
  <2>1. Good(i) /\ i + 1 \in 1..n /\ i + 1 \in 0..n /\ i + 1 - 1 = i /\ i + 1 # 0 /\ i \in 0..n
    BY <1>1, <1>9
  <2> DEFINE s == Size(i + 1)
             kind == Kind(m, i + 1)
             value == m.fields[i + 1]
             in == cursor[i].rest
             field == Extract(kind, in)
  <2>2. cursor[i + 1] = IF ~cursor[i].ok \/ ~field.ok THEN Failed
                        ELSE [ok |-> TRUE, value |-> Append(cursor[i].value, field.value),
                              rest |-> field.rest]
    <3>1. cursor[i + 1] = Take(cursor[i], kind)
      <4>1. DecoderFields[m.type][i + 1] = kind
        BY <1>4, <2>1
      <4>2. cursor[i + 1] = CursorStep(m.type, SubSeq(b, 2, Len(b)), cursor, i + 1)
        BY <1>6, <2>1
      <4> QED BY <2>1, <4>1, <4>2 DEF CursorStep
    <3> QED BY <3>1 DEF Take
  <2>3. end[i + 1] = end[i] + s /\ end[i] \in Nat /\ s \in Nat /\ end[i] > 0 /\ end[i + 1] <= end[n]
        /\ end[n] \in Nat
    <3>1. n \in 0..n
      BY <1>1
    <3>2. end[i + 1] = end[i] + s /\ s \in Nat
      <4> HIDE DEF Size
      <4>1. end[i + 1] = end[(i + 1) - 1] + Size(i + 1) /\ Size(i + 1) \in Nat
        BY <1>1, <1>2, <2>1
      <4> QED BY <2>1, <4>1
    <3>3. end[n] \in Nat /\ end[i + 1] <= end[n]
      BY <1>2, <2>1, <3>1
    <3>4. end[i] \in Nat \ {0}
      BY <1>2, <2>1
    <3> HIDE DEF s
    <3> QED BY <3>2, <3>3, <3>4
  <2>4. s < Base * Base
    BY <1>3, <1>6, <2>3
  <2>5. CASE ~(end[i] <= Len(b))
    <3>1. ~cursor[i].ok /\ ~(end[i + 1] <= Len(b))
      BY <1>3, <2>1, <2>3, <2>5
    <3> QED BY <2>2, <3>1 DEF Failed
  <2>6. CASE end[i] <= Len(b)
    <3>1. cursor[i].ok /\ cursor[i].value = [j \in 1..i |-> m.fields[j]]
          /\ in = SubSeq(b, end[i] + 1, Len(b))
      BY <2>1, <2>6
    <3>2. /\ in \in Seq(Octet) /\ Len(in) = Len(b) - end[i]
          /\ \A x \in 1..(Len(b) - end[i]) : in[x] = b[end[i] + x]
          /\ \A j \in 0..(Len(b) - end[i]) : SubSeq(in, j + 1, Len(in)) = SubSeq(b, end[i] + j + 1, Len(b))
      <4> DEFINE e == end[i]
                 r == SubSeq(b, e + 1, Len(b))
      <4>1. e \in 0..Len(b)
        BY <1>3, <2>3, <2>6
      <4> HIDE DEF e
      <4>5. /\ r \in Seq(Octet) /\ Len(r) = Len(b) - e
            /\ \A x \in 1..(Len(b) - e) : r[x] = b[e + x]
            /\ \A j \in 0..(Len(b) - e) :
                  SubSeq(r, j + 1, Len(r)) = SubSeq(b, e + j + 1, Len(b))
        BY <4>1, Behind
      <4>2. /\ r \in Seq(Octet) /\ Len(r) = Len(b) - end[i]
            /\ \A x \in 1..(Len(b) - end[i]) : r[x] = b[end[i] + x]
            /\ \A j \in 0..(Len(b) - end[i]) :
                  SubSeq(r, j + 1, Len(r)) = SubSeq(b, end[i] + j + 1, Len(b))
        BY <4>5 DEF e
      <4> HIDE DEF r, in
      <4>3. in = r
        BY <3>1 DEF r, e
      <4> QED BY <4>2, <4>3
    <3>3. kind \in Kinds /\ value \in FieldValues(kind)
      BY <1>1, <2>1
    <3> HIDE DEF in
    <3>4. ASSUME NEW x \in 1..s, x <= Len(in) PROVE in[x] = FieldBytes(kind, value)[x]
      <4>1. end[i] + x <= Len(b) /\ x \in 1..(Len(b) - end[i])
        <5> DEFINE e == end[i]
        <5>1. e \in Nat /\ s \in Nat /\ Len(in) = Len(b) - e /\ x <= Len(in)
          BY <2>3, <3>2, <3>4
        <5> HIDE DEF e, s
        <5>2. x \in 1..s
          BY <3>4
        <5> QED BY <1>3, <5>1, <5>2 DEF e
      <4>2. b[end[i] + x] = FieldBytes(kind, value)[x]
        BY <1>5, <2>1, <4>1
      <4> QED BY <3>2, <4>1, <4>2
    <3> HIDE DEF kind, value
    <3>5. s = FieldSize(kind, value)
      BY DEF kind, value, Size
    <3> HIDE DEF s, field
    <3>6. IF s <= Len(in) THEN field.ok /\ field.value = value /\ field.rest = SubSeq(in, s + 1, Len(in))
          ELSE ~field.ok
      <4>1. FieldSize(kind, value) < Base * Base /\ in \in Seq(Octet)
        BY <2>4, <3>2, <3>5 DEF s
      <4>2. \A x \in 1..FieldSize(kind, value) : x <= Len(in) => in[x] = FieldBytes(kind, value)[x]
        BY <3>4, <3>5
      <4>3. IF FieldSize(kind, value) <= Len(in)
              THEN /\ field.ok /\ field.value = value
                   /\ field.rest = SubSeq(in, FieldSize(kind, value) + 1, Len(in))
              ELSE ~field.ok
        BY <3>3, <4>1, <4>2, FieldExtracted DEF field
      <4> QED BY <3>5, <4>3
    <3>7. s <= Len(in) <=> end[i + 1] <= Len(b)
      <4> DEFINE e == end[i]
                 f == end[i + 1]
      <4>1. f = e + s /\ e \in Nat /\ s \in Nat /\ Len(in) = Len(b) - e
        BY <2>3, <3>2
      <4> HIDE DEF e, f
      <4>2. s <= Len(in) <=> f <= Len(b)
        BY <1>3, <4>1
      <4> QED BY <4>2 DEF f
    <3>8. CASE ~(s <= Len(in))
      <4>1. ~field.ok
        BY <3>6, <3>8
      <4>2. cursor[i + 1] = Failed
        BY <2>2, <4>1
      <4> QED BY <3>7, <3>8, <4>2 DEF Failed
    <3>9. CASE s <= Len(in)
      <4>1. cursor[i + 1] = [ok |-> TRUE, value |-> Append(cursor[i].value, value),
                             rest |-> SubSeq(in, s + 1, Len(in))]
        BY <2>2, <3>1, <3>6, <3>9
      <4>2. Append(cursor[i].value, value) = [j \in 1..(i + 1) |-> m.fields[j]]
        BY <3>1, FieldsGrow DEF value
      <4>3. SubSeq(in, s + 1, Len(in)) = SubSeq(b, end[i + 1] + 1, Len(b))
        <5>1. s \in 0..(Len(b) - end[i]) /\ end[i] + s + 1 = end[i + 1] + 1
          BY <1>3, <2>3, <3>2, <3>9
        <5> QED BY <3>2, <5>1
      <4>4. cursor[i + 1].ok /\ cursor[i + 1].value = [j \in 1..(i + 1) |-> m.fields[j]]
            /\ cursor[i + 1].rest = SubSeq(b, end[i + 1] + 1, Len(b))
        <5> DEFINE v == [j \in 1..(i + 1) |-> m.fields[j]]
                   rest == SubSeq(b, end[i + 1] + 1, Len(b))
        <5>1. cursor[i + 1] = [ok |-> TRUE, value |-> v, rest |-> rest]
          BY <4>1, <4>2, <4>3, Zenon
        <5> HIDE DEF v, rest
        <5>2. cursor[i + 1].ok /\ cursor[i + 1].value = v /\ cursor[i + 1].rest = rest
          BY <5>1
        <5> QED BY <5>2 DEF v, rest
      <4> QED BY <3>7, <3>9, <4>4
    <3> QED BY <3>8, <3>9
  <2> QED BY <2>5, <2>6
<1> HIDE DEF S
<1>10. n \in S
  BY <1>1, <1>8, <1>9, SetInduction
<1>11. Good(n)
  BY <1>1, <1>10 DEF S
<1> QED BY <1>1, <1>11 DEF n

\* What the decoder makes of bytes that are those of a message as far as they go.
LEMMA MessageDecodedIs ==
    ASSUME CodecConstants, NEW m, IsMessage(m), NEW end, Ends(m, end),
           end[Fields(m)] < Base * Base, NEW b \in Seq(Octet), Agrees(m, end, Fields(m), b)
    PROVE  LET got == DecodeMessage(b)
               size == end[Fields(m)]
               behind == SubSeq(b, size + 1, Len(b)) IN
           /\ ~(size <= Len(b)) => ~got.ok
           /\ size <= Len(b) =>
                IF behind # <<>> /\ m.type # "command_request" THEN ~got.ok
                ELSE /\ got.ok /\ got.type = m.type /\ got.fields = m.fields
                     /\ got.payload = behind
<1> DEFINE size == end[Fields(m)]
           behind == SubSeq(b, size + 1, Len(b))
           n == Fields(m)
<1>1. Len(b) \in Nat /\ size \in Nat \ {0} /\ m.type \in Type
  <2>1. Fields(m) \in Nat /\ m.type \in Type
    BY MessageParts
  <2>2. Fields(m) \in 0..Fields(m)
    BY <2>1
  <2>3. size \in Nat \ {0}
    BY <2>2, EndsGrow
  <2> QED BY <2>1, <2>3, LenProperties
<1>2. CASE b = <<>>
  <2>1. DecodeMessage(b) = Failed
    BY <1>2 DEF DecodeMessage
  <2>2. Len(b) = 0
    BY <1>2
  <2> HIDE DEF size
  <2>3. ~(size <= Len(b))
    BY <1>1, <2>2
  <2> QED BY <2>1, <2>3 DEF Failed, size
<1>3. CASE b # <<>>
  <2>1. Len(b) >= 1 /\ Head(b) = b[1] /\ Tail(b) = SubSeq(b, 2, Len(b))
    <3>1. Len(b) \in Nat \ {0}
      BY <1>3, EmptySeq
    <3> QED BY <1>3, <3>1, TailIsSubSeq
  <2>2. Head(b) = TypeByte[m.type] /\ Head(b) \in DOMAIN Types /\ Types[Head(b)] = m.type
    <3>1. Head(b) = TypeByte[m.type]
      BY <2>1 DEF Agrees
    <3> QED BY <1>1, <3>1, MessageTypes
  <2> DEFINE in == SubSeq(b, 2, Len(b))
  <2>3. DecodeMessage(b) = DecodeBody(m.type, in)
    BY <1>3, <2>1, <2>2 DEF DecodeMessage
  <2> HIDE DEF in
  <2>4. Len(DecoderFields[m.type]) = n
    BY <1>1, MessageFields DEF Fields
  <2>5. PICK cursor :
             /\ \A i \in 0..n : cursor[i] = CursorStep(m.type, in, cursor, i)
             /\ DecodeBody(m.type, in) =
                  LET last == cursor[n] IN
                  IF ~last.ok \/ (last.rest # <<>> /\ ~TakesRest(m.type)) THEN Failed
                  ELSE [ok |-> TRUE, type |-> m.type, fields |-> last.value, payload |-> last.rest]
    <3> HIDE DEF n
    <3> DEFINE type == m.type
    <3>1. type \in Type
      BY <1>1
    <3> HIDE DEF type
    <3>2. \E cursor :
             /\ \A i \in 0..Len(DecoderFields[type]) : cursor[i] = CursorStep(type, in, cursor, i)
             /\ DecodeBody(type, in) =
                  LET last == cursor[Len(DecoderFields[type])] IN
                  IF ~last.ok \/ (last.rest # <<>> /\ ~TakesRest(type)) THEN Failed
                  ELSE [ok |-> TRUE, type |-> type, fields |-> last.value, payload |-> last.rest]
      BY <3>1, CursorsAre
    <3> QED BY <2>4, <3>2, Zenon DEF type
  <2> DEFINE last == cursor[n]
  <2>6. IF size <= Len(b) THEN last.ok /\ last.value = m.fields /\ last.rest = behind
        ELSE ~last.ok
    BY <2>1, <2>5, FieldsDecoded DEF in
  <2>7. TakesRest(m.type) <=> m.type = "command_request"
    BY DEF TakesRest
  <2> HIDE DEF last, n, size, behind
  <2> DEFINE got == DecodeMessage(b)
  <2>8. got = IF ~last.ok \/ (last.rest # <<>> /\ ~TakesRest(m.type)) THEN Failed
              ELSE [ok |-> TRUE, type |-> m.type, fields |-> last.value, payload |-> last.rest]
    BY <2>3, <2>5 DEF last
  <2> HIDE DEF got
  <2>9. CASE ~(size <= Len(b))
    <3>1. got = Failed
      BY <2>6, <2>8, <2>9
    <3> QED BY <2>9, <3>1 DEF Failed, got, size
  <2>10. CASE size <= Len(b) /\ behind # <<>> /\ m.type # "command_request"
    <3>1. got = Failed
      BY <2>6, <2>7, <2>8, <2>10
    <3> QED BY <2>10, <3>1 DEF Failed, got, size, behind
  <2>11. CASE size <= Len(b) /\ ~(behind # <<>> /\ m.type # "command_request")
    <3>1. got = [ok |-> TRUE, type |-> m.type, fields |-> m.fields, payload |-> behind]
      BY <2>6, <2>7, <2>8, <2>11
    <3>2. got.ok /\ got.type = m.type /\ got.fields = m.fields /\ got.payload = behind
      BY <3>1
    <3> QED BY <2>11, <3>2 DEF got, size, behind
  <2> QED BY <2>9, <2>10, <2>11
<1> QED BY <1>2, <1>3

----------------------------------------------------------------------------
(* The codec *)

\* What the bytes have to do with the message, at every stage of its way.
BytesAre(m, end) ==
    LET size == end[Fields(m)] + Len(m.payload) IN
    /\ stage = "compose" => bytes = <<>> /\ change = "none"
    /\ stage = "refused" => ~(size <= tailroom) /\ change = "none"
    /\ stage \in {"sent", "received"} =>
         /\ size <= tailroom /\ Carries(m, end, bytes)
         /\ change = "none" => Len(bytes) = size
         /\ change = "cut" => Len(bytes) < size
         /\ change = "longer" => Len(bytes) > size
    /\ stage = "received" => incoming = DecodeMessage(bytes)

CodecInv ==
    /\ CodecTypeOK
    /\ BytesAre(outgoing, EndsOf(outgoing))

LEMMA OutgoingIsMessage ==
    ASSUME CodecConstants, outgoing \in Outgoing, tailroom \in Tailrooms
    PROVE  IsMessage(outgoing) /\ tailroom \in Wide /\ tailroom \in Nat /\ tailroom < Base * Base
<1>1. IsMessage(outgoing) /\ tailroom \in Wide
  BY DEF CodecConstants, IsMessage
<1>2. \A b \in Nat : \A r \in 0..(b - 1) : r \in Nat /\ r < b
  OBVIOUS
<1> QED BY <1>1, <1>2, OctetsAreNumbers DEF Wide

\* A part of bytes that are a message's, and what goes on behind them, still agree with it.
LEMMA StillCarries ==
    ASSUME NEW m, IsMessage(m), NEW end, Ends(m, end), NEW b \in Seq(Octet), NEW c \in Seq(Octet),
           Carries(m, end, b), Len(b) = end[Fields(m)] + Len(m.payload),
           \A x \in 1..Len(b) : x <= Len(c) => c[x] = b[x]
    PROVE  Carries(m, end, c)
<1> DEFINE n == Fields(m)
<1>1. /\ n \in Nat /\ Len(m.payload) \in Nat /\ end[n] \in Nat \ {0}
      /\ \A i \in 1..n : /\ end[i] = end[i - 1] + FieldSize(Kind(m, i), m.fields[i])
                         /\ end[i - 1] \in Nat /\ end[i] <= end[n]
                         /\ FieldSize(Kind(m, i), m.fields[i]) \in Nat
  <2>1. n \in Nat /\ Len(m.payload) \in 0..1 /\ \A i \in 1..n : FieldSize(Kind(m, i), m.fields[i]) \in Nat
    BY MessageParts
  <2>2. \A i \in 1..n : i - 1 \in 0..n /\ i \in 0..n /\ n \in 0..n
    BY <2>1
  <2>3. n \in 0..n
    BY <2>1
  <2> HIDE DEF n
  <2>4. /\ \A i \in 1..n : end[i] = end[i - 1] + FieldSize(Kind(m, i), m.fields[i])
        /\ \A i \in 0..n : end[i] \in Nat \ {0} /\ \A j \in 0..i : end[j] \in Nat /\ end[j] <= end[i]
    BY EndsGrow DEF n
  <2>5. end[n] \in Nat \ {0} /\ \A i \in 0..n : end[i] \in Nat /\ end[i] <= end[n]
    BY <2>3, <2>4
  <2>6. \A i \in 1..n : end[i - 1] \in Nat /\ end[i] <= end[n]
    BY <2>2, <2>5
  <2>7. \A i \in 1..n : FieldSize(Kind(m, i), m.fields[i]) \in Nat
    BY <2>1
  <2>8. \A i \in 1..n : end[i] = end[i - 1] + FieldSize(Kind(m, i), m.fields[i])
    BY <2>4
  <2>9. n \in Nat /\ Len(m.payload) \in Nat
    BY <2>1
  <2> QED BY <2>5, <2>6, <2>7, <2>8, <2>9, Zenon
<1> HIDE DEF n
<1>2. Len(b) \in Nat /\ Len(c) \in Nat /\ Len(b) = end[n] + Len(m.payload)
  BY LenProperties DEF n
<1>3. Len(c) >= 1 => c[1] = TypeByte[m.type]
  <2>1. 1 \in 1..Len(b) /\ Len(b) >= 1
    BY <1>1, <1>2
  <2> QED BY <2>1 DEF Carries, Agrees
<1>4. ASSUME NEW i \in 1..n, NEW x \in 1..FieldSize(Kind(m, i), m.fields[i]), end[i - 1] + x <= Len(c)
      PROVE  c[end[i - 1] + x] = FieldBytes(Kind(m, i), m.fields[i])[x]
  <2>1. end[i - 1] + x \in 1..Len(b) /\ end[i - 1] + x <= Len(b)
    <3> DEFINE e == end[i - 1]
               f == end[i]
               g == end[n]
               s == FieldSize(Kind(m, i), m.fields[i])
    <3>1. /\ e \in Nat /\ s \in Nat /\ f = e + s /\ f <= g /\ g \in Nat /\ Len(m.payload) \in Nat
          /\ Len(b) = g + Len(m.payload) /\ x \in 1..s
      BY <1>1, <1>2
    <3> HIDE DEF e, f, g, s
    <3>2. e + x \in 1..Len(b) /\ e + x <= Len(b)
      BY <3>1
    <3> QED BY <3>2 DEF e
  <2> QED BY <1>4, <2>1 DEF Carries, Agrees, n
<1>5. ASSUME NEW x \in 1..Len(m.payload), end[n] + x <= Len(c)
      PROVE  c[end[n] + x] = m.payload[x]
  <2>1. end[n] + x \in 1..Len(b) /\ end[n] + x <= Len(b)
    BY <1>1, <1>2
  <2> QED BY <1>5, <2>1 DEF Carries, n
<1> QED BY <1>3, <1>4, <1>5 DEF Carries, Agrees, n

LEMMA CodecStart == ASSUME CodecConstants, CodecInit PROVE CodecInv
BY DEF CodecInit, CodecInv, CodecTypeOK, BytesAre

LEMMA CodecStep ==
    ASSUME CodecConstants, CodecInv, [CodecNext]_codecVars
    PROVE  CodecInv'
<1> DEFINE m == outgoing
           end == EndsOf(outgoing)
           size == end[Fields(m)] + Len(m.payload)
<1>1. IsMessage(m) /\ tailroom \in Wide /\ tailroom \in Nat /\ tailroom < Base * Base
  BY OutgoingIsMessage DEF CodecInv, CodecTypeOK
<1>2. Ends(m, end)
  BY <1>1, WireSizeIs
<1>3. size \in Nat /\ bytes \in Seq(Octet) /\ Len(bytes) \in Nat
  <2>1. Fields(m) \in Nat /\ Len(m.payload) \in 0..1
    BY <1>1, MessageParts
  <2>2. Fields(m) \in 0..Fields(m)
    BY <2>1
  <2>3. end[Fields(m)] \in Nat
    BY <1>1, <1>2, <2>2, EndsGrow
  <2> HIDE DEF end
  <2> QED BY <2>1, <2>3 DEF CodecInv, CodecTypeOK
<1>4. CASE Compose
  <2> DEFINE out == Encoded(m, tailroom)
  <2>1. IF size <= tailroom THEN /\ out.ok /\ out.data \in Seq(Octet) /\ Len(out.data) = size
                                 /\ Carries(m, end, out.data)
                            ELSE ~out.ok
    BY <1>1, <1>2, EncodedIs
  <2> HIDE DEF out
  <2>2. UNCHANGED <<outgoing, tailroom, change, incoming>> /\ stage = "compose" /\ change = "none"
    BY <1>4 DEF Compose, CodecInv, BytesAre
  <2>3. /\ stage' = IF out.ok THEN "sent" ELSE "refused"
        /\ bytes' = IF out.ok THEN out.data ELSE <<>>
    BY <1>4 DEF Compose, out
  <2> HIDE DEF m, end, size
  <2>4. CodecTypeOK'
    <3>1. bytes' \in Seq(Octet)
      BY <2>1, <2>3, EmptySeq
    <3> QED BY <2>2, <2>3, <3>1 DEF CodecInv, CodecTypeOK
  <2>5. BytesAre(outgoing, EndsOf(outgoing))'
    <3>1. m' = m /\ end' = end /\ size' = size
      BY <2>2 DEF m, end, size
    <3>2. CASE size <= tailroom
      BY <2>1, <2>2, <2>3, <3>1, <3>2 DEF BytesAre, m, end, size
    <3>3. CASE ~(size <= tailroom)
      BY <2>1, <2>2, <2>3, <3>1, <3>3 DEF BytesAre, m, end, size
    <3> QED BY <3>2, <3>3
  <2> QED BY <2>4, <2>5 DEF CodecInv
<1>5. CASE CutShort
  <2>1. PICK k \in 0..(Len(bytes) - 1) : bytes' = SubSeq(bytes, 1, k)
    BY <1>5 DEF CutShort
  <2>2. UNCHANGED <<outgoing, tailroom, stage, incoming>> /\ stage = "sent" /\ change = "none"
        /\ change' = "cut"
    BY <1>5 DEF CutShort
  <2>3. /\ size <= tailroom /\ Carries(m, end, bytes) /\ Len(bytes) = size
    BY <2>2 DEF CodecInv, BytesAre
  <2>4. /\ bytes' \in Seq(Octet) /\ Len(bytes') = k /\ \A x \in 1..k : bytes'[x] = bytes[x]
    <3> HIDE DEF size
    <3>0. k \in Nat /\ k <= Len(bytes)
      BY <1>3
    <3>1. \A x \in 1..k : bytes[x] \in Octet
      BY <1>3, <3>0, ElementOfSeq
    <3>2. /\ SubSeq(bytes, 1, k) \in Seq(Octet) /\ Len(SubSeq(bytes, 1, k)) = IF 1 <= k THEN k - 1 + 1 ELSE 0
          /\ \A x \in 1..(k - 1 + 1) : SubSeq(bytes, 1, k)[x] = bytes[1 + x - 1]
      BY <3>0, <3>1, SubSeqProperties
    <3>3. k - 1 + 1 = k /\ (\A x \in 1..k : 1 + x - 1 = x) /\ (1 <= k \/ k = 0)
      BY <3>0
    <3> QED BY <2>1, <3>2, <3>3
  <2>5. Carries(m, end, bytes')
    <3>1. \A x \in 1..Len(bytes) : x <= Len(bytes') => bytes'[x] = bytes[x]
      BY <2>4
    <3> HIDE DEF m, end
    <3> QED BY <1>1, <1>2, <1>3, <2>3, <2>4, <3>1, StillCarries DEF size
  <2>6. Len(bytes') < size
    <3> HIDE DEF size
    <3> QED BY <1>3, <2>3, <2>4
  <2> HIDE DEF m, end, size
  <2>7. m' = m /\ end' = end /\ size' = size
    BY <2>2 DEF m, end, size
  <2> QED BY <2>2, <2>3, <2>4, <2>5, <2>6, <2>7 DEF CodecInv, CodecTypeOK, BytesAre, m, end, size
<1>6. CASE GoOn
  <2>1. PICK addition \in Additions : bytes' = bytes \o addition
    BY <1>6 DEF GoOn
  <2>2. UNCHANGED <<outgoing, tailroom, stage, incoming>> /\ stage = "sent" /\ change = "none"
        /\ change' = "longer"
    BY <1>6 DEF GoOn
  <2>3. /\ size <= tailroom /\ Carries(m, end, bytes) /\ Len(bytes) = size
    BY <2>2 DEF CodecInv, BytesAre
  <2>4. addition \in Seq(Octet) /\ addition # <<>>
    BY DEF CodecConstants
  <2>5. Len(addition) \in Nat \ {0}
    BY <2>4, EmptySeq
  <2>6. /\ bytes' \in Seq(Octet) /\ Len(bytes') = Len(bytes) + Len(addition)
        /\ \A x \in 1..Len(bytes) : bytes'[x] = bytes[x]
    <3>1. /\ bytes \o addition \in Seq(Octet) /\ Len(bytes \o addition) = Len(bytes) + Len(addition)
          /\ \A x \in 1..(Len(bytes) + Len(addition)) :
                (bytes \o addition)[x] = IF x <= Len(bytes) THEN bytes[x] ELSE addition[x - Len(bytes)]
      BY <1>3, <2>4, Concatenated
    <3>2. \A x \in 1..Len(bytes) : x \in 1..(Len(bytes) + Len(addition)) /\ x <= Len(bytes)
      BY <1>3, <2>5
    <3> QED BY <2>1, <3>1, <3>2
  <2>7. Carries(m, end, bytes')
    <3>1. \A x \in 1..Len(bytes) : x <= Len(bytes') => bytes'[x] = bytes[x]
      BY <2>6
    <3> HIDE DEF m, end
    <3> QED BY <1>1, <1>2, <1>3, <2>3, <2>6, <3>1, StillCarries DEF size
  <2>8. Len(bytes') > size
    <3> HIDE DEF size
    <3> QED BY <1>3, <2>3, <2>5, <2>6
  <2> HIDE DEF m, end, size
  <2>9. m' = m /\ end' = end /\ size' = size
    BY <2>2 DEF m, end, size
  <2> QED BY <2>2, <2>3, <2>6, <2>7, <2>8, <2>9 DEF CodecInv, CodecTypeOK, BytesAre, m, end, size
<1>7. CASE Decode
  <2>1. UNCHANGED <<outgoing, tailroom, bytes, change>> /\ stage = "sent" /\ stage' = "received"
        /\ incoming' = DecodeMessage(bytes)
    BY <1>7 DEF Decode
  <2> HIDE DEF m, end, size
  <2>2. m' = m /\ end' = end /\ size' = size
    BY <2>1 DEF m, end, size
  <2>3. DecodeMessage(bytes)' = DecodeMessage(bytes)
    BY <2>1 DEF DecodeMessage
  <2> QED BY <2>1, <2>2, <2>3 DEF CodecInv, CodecTypeOK, BytesAre, m, end, size
<1>8. CASE UNCHANGED codecVars
  <2>1. UNCHANGED <<outgoing, tailroom, stage, bytes, change, incoming>>
    BY <1>8 DEF codecVars
  <2> QED BY <2>1 DEF CodecInv, CodecTypeOK, BytesAre, DecodeMessage
<1> QED BY <1>4, <1>5, <1>6, <1>7, <1>8 DEF CodecNext

LEMMA CodecInvIsSound ==
    ASSUME CodecConstants, CodecInv
    PROVE  MessagesSound
<1> DEFINE m == outgoing
           end == EndsOf(outgoing)
           h == end[Fields(m)]
           size == h + Len(m.payload)
           behind == SubSeq(bytes, h + 1, Len(bytes))
           got == DecodeMessage(bytes)
<1>1. IsMessage(m) /\ tailroom \in Wide /\ tailroom \in Nat /\ tailroom < Base * Base
  BY OutgoingIsMessage DEF CodecInv, CodecTypeOK
<1>2. Ends(m, end) /\ WireSize(m) = size
  BY <1>1, WireSizeIs
<1>3. /\ h \in Nat \ {0} /\ bytes \in Seq(Octet) /\ Len(bytes) \in Nat
      /\ m.payload \in Seq(Octet) /\ Len(m.payload) \in 0..1
      /\ m.type = "command_request" => Len(m.payload) = 1
      /\ m.type # "command_request" => m.payload = <<>>
  <2>1. Fields(m) \in Nat
    BY <1>1, MessageParts
  <2>2. Fields(m) \in 0..Fields(m)
    BY <2>1
  <2>3. h \in Nat \ {0}
    BY <1>1, <1>2, <2>2, EndsGrow
  <2> HIDE DEF h
  <2>4. bytes \in Seq(Octet)
    BY DEF CodecInv, CodecTypeOK
  <2> QED BY <1>1, <2>3, <2>4, LenProperties, MessageParts
<1>4. /\ stage = "refused" => ~(size <= tailroom)
      /\ stage \in {"sent", "received"} =>
           /\ size <= tailroom /\ Carries(m, end, bytes)
           /\ change = "none" => Len(bytes) = size
           /\ change = "cut" => Len(bytes) < size
           /\ change = "longer" => Len(bytes) > size
      /\ stage = "received" => incoming = got
      /\ change \in {"none", "cut", "longer"} /\ CodecTypeOK
  BY DEF CodecInv, BytesAre, CodecTypeOK
<1>5. stage \in {"sent", "received"} =>
        /\ ~(h <= Len(bytes)) => ~got.ok
        /\ h <= Len(bytes) =>
             IF behind # <<>> /\ m.type # "command_request" THEN ~got.ok
             ELSE got.ok /\ got.type = m.type /\ got.fields = m.fields /\ got.payload = behind
  <2> SUFFICES ASSUME stage \in {"sent", "received"}
               PROVE  /\ ~(h <= Len(bytes)) => ~got.ok
                      /\ h <= Len(bytes) =>
                           IF behind # <<>> /\ m.type # "command_request" THEN ~got.ok
                           ELSE /\ got.ok /\ got.type = m.type /\ got.fields = m.fields
                                /\ got.payload = behind
    OBVIOUS
  <2>1. size <= tailroom /\ Carries(m, end, bytes)
    BY <1>4
  <2>2. h < Base * Base
    <3> HIDE DEF h, m
    <3> DEFINE c == Base * Base
    <3>1. c \in Nat /\ tailroom < c
      BY <1>1, OctetsAreNumbers
    <3> HIDE DEF c
    <3>2. h + Len(m.payload) <= tailroom
      BY <2>1
    <3>3. h < c
      BY <1>1, <1>3, <3>1, <3>2
    <3> QED BY <3>3 DEF c
  <2>3. Agrees(m, end, Fields(m), bytes)
    BY <2>1 DEF Carries
  <2> HIDE DEF m, end
  <2> QED BY <1>1, <1>2, <1>3, <2>2, <2>3, MessageDecodedIs
<1> HIDE DEF size, got
<1>6. h <= Len(bytes) => /\ behind \in Seq(Octet) /\ Len(behind) = Len(bytes) - h
                         /\ \A x \in 1..(Len(bytes) - h) : behind[x] = bytes[h + x]
                         /\ (behind = <<>> <=> h = Len(bytes))
  <2> SUFFICES ASSUME h <= Len(bytes)
               PROVE  /\ behind \in Seq(Octet) /\ Len(behind) = Len(bytes) - h
                      /\ \A x \in 1..(Len(bytes) - h) : behind[x] = bytes[h + x]
                      /\ (behind = <<>> <=> h = Len(bytes))
    OBVIOUS
  <2> HIDE DEF h
  <2>1. h \in 0..Len(bytes)
    BY <1>3
  <2> QED BY <1>3, <2>1, Behind
<1>7. size = h + Len(m.payload) /\ size \in Nat
  <2> HIDE DEF h
  <2> QED BY <1>3 DEF size
<1> HIDE DEF behind
<1>8. stage = "received" /\ change = "none" =>
        /\ incoming.ok /\ incoming.type = m.type /\ incoming.fields = m.fields
        /\ incoming.payload = m.payload
  <2> SUFFICES ASSUME stage = "received", change = "none"
               PROVE  /\ got.ok /\ got.type = m.type /\ got.fields = m.fields
                      /\ got.payload = m.payload
    BY <1>4
  <2>1. Len(bytes) = size /\ Carries(m, end, bytes)
    BY <1>4
  <2>2. behind = m.payload
    <3>1. \A x \in 1..Len(m.payload) : bytes[h + x] = m.payload[x]
      <4>1. \A x \in 1..Len(m.payload) : h + x <= Len(bytes)
        <5> HIDE DEF h, m
        <5> QED BY <1>3, <1>7, <2>1
      <4> QED BY <2>1, <4>1 DEF Carries
    <3> HIDE DEF h, m
    <3>2. h <= Len(bytes) /\ Len(bytes) - h = Len(m.payload)
      BY <1>3, <1>7, <2>1
    <3>3. behind \in Seq(Octet) /\ Len(behind) = Len(m.payload)
          /\ \A x \in 1..Len(behind) : behind[x] = m.payload[x]
      BY <1>6, <3>1, <3>2
    <3> QED BY <1>3, <3>3, SameSequence
  <2> HIDE DEF h, m
  <2>3. h <= Len(bytes)
    BY <1>3, <1>7, <2>1
  <2> QED BY <1>3, <1>5, <2>2, <2>3
<1>9. stage = "received" /\ change # "none" /\ incoming.ok =>
        incoming.type = "command_request" /\ ~DecodeSetMode(incoming.payload).ok
  <2> SUFFICES ASSUME stage = "received", change \in {"cut", "longer"}, got.ok
               PROVE  got.type = "command_request" /\ ~DecodeSetMode(got.payload).ok
    BY <1>4
  <2>1. Len(bytes) # size
    <3> HIDE DEF h, m
    <3> QED BY <1>3, <1>4, <1>7
  <2> HIDE DEF h, m
  <2>2. h <= Len(bytes)
    BY <1>5
  <2>3. ~(behind # <<>> /\ m.type # "command_request")
    BY <1>5, <2>2
  <2>4. got.type = m.type /\ got.payload = behind
    BY <1>5, <2>2, <2>3
  <2>5. m.type = "command_request"
    <3>1. SUFFICES ASSUME m.type # "command_request" PROVE FALSE
      OBVIOUS
    <3>2. m.payload = <<>> /\ behind = <<>>
      BY <1>3, <2>3, <3>1
    <3>3. Len(m.payload) = 0 /\ h = Len(bytes)
      BY <1>6, <2>2, <3>2
    <3> QED BY <1>3, <1>7, <2>1, <3>3
  <2>6. Len(behind) # 1
    BY <1>3, <1>6, <1>7, <2>1, <2>2, <2>5
  <2> QED BY <2>4, <2>5, <2>6 DEF DecodeSetMode, Failed
<1>10. MessagesFaithful
  <2>1. stage = "refused" => WireSize(m) > tailroom
    <3> HIDE DEF h, m
    <3> QED BY <1>1, <1>2, <1>4, <1>7
  <2>2. stage = "sent" /\ change = "none" => Len(bytes) = WireSize(m) /\ Len(bytes) <= tailroom
    <3> HIDE DEF h, m
    <3> QED BY <1>2, <1>4
  <2> QED BY <1>8, <1>9, <2>1, <2>2 DEF MessagesFaithful, m
<1> QED BY <1>4, <1>10 DEF MessagesSound

\* A message is encoded exactly if there is room for all of it, and what is received is
\* the message that was sent, or is refused: for every size of a byte, every message, every
\* room and whatever is cut off or goes on behind.
THEOREM MessagesAlwaysSound == ASSUME CodecConstants PROVE CodecSpec => []MessagesSound
<1>1. CodecInit => CodecInv
  BY CodecStart
<1>2. CodecInv /\ [CodecNext]_codecVars => CodecInv'
  BY CodecStep
<1>3. CodecInv => MessagesSound
  BY CodecInvIsSound
<1> QED BY <1>1, <1>2, <1>3, PTL DEF CodecSpec
=============================================================================
