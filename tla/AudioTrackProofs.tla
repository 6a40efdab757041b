-------------------------- MODULE AudioTrackProofs --------------------------
(***************************************************************************)
(* Proofs about the ring that an AudioTrack client and AudioFlinger share, *)
(* for every size of the buffer, every width of the counters and every     *)
(* number of frames: neither side finds the control block corrupt, no      *)
(* frame is read while it is written, a stop mark holds and nothing that   *)
(* was flushed is played.                                                  *)
(***************************************************************************)
EXTENDS AudioTrack, TLAPS

(* A product of two numbers that are not negative is not negative. *)
LEMMA ProductNat ==
    ASSUME NEW a \in Nat, NEW b \in Nat
    PROVE  a * b \in Nat
OBVIOUS

(* Division with remainder. *)
LEMMA Division ==
    ASSUME NEW a \in Int, NEW m \in Nat, m > 0
    PROVE  /\ a % m \in 0 .. m - 1
           /\ a \div m \in Int
           /\ a = m * (a \div m) + (a % m)
<1>1. a % m \in 0 .. m - 1
  OBVIOUS
<1>2. a \div m \in Int
  OBVIOUS
<1>3. a = m * (a \div m) + (a % m)
  OBVIOUS
<1> QED
  BY <1>1, <1>2, <1>3, Zenon

(* The only multiple of m that is closer to zero than m is zero. *)
LEMMA SmallMultiple ==
    ASSUME NEW m \in Nat, m > 0, NEW k \in Int, -m < m * k, m * k < m
    PROVE  k = 0
<1>1. CASE k >= 1
  <2>1. m * (k - 1) \in Nat
    BY <1>1, ProductNat
  <2> QED
    BY <2>1
<1>2. CASE k <= -1
  <2>1. m * ((-k) - 1) \in Nat
    BY <1>2, ProductNat
  <2> QED
    BY <2>1
<1> QED
  BY <1>1, <1>2

(* The quotient and the remainder are determined by their bounds. *)
LEMMA Remainder ==
    ASSUME NEW a \in Int, NEW m \in Nat, m > 0,
           NEW q \in Int, NEW r \in 0 .. m - 1, a = m * q + r
    PROVE  a % m = r
<1>1. PICK p \in Int : a = m * p + (a % m)
  BY Division, Zenon
<1>2. PICK k \in Int : k = q - p
  OBVIOUS
<1>3. a % m \in 0 .. m - 1
  BY Division, Zenon
<1>4. m * k = (a % m) - r
  BY <1>1, <1>2, <1>3
<1>5. k = 0
  BY <1>3, <1>4, SmallMultiple
<1> QED
  BY <1>3, <1>4, <1>5

(* A remainder follows a change of the number that keeps it in its range. *)
LEMMA ModShift ==
    ASSUME NEW a \in Int, NEW m \in Nat, m > 0, NEW n \in Int,
           (a % m) + n \in 0 .. m - 1
    PROVE  (a + n) % m = (a % m) + n
<1>1. PICK q \in Int : a = m * q + (a % m)
  BY Division, Zenon
<1>2. PICK b \in Int : b = a + n
  OBVIOUS
<1>3. PICK r \in 0 .. m - 1 : r = (a % m) + n
  OBVIOUS
<1>4. b = m * q + r
  BY <1>1, <1>2, <1>3, Division
<1>5. b % m = r
  BY <1>4, Remainder, Zenon
<1> QED
  BY <1>2, <1>3, <1>5, Zenon

(* A remainder does not see a multiple of its modulus. *)
LEMMA ModPeriod ==
    ASSUME NEW a \in Int, NEW m \in Nat, m > 0, NEW w \in Int, w % m = 0
    PROVE  (a + w) % m = a % m
<1>1. PICK q \in Int : a = m * q + (a % m)
  BY Division, Zenon
<1>2. PICK p \in Int : w = m * p
  BY Division
<1>3. PICK k \in Int : k = q + p
  OBVIOUS
<1>4. PICK b \in Int : b = a + w
  OBVIOUS
<1>5. a % m \in 0 .. m - 1
  BY Division, Zenon
<1>6. b = m * k + (a % m)
  BY <1>1, <1>2, <1>3, <1>4, <1>5
<1>7. b % m = a % m
  BY <1>5, <1>6, Remainder, Zenon
<1> QED
  BY <1>4, <1>7, Zenon

(* The modulus itself, and zero, have no remainder. *)
LEMMA ModSelf ==
    ASSUME NEW m \in Nat, m > 0
    PROVE  m % m = 0 /\ 0 % m = 0
<1>1. m = m * 1 + 0 /\ 0 = m * 0 + 0 /\ 0 \in 0 .. m - 1
  OBVIOUS
<1>2. m % m = 0
  BY <1>1, Remainder
<1>3. 0 % m = 0
  BY <1>1, Remainder
<1> QED
  BY <1>2, <1>3, Zenon

-----------------------------------------------------------------------------
(* mFrameCountP2 is less than a quarter of the counters' range: the        *)
(* difference of a position and a mark one round away still has its sign.  *)
WideCounters == 4 * FrameCountP2 < Width

(* The rounds of the ring and of the marks fill the counters' range. *)
LEMMA RingFacts ==
    ASSUME WideCounters
    PROVE  /\ FrameCount \in Nat /\ FrameCount > 0
           /\ FrameCountP2 \in Nat /\ FrameCount <= FrameCountP2
           /\ overflowBit \in Nat /\ overflowBit = 2 * FrameCountP2
           /\ Width \in Nat /\ Width >= 4 * overflowBit
           /\ Width % overflowBit = 0 /\ Width % FrameCountP2 = 0
           /\ Width \div 2 \in Nat /\ Width = 2 * (Width \div 2)
<1>1. /\ FrameCount \in Nat /\ FrameCount > 0
      /\ FrameCountP2 \in Nat /\ FrameCount <= FrameCountP2
      /\ Width \in Nat /\ Width > 0 /\ Width % (4 * FrameCountP2) = 0
  BY RingAssumption
<1>2. overflowBit \in Nat /\ overflowBit = 2 * FrameCountP2
  BY <1>1 DEF overflowBit
<1>3. PICK r \in Nat : r = 4 * FrameCountP2
  BY <1>1
<1>4. PICK m \in Int : Width = r * m
  <2>1. r > 0 /\ Width % r = 0
    BY <1>1, <1>3
  <2>2. Width \div r \in Int /\ Width = r * (Width \div r) + (Width % r)
    BY <1>1, <2>1, Division
  <2>3. PICK m \in Int : m = Width \div r
    BY <2>2, Zenon
  <2>4. Width = r * m + 0
    BY <2>1, <2>2, <2>3, Zenon
  <2> QED
    BY <2>4
<1>5. m >= 2
  <2>1. SUFFICES ASSUME m <= 1 PROVE FALSE
    OBVIOUS
  <2>2. r * (1 - m) \in Nat
    BY <2>1, ProductNat
  <2>3. Width > r
    BY <1>3, Zenon DEF WideCounters
  <2> QED
    BY <1>3, <1>4, <2>2, <2>3
<1>6. Width >= 2 * r
  <2>1. r * (m - 2) \in Nat
    BY <1>5, ProductNat
  <2> QED
    BY <1>3, <1>4, <2>1
<1>7. PICK p \in Int : p = FrameCountP2 * m
  BY <1>1
<1>8. Width = 4 * p
  BY <1>1, <1>3, <1>4, <1>7
<1>9. Width % FrameCountP2 = 0
  <2>1. PICK k \in Int : k = 4 * m
    OBVIOUS
  <2>2. Width = FrameCountP2 * k + 0
    BY <1>1, <1>7, <1>8, <2>1
  <2> QED
    BY <1>1, <2>2, Remainder
<1>10. Width % overflowBit = 0
  <2>1. PICK k \in Int : k = 2 * m
    OBVIOUS
  <2>2. Width = overflowBit * k + 0
    BY <1>1, <1>2, <1>7, <1>8, <2>1
  <2>3. overflowBit \in Nat /\ overflowBit > 0 /\ 0 \in 0 .. overflowBit - 1
    BY <1>1, <1>2
  <2>4. Width \in Int
    BY <1>1
  <2> QED
    BY <2>2, <2>3, <2>4, Remainder, Zenon
<1>11. Width \div 2 \in Nat /\ Width = 2 * (Width \div 2)
  BY <1>1, <1>7, <1>8
<1> QED
  BY <1>1, <1>2, <1>3, <1>6, <1>9, <1>10, <1>11

(* Add is the sum, a round of the counters away at most. *)
LEMMA AddIs ==
    ASSUME WideCounters, NEW a \in Counters, NEW n \in -Width .. Width - 1
    PROVE  /\ Add(a, n) \in Counters
           /\ Add(a, n) \in {a + n, a + n - Width, a + n + Width}
<1>1. Width \in Nat /\ Width > 0
  BY RingFacts
<1>2. a \in Int /\ 0 <= a /\ a < Width
  BY <1>1 DEF Counters
<1>3. PICK b \in Int : b = a + n
  BY <1>1, <1>2
<1>4. CASE b \in 0 .. Width - 1
  <2>1. b % Width = b
    BY <1>1, <1>4
  <2> QED
    BY <1>1, <1>3, <1>4, <2>1, Zenon DEF Add, Counters
<1>5. CASE b >= Width
  <2>1. b = Width * 1 + (b - Width) /\ b - Width \in 0 .. Width - 1
    BY <1>1, <1>2, <1>3, <1>5
  <2>2. b % Width = b - Width
    BY <1>1, <2>1, Remainder
  <2> QED
    BY <1>1, <1>3, <2>1, <2>2 DEF Add, Counters
<1>6. CASE b < 0
  <2>1. b = Width * (-1) + (b + Width) /\ b + Width \in 0 .. Width - 1
    BY <1>1, <1>2, <1>3, <1>6
  <2>2. b % Width = b + Width
    BY <1>1, <2>1, Remainder
  <2> QED
    BY <1>1, <1>3, <2>1, <2>2, Zenon DEF Add, Counters
<1> QED
  BY <1>1, <1>3, <1>4, <1>5, <1>6

(* safe_sub is the difference, a round of the counters away at most, in the *)
(* range of an int32_t.                                                     *)
LEMMA SubIs ==
    ASSUME WideCounters, NEW a \in Counters, NEW b \in Counters
    PROVE  /\ safe_sub(a, b) \in {a - b, a - b - Width, a - b + Width}
           /\ safe_sub(a, b) \in Int
           /\ -Width <= 2 * safe_sub(a, b) /\ 2 * safe_sub(a, b) < Width
<1>1. /\ Width \in Nat /\ Width > 0
      /\ Width \div 2 \in Nat /\ Width = 2 * (Width \div 2)
  BY RingFacts
<1>2. /\ a \in Int /\ 0 <= a /\ a < Width
      /\ b \in Int /\ 0 <= b /\ b < Width
  BY <1>1 DEF Counters
<1>3. PICK e \in Int : e = a - b
  BY <1>2
<1>4. PICK d \in 0 .. Width - 1 : d = e % Width
  BY <1>1
<1>5. d = e \/ d = e + Width
  <2>1. CASE e >= 0
    BY <1>1, <1>2, <1>3, <1>4, <2>1
  <2>2. CASE e < 0
    <3>1. e = Width * (-1) + (e + Width) /\ e + Width \in 0 .. Width - 1
      BY <1>1, <1>2, <1>3, <2>2
    <3> QED
      BY <1>1, <1>4, <3>1, Remainder
  <2> QED
    BY <2>1, <2>2
<1>6. safe_sub(a, b) = IF d >= Width \div 2 THEN d - Width ELSE d
  BY <1>3, <1>4, Zenon DEF safe_sub
<1> QED
  BY <1>1, <1>2, <1>3, <1>4, <1>5, <1>6

-----------------------------------------------------------------------------
(* How far a mark is ahead of the position front, in the low bits. *)
Ahead(front, mark) == (Masked(mark) - Masked(front)) % overflowBit

(* The two parts of a counter. *)
LEMMA Parts ==
    ASSUME WideCounters, NEW a \in Counters
    PROVE  /\ Masked(a) \in 0 .. overflowBit - 1
           /\ High(a) \in Nat /\ High(a) + overflowBit <= Width
           /\ a = High(a) + Masked(a)
           /\ High(a) % overflowBit = 0
<1>1. /\ overflowBit \in Nat /\ overflowBit > 0
      /\ Width \in Nat /\ Width % overflowBit = 0
  BY RingFacts
<1>2. a \in Int /\ 0 <= a /\ a < Width
  BY <1>1 DEF Counters
<1>3. a % overflowBit \in 0 .. overflowBit - 1
  BY <1>1, <1>2, Division, Zenon
<1>4. PICK q \in Int : a = overflowBit * q + (a % overflowBit)
  BY <1>1, <1>2, Division, Zenon
<1>5. PICK m \in Int : Width = overflowBit * m
  <2>1. /\ Width \div overflowBit \in Int
        /\ Width = overflowBit * (Width \div overflowBit) + (Width % overflowBit)
    BY <1>1, Division
  <2>2. PICK m \in Int : m = Width \div overflowBit
    BY <2>1, Zenon
  <2>3. Width = overflowBit * m
    BY <1>1, <2>1, <2>2
  <2> QED
    BY <2>3, Zenon
<1>6. High(a) = overflowBit * q /\ Masked(a) = a % overflowBit
  BY <1>1, <1>2, <1>3, <1>4 DEF High, Masked
<1>7. q >= 0
  <2>1. SUFFICES ASSUME q <= -1 PROVE FALSE
    OBVIOUS
  <2>2. overflowBit * ((-q) - 1) \in Nat
    BY <1>1, <2>1, ProductNat
  <2> QED
    BY <1>1, <1>2, <1>3, <1>4, <2>2
<1>8. q <= m - 1
  <2>1. SUFFICES ASSUME q >= m PROVE FALSE
    OBVIOUS
  <2>2. overflowBit * (q - m) \in Nat
    BY <1>1, <2>1, ProductNat
  <2>3. overflowBit * q >= overflowBit * m
    BY <1>1, <2>2
  <2>4. overflowBit * q <= a
    BY <1>1, <1>2, <1>3, <1>4
  <2> QED
    BY <1>1, <1>2, <1>5, <2>3, <2>4
<1>9. overflowBit * (m - 1 - q) \in Nat /\ overflowBit * q \in Nat
  BY <1>1, <1>7, <1>8, ProductNat
<1>10. High(a) \in Nat /\ High(a) + overflowBit <= Width
  BY <1>1, <1>5, <1>6, <1>9
<1>11. High(a) % overflowBit = 0
  <2>1. High(a) = overflowBit * q + 0 /\ High(a) \in Int
    BY <1>1, <1>6, <1>10
  <2>2. 0 \in 0 .. overflowBit - 1
    BY <1>1
  <2> QED
    BY <1>1, <2>1, <2>2, Remainder
<1> QED
  BY <1>1, <1>2, <1>3, <1>4, <1>6, <1>10, <1>11, Zenon

(* What Ahead is, without a remainder. *)
LEMMA AheadIs ==
    ASSUME WideCounters, NEW f \in Counters, NEW x \in Counters
    PROVE  /\ Ahead(f, x) \in 0 .. overflowBit - 1
           /\ \/ Ahead(f, x) = Masked(x) - Masked(f)
              \/ Ahead(f, x) = Masked(x) - Masked(f) + overflowBit
<1>1. overflowBit \in Nat /\ overflowBit > 0
  BY RingFacts
<1>2. Masked(x) \in 0 .. overflowBit - 1 /\ Masked(f) \in 0 .. overflowBit - 1
  BY Parts, Zenon
<1>3. PICK e \in Int : e = Masked(x) - Masked(f)
  BY <1>1, <1>2
<1>4. Ahead(f, x) = e % overflowBit
  BY <1>3, Zenon DEF Ahead
<1>5. CASE e >= 0
  <2>1. e = overflowBit * 0 + e /\ e \in 0 .. overflowBit - 1
    BY <1>1, <1>2, <1>3, <1>5
  <2>2. e % overflowBit = e
    BY <1>1, <2>1, Remainder
  <2> QED
    BY <1>3, <1>4, <2>1, <2>2, Zenon
<1>6. CASE e < 0
  <2>1. /\ e = overflowBit * (-1) + (e + overflowBit)
        /\ e + overflowBit \in 0 .. overflowBit - 1
    BY <1>1, <1>2, <1>3, <1>6
  <2>2. e % overflowBit = e + overflowBit
    BY <1>1, <2>1, Remainder
  <2> QED
    BY <1>3, <1>4, <2>1, <2>2, Zenon
<1> QED
  BY <1>5, <1>6

(* Ahead is the difference of the whole counters as well. *)
LEMMA AheadOfWhole ==
    ASSUME WideCounters, NEW f \in Counters, NEW x \in Counters
    PROVE  Ahead(f, x) = (x - f) % overflowBit
<1>1. overflowBit \in Nat /\ overflowBit > 0 /\ Width \in Nat
  BY RingFacts
<1>2. /\ Masked(x) \in Int /\ High(x) \in Int /\ x = High(x) + Masked(x)
      /\ Masked(f) \in Int /\ High(f) \in Int /\ f = High(f) + Masked(f)
      /\ High(x) % overflowBit = 0 /\ High(f) % overflowBit = 0
  BY <1>1, Parts
<1>3. PICK e \in Int : e = Masked(x) - Masked(f)
  BY <1>2
<1>4. (e + High(x)) % overflowBit = e % overflowBit
  BY <1>1, <1>2, ModPeriod, Zenon
<1>5. PICK b \in Int : b = x - f
  BY <1>2
<1>6. (b + High(f)) % overflowBit = b % overflowBit
  BY <1>1, <1>2, ModPeriod, Zenon
<1>7. b + High(f) = e + High(x)
  BY <1>2, <1>3, <1>5
<1> QED
  BY <1>3, <1>4, <1>5, <1>6, <1>7, Zenon DEF Ahead

-----------------------------------------------------------------------------
(* What mFront += n does to what is filled, and to what is ahead. *)
LEMMA FrontMoves ==
    ASSUME WideCounters, NEW f \in Counters, NEW r \in Counters,
           FilledInRange(safe_sub(r, f)),
           NEW n \in Nat, n <= safe_sub(r, f)
    PROVE  /\ Add(f, n) \in Counters
           /\ safe_sub(r, Add(f, n)) = safe_sub(r, f) - n
           /\ safe_sub(Add(f, n), f) = n
           /\ \A x \in Counters : n <= Ahead(f, x) =>
                 Ahead(Add(f, n), x) = Ahead(f, x) - n
<1>1. /\ overflowBit \in Nat /\ overflowBit > 0
      /\ Width \in Nat /\ Width >= 4 * overflowBit
      /\ FrameCount \in Nat /\ 2 * FrameCount <= overflowBit
      /\ Width % overflowBit = 0
  BY RingFacts
<1>2. PICK d \in Nat : d = safe_sub(r, f) /\ d <= FrameCount /\ n <= d
  BY <1>1, SubIs DEF FilledInRange
<1>3. PICK g : g = Add(f, n)
  OBVIOUS
<1>4. g \in Counters /\ g \in {f + n, f + n - Width, f + n + Width}
  <2>1. n \in -Width .. Width - 1
    BY <1>1, <1>2
  <2> QED
    BY <1>3, <2>1, AddIs, Zenon
<1>5. /\ f \in Int /\ 0 <= f /\ f < Width /\ r \in Int /\ 0 <= r /\ r < Width
      /\ g \in Int /\ 0 <= g /\ g < Width
  BY <1>1, <1>4 DEF Counters
<1>6. d \in {r - f, r - f - Width, r - f + Width}
  BY <1>2, SubIs, Zenon
<1>7. safe_sub(r, g) = d - n
  <2>1. /\ safe_sub(r, g) \in {r - g, r - g - Width, r - g + Width}
        /\ safe_sub(r, g) \in Int
        /\ -Width <= 2 * safe_sub(r, g) /\ 2 * safe_sub(r, g) < Width
    BY <1>4, SubIs, Zenon
  <2>2. PICK e \in Int : e = safe_sub(r, g)
    BY <2>1, Zenon
  <2>3. /\ e = d - n \/ e = d - n - Width \/ e = d - n + Width
           \/ e >= d - n + 2 * Width \/ e <= d - n - 2 * Width
    BY <1>1, <1>2, <1>4, <1>5, <1>6, <2>1, <2>2
  <2> QED
    BY <1>1, <1>2, <2>1, <2>2, <2>3
<1>8. safe_sub(g, f) = n
  <2>1. /\ safe_sub(g, f) \in {g - f, g - f - Width, g - f + Width}
        /\ safe_sub(g, f) \in Int
        /\ -Width <= 2 * safe_sub(g, f) /\ 2 * safe_sub(g, f) < Width
    BY <1>4, SubIs, Zenon
  <2> QED
    BY <1>1, <1>2, <1>4, <1>5, <2>1
<1>9. ASSUME NEW x \in Counters, n <= Ahead(f, x)
      PROVE  Ahead(g, x) = Ahead(f, x) - n
  <2>1. x \in Int
    BY <1>1 DEF Counters
  <2>2. PICK a \in Int : a = x - f
    BY <1>5, <2>1
  <2>3. Ahead(f, x) = a % overflowBit /\ Ahead(f, x) \in 0 .. overflowBit - 1
    BY <2>2, AheadOfWhole, AheadIs, Zenon
  <2>4. (a % overflowBit) + (-n) \in 0 .. overflowBit - 1
    BY <1>1, <1>9, <2>3
  <2>5. (a + (-n)) % overflowBit = (a % overflowBit) + (-n)
    BY <1>1, <2>4, ModShift
  <2>6. PICK b \in Int : b = x - g
    BY <1>5, <2>1
  <2>7. PICK c \in Int : c = a + (-n)
    OBVIOUS
  <2>8. b = c \/ b = c + Width \/ c = b + Width
    BY <1>1, <1>4, <1>5, <2>1, <2>2, <2>6, <2>7
  <2>9. b % overflowBit = c % overflowBit
    BY <1>1, <2>8, ModPeriod
  <2>10. Ahead(g, x) = b % overflowBit
    BY <1>4, <2>6, AheadOfWhole, Zenon
  <2> QED
    BY <1>1, <2>3, <2>5, <2>7, <2>9, <2>10, Zenon
<1> QED
  BY <1>2, <1>3, <1>4, <1>7, <1>8, <1>9, Zenon

(* What mRear += k does to what is filled. *)
LEMMA RearMoves ==
    ASSUME WideCounters, NEW f \in Counters, NEW r \in Counters,
           FilledInRange(safe_sub(r, f)),
           NEW k \in Nat, safe_sub(r, f) + k <= FrameCount
    PROVE  /\ Add(r, k) \in Counters
           /\ safe_sub(Add(r, k), f) = safe_sub(r, f) + k
<1>1. /\ overflowBit \in Nat /\ overflowBit > 0
      /\ Width \in Nat /\ Width >= 4 * overflowBit
      /\ FrameCount \in Nat /\ 2 * FrameCount <= overflowBit
  BY RingFacts
<1>2. PICK d \in Nat : d = safe_sub(r, f) /\ d + k <= FrameCount
  BY <1>1, SubIs DEF FilledInRange
<1>3. PICK g : g = Add(r, k)
  OBVIOUS
<1>4. g \in Counters /\ g \in {r + k, r + k - Width, r + k + Width}
  <2>1. k \in -Width .. Width - 1
    BY <1>1, <1>2
  <2> QED
    BY <1>3, <2>1, AddIs, Zenon
<1>5. /\ f \in Int /\ 0 <= f /\ f < Width /\ r \in Int /\ 0 <= r /\ r < Width
      /\ g \in Int /\ 0 <= g /\ g < Width
  BY <1>1, <1>4 DEF Counters
<1>6. d \in {r - f, r - f - Width, r - f + Width}
  BY <1>2, SubIs, Zenon
<1>7. safe_sub(g, f) = d + k
  <2>1. /\ safe_sub(g, f) \in {g - f, g - f - Width, g - f + Width}
        /\ safe_sub(g, f) \in Int
        /\ -Width <= 2 * safe_sub(g, f) /\ 2 * safe_sub(g, f) < Width
    BY <1>4, SubIs, Zenon
  <2> QED
    BY <1>1, <1>2, <1>4, <1>5, <1>6, <2>1
<1> QED
  BY <1>2, <1>3, <1>4, <1>7, Zenon

(* What is filled is how far mRear is ahead of mFront. *)
LEMMA AheadOfRear ==
    ASSUME WideCounters, NEW f \in Counters, NEW r \in Counters,
           FilledInRange(safe_sub(r, f))
    PROVE  Ahead(f, r) = safe_sub(r, f)
<1>1. /\ overflowBit \in Nat /\ overflowBit > 0
      /\ Width \in Nat /\ Width % overflowBit = 0
      /\ FrameCount \in Nat /\ 2 * FrameCount <= overflowBit
  BY RingFacts
<1>2. PICK d \in Nat : d = safe_sub(r, f) /\ d <= FrameCount
  BY <1>1, SubIs DEF FilledInRange
<1>3. d \in {r - f, r - f - Width, r - f + Width}
  BY <1>2, SubIs, Zenon
<1>4. PICK b \in Int : b = r - f
  BY <1>1 DEF Counters
<1>5. d = b \/ b = d + Width \/ d = b + Width
  BY <1>1, <1>3, <1>4
<1>6. b % overflowBit = d % overflowBit
  BY <1>1, <1>5, ModPeriod
<1>7. d = overflowBit * 0 + d /\ d \in 0 .. overflowBit - 1
  BY <1>1, <1>2
<1>8. d % overflowBit = d
  BY <1>1, <1>7, Remainder
<1> QED
  BY <1>2, <1>4, <1>6, <1>8, AheadOfWhole, Zenon

(* sendStreamingFlushStop: the new mark is at mRear, and is a new one as   *)
(* long as its counter does not wrap.                                      *)
LEMMA NextMarkIs ==
    ASSUME WideCounters, NEW m \in Counters, NEW r \in Counters
    PROVE  /\ NextMark(m, r) \in Counters
           /\ Masked(NextMark(m, r)) = Masked(r)
           /\ High(m) + 2 * overflowBit <= Width =>
                 High(NextMark(m, r)) = High(m) + overflowBit
<1>1. /\ overflowBit \in Nat /\ overflowBit > 0
      /\ Width \in Nat /\ Width >= 4 * overflowBit
  BY RingFacts
<1>2. /\ High(m) \in Nat /\ High(m) + overflowBit <= Width
      /\ High(m) % overflowBit = 0 /\ Masked(r) \in 0 .. overflowBit - 1
  BY Parts, Zenon
<1>3. PICK p \in Nat : p = High(m)
  BY <1>2, Zenon
<1>4. PICK h \in Int : h = Add(p, overflowBit) /\ h \in Counters
  <2>1. p \in Counters /\ overflowBit \in -Width .. Width - 1
    BY <1>1, <1>2, <1>3 DEF Counters
  <2>2. Add(p, overflowBit) \in Counters
    BY <2>1, AddIs, Zenon
  <2> QED
    BY <1>1, <2>2 DEF Counters
<1>5. \/ h = p + overflowBit /\ h + overflowBit <= Width
      \/ h = 0 /\ p + overflowBit = Width
  <2>1. p \in Counters /\ overflowBit \in -Width .. Width - 1
    BY <1>1, <1>2, <1>3 DEF Counters
  <2>2. h \in {p + overflowBit, p + overflowBit - Width,
               p + overflowBit + Width}
    BY <1>4, <2>1, AddIs, Zenon
  <2>3. h = p + overflowBit \/ (h = 0 /\ p + overflowBit = Width)
    BY <1>1, <1>2, <1>3, <1>4, <2>2 DEF Counters
  <2>4. High(h) + overflowBit <= Width /\ High(h) \in Nat
    BY <1>4, Parts, Zenon
  <2>5. h = p + overflowBit => High(h) = h
    <3>1. SUFFICES ASSUME h = p + overflowBit PROVE High(h) = h
      OBVIOUS
    <3>2. overflowBit % overflowBit = 0
      BY <1>1, ModSelf, Zenon
    <3>3. (p + overflowBit) % overflowBit = p % overflowBit
      BY <1>1, <3>2, ModPeriod
    <3> QED
      BY <1>2, <1>3, <1>4, <3>1, <3>3 DEF High, Masked
  <2> QED
    BY <2>3, <2>4, <2>5, Zenon
<1>6. h % overflowBit = 0
  <2>1. overflowBit % overflowBit = 0
    BY <1>1, ModSelf, Zenon
  <2>2. 0 % overflowBit = 0
    BY <1>1, ModSelf, Zenon
  <2>3. (p + overflowBit) % overflowBit = p % overflowBit
    BY <1>1, <2>1, ModPeriod
  <2> QED
    BY <1>2, <1>3, <1>5, <2>2, <2>3, Zenon
<1>7. PICK y \in Int : y = Masked(r)
  BY <1>1, <1>2
<1>8. PICK x \in Int : x = h + y
  OBVIOUS
<1>9. NextMark(m, r) = x
  BY <1>3, <1>4, <1>7, <1>8, Zenon DEF NextMark
<1>10. x \in Counters
  BY <1>1, <1>2, <1>3, <1>5, <1>7, <1>8 DEF Counters
<1>11. y % overflowBit = y
  <2>1. y = overflowBit * 0 + y /\ y \in 0 .. overflowBit - 1
    BY <1>1, <1>2, <1>7
  <2> QED
    BY <1>1, <2>1, Remainder
<1>12. (y + h) % overflowBit = y % overflowBit
  BY <1>1, <1>6, ModPeriod, Zenon
<1>13. Masked(x) = y
  <2>1. x = y + h
    BY <1>8
  <2> QED
    BY <1>11, <1>12, <2>1, Zenon DEF Masked
<1>14. High(x) = h
  BY <1>8, <1>13 DEF High
<1> QED
  BY <1>1, <1>3, <1>5, <1>7, <1>9, <1>10, <1>13, <1>14

(* flushBufferIfNeeded moves mFront to the flush mark. *)
LEMMA FlushFrontIs ==
    ASSUME WideCounters, NEW f \in Counters, NEW r \in Counters,
           FilledInRange(safe_sub(r, f)),
           NEW x \in Counters, Ahead(f, x) <= safe_sub(r, f)
    PROVE  FlushFront(f, r, x) = Add(f, Ahead(f, x))
<1>1. /\ overflowBit \in Nat /\ overflowBit > 0
      /\ Width \in Nat /\ Width >= 4 * overflowBit
      /\ FrameCount \in Nat /\ 2 * FrameCount <= overflowBit
  BY RingFacts
<1>2. PICK d \in Nat : d = safe_sub(r, f) /\ d <= FrameCount
  BY <1>1, SubIs DEF FilledInRange
<1>3. PICK a \in Nat : a = Ahead(f, x) /\ a <= d
  BY <1>1, <1>2, AheadIs
<1>4. /\ Masked(x) \in 0 .. overflowBit - 1 /\ Masked(f) \in 0 .. overflowBit - 1
      /\ High(f) \in Nat /\ High(f) + overflowBit <= Width
      /\ f = High(f) + Masked(f)
  BY Parts, Zenon
<1>5. a = Masked(x) - Masked(f) \/ a = Masked(x) - Masked(f) + overflowBit
  BY <1>3, AheadIs, Zenon
<1>6. PICK b \in Int : b = High(f) + Masked(x)
  BY <1>1, <1>4
<1>7. b \in Counters
  BY <1>1, <1>4, <1>6 DEF Counters
<1>8. d \in {r - f, r - f - Width, r - f + Width}
  BY <1>2, SubIs, Zenon
<1>9. /\ r \in Int /\ 0 <= r /\ r < Width
      /\ b \in Int /\ 0 <= b /\ b < Width
      /\ f \in Int /\ 0 <= f /\ f < Width
  BY <1>1, <1>7 DEF Counters
<1>10. b = f + a \/ b = f + a - overflowBit
  BY <1>1, <1>3, <1>4, <1>5, <1>6
<1>11. PICK s \in Int : s = safe_sub(r, b)
  BY <1>7, SubIs, Zenon
<1>12. /\ s \in {r - b, r - b - Width, r - b + Width}
       /\ -Width <= 2 * s /\ 2 * s < Width
  BY <1>7, <1>11, SubIs, Zenon
<1>13. PICK g : g = Add(f, a)
  OBVIOUS
<1>14. g \in Counters /\ g \in {f + a, f + a - Width, f + a + Width}
  <2>1. a \in -Width .. Width - 1
    BY <1>1, <1>2, <1>3
  <2> QED
    BY <1>13, <2>1, AddIs, Zenon
<1>15. g \in Int /\ 0 <= g /\ g < Width
  BY <1>1, <1>14 DEF Counters
<1>16. CASE b = f + a
  <2>1. s = d - a
    <3>1. s = d - a \/ s >= d - a + Width \/ s <= d - a - Width
      BY <1>1, <1>8, <1>9, <1>12, <1>16
    <3> QED
      BY <1>1, <1>2, <1>3, <1>12, <3>1
  <2>2. ~(s >= overflowBit) /\ FilledInRange(s - 0)
    BY <1>1, <1>2, <1>3, <2>1 DEF FilledInRange
  <2>3. FlushFront(f, r, x) = b
    BY <1>6, <1>11, <2>2, Zenon DEF FlushFront
  <2>4. g = b
    BY <1>1, <1>9, <1>14, <1>15, <1>16
  <2> QED
    BY <1>3, <1>13, <2>3, <2>4, Zenon
<1>17. CASE b = f + a - overflowBit
  <2>1. s = d - a + overflowBit
    <3>1. \/ s = d - a + overflowBit
          \/ s >= d - a + overflowBit + Width
          \/ s <= d - a + overflowBit - Width
      BY <1>1, <1>8, <1>9, <1>12, <1>17
    <3> QED
      BY <1>1, <1>2, <1>3, <1>12, <3>1
  <2>2. s >= overflowBit /\ FilledInRange(s - overflowBit)
    BY <1>1, <1>2, <1>3, <2>1 DEF FilledInRange
  <2>3. FlushFront(f, r, x) = Add(b, overflowBit)
    BY <1>6, <1>11, <2>2, Zenon DEF FlushFront
  <2>4. PICK c : c = Add(b, overflowBit)
    OBVIOUS
  <2>5. /\ c \in Counters
        /\ c \in {b + overflowBit, b + overflowBit - Width,
                  b + overflowBit + Width}
    <3>1. overflowBit \in -Width .. Width - 1
      BY <1>1
    <3> QED
      BY <1>7, <2>4, <3>1, AddIs, Zenon
  <2>6. c \in Int /\ 0 <= c /\ c < Width
    BY <1>1, <2>5 DEF Counters
  <2>7. g = c
    BY <1>1, <1>9, <1>14, <1>15, <1>17, <2>5, <2>6
  <2> QED
    BY <1>3, <1>13, <2>3, <2>4, <2>7, Zenon
<1> QED
  BY <1>10, <1>16, <1>17, Zenon

(* getRear: the server may read up to the stop mark, without one to mRear. *)
LEMMA GetRearIs ==
    ASSUME WideCounters, NEW f \in Counters, NEW r \in Counters,
           FilledInRange(safe_sub(r, f)),
           NEW x \in Counters, NEW last \in Counters,
           x # last => Ahead(f, x) <= safe_sub(r, f)
    PROVE  safe_sub(GetRear(f, r, x, last), f)
             = IF x # last THEN Ahead(f, x) ELSE safe_sub(r, f)
<1>1. CASE x = last
  BY <1>1, Zenon DEF GetRear
<1>2. CASE x # last
  <2>1. /\ overflowBit \in Nat /\ overflowBit > 0
        /\ Width \in Nat /\ Width >= 4 * overflowBit
        /\ FrameCount \in Nat /\ 2 * FrameCount <= overflowBit
    BY RingFacts
  <2>2. PICK d \in Nat : d = safe_sub(r, f) /\ d <= FrameCount
    BY <2>1, SubIs DEF FilledInRange
  <2>3. PICK a \in Nat : a = Ahead(f, x) /\ a <= d
    BY <1>2, <2>1, <2>2, AheadIs
  <2>4. /\ Masked(x) \in 0 .. overflowBit - 1
        /\ Masked(f) \in 0 .. overflowBit - 1
        /\ Masked(r) \in 0 .. overflowBit - 1
        /\ High(r) \in Nat /\ High(r) + overflowBit <= Width
        /\ r = High(r) + Masked(r)
    BY Parts, Zenon
  <2>5. a = Masked(x) - Masked(f) \/ a = Masked(x) - Masked(f) + overflowBit
    BY <2>3, AheadIs, Zenon
  <2>6. d = Masked(r) - Masked(f) \/ d = Masked(r) - Masked(f) + overflowBit
    BY <2>2, AheadOfRear, AheadIs, Zenon
  <2>7. PICK b \in Int : b = High(r) + Masked(x)
    BY <2>1, <2>4
  <2>8. b \in Counters
    BY <2>1, <2>4, <2>7 DEF Counters
  <2>9. d \in {r - f, r - f - Width, r - f + Width}
    BY <2>2, SubIs, Zenon
  <2>10. /\ r \in Int /\ 0 <= r /\ r < Width
         /\ b \in Int /\ 0 <= b /\ b < Width
         /\ f \in Int /\ 0 <= f /\ f < Width
    BY <2>1, <2>8 DEF Counters
  <2>11. b - r = a - d \/ b - r = a - d + overflowBit
    BY <2>1, <2>2, <2>3, <2>4, <2>5, <2>6, <2>7
  <2>12. PICK s \in Int : s = safe_sub(b, f)
    BY <2>8, SubIs, Zenon
  <2>13. /\ s \in {b - f, b - f - Width, b - f + Width}
         /\ -Width <= 2 * s /\ 2 * s < Width
    BY <2>8, <2>12, SubIs, Zenon
  <2>14. CASE b - r = a - d
    <3>1. s = a
      <4>1. s = a \/ s >= a + Width \/ s <= a - Width
        BY <2>1, <2>9, <2>10, <2>13, <2>14
      <4> QED
        BY <2>1, <2>2, <2>3, <2>13, <4>1
    <3>2. ~(s >= overflowBit) /\ FilledInRange(s - 0)
      BY <2>1, <2>2, <2>3, <3>1 DEF FilledInRange
    <3>3. GetRear(f, r, x, last) = b
      BY <1>2, <2>7, <2>12, <3>2, Zenon DEF GetRear
    <3> QED
      BY <1>2, <2>3, <2>12, <3>1, <3>3, Zenon
  <2>15. CASE b - r = a - d + overflowBit
    <3>1. s = a + overflowBit
      <4>1. \/ s = a + overflowBit
            \/ s >= a + overflowBit + Width
            \/ s <= a + overflowBit - Width
        BY <2>1, <2>9, <2>10, <2>13, <2>15
      <4> QED
        BY <2>1, <2>2, <2>3, <2>13, <4>1
    <3>2. s >= overflowBit /\ FilledInRange(s - overflowBit)
      BY <2>1, <2>2, <2>3, <3>1 DEF FilledInRange
    <3>3. GetRear(f, r, x, last) = Add(b, -overflowBit)
      BY <1>2, <2>7, <2>12, <3>2, Zenon DEF GetRear
    <3>4. PICK c : c = Add(b, -overflowBit)
      OBVIOUS
    <3>5. /\ c \in Counters
          /\ c \in {b + (-overflowBit), b + (-overflowBit) - Width,
                    b + (-overflowBit) + Width}
      <4>1. -overflowBit \in -Width .. Width - 1
        BY <2>1
      <4> QED
        BY <2>8, <3>4, <4>1, AddIs, Zenon
    <3>6. c \in Int /\ 0 <= c /\ c < Width
      BY <2>1, <3>5 DEF Counters
    <3>7. PICK e \in Int : e = safe_sub(c, f)
      BY <3>5, SubIs, Zenon
    <3>8. /\ e \in {c - f, c - f - Width, c - f + Width}
          /\ -Width <= 2 * e /\ 2 * e < Width
      BY <3>5, <3>7, SubIs, Zenon
    <3>9. e = a \/ e >= a + Width \/ e <= a - Width
      BY <2>1, <2>9, <2>10, <2>15, <3>5, <3>6, <3>8
    <3>10. e = a
      BY <2>1, <2>2, <2>3, <3>8, <3>9
    <3> QED
      BY <1>2, <2>3, <3>3, <3>4, <3>7, <3>10, Zenon
  <2> QED
    BY <2>11, <2>14, <2>15, Zenon
<1> QED
  BY <1>1, <1>2, Zenon

(* getRear returns a position. *)
LEMMA GetRearType ==
    ASSUME WideCounters, NEW f \in Counters, NEW r \in Counters,
           NEW x \in Counters, NEW last \in Counters
    PROVE  GetRear(f, r, x, last) \in Counters
<1>1. /\ overflowBit \in Nat /\ Width \in Nat /\ Width >= 4 * overflowBit
      /\ overflowBit > 0
  BY RingFacts
<1>2. PICK b \in Counters : b = High(r) + Masked(x)
  <2>1. /\ Masked(x) \in 0 .. overflowBit - 1
        /\ High(r) \in Nat /\ High(r) + overflowBit <= Width
    BY Parts, Zenon
  <2> QED
    BY <1>1, <2>1 DEF Counters
<1>3. Add(b, -overflowBit) \in Counters
  <2>1. -overflowBit \in -Width .. Width - 1
    BY <1>1
  <2> QED
    BY <2>1, AddIs, Zenon
<1>4. GetRear(f, r, x, last) \in {r, b, Add(b, -overflowBit)}
  BY <1>2, Zenon DEF GetRear
<1> QED
  BY <1>3, <1>4, Zenon

(* Whatever mark getRear has loaded, what it lets the server read is in     *)
(* range: a mark that makes no sense is ignored.                            *)
LEMMA GetRearInRange ==
    ASSUME WideCounters, NEW f \in Counters, NEW r \in Counters,
           FilledInRange(safe_sub(r, f)),
           NEW x \in Counters, NEW last \in Counters
    PROVE  FilledInRange(safe_sub(GetRear(f, r, x, last), f))
<1>1. /\ overflowBit \in Nat /\ overflowBit > 0
      /\ Width \in Nat /\ Width >= 4 * overflowBit
      /\ FrameCount \in Nat /\ 2 * FrameCount <= overflowBit
  BY RingFacts
<1>2. PICK b \in Counters : b = High(r) + Masked(x)
  <2>1. /\ Masked(x) \in 0 .. overflowBit - 1
        /\ High(r) \in Nat /\ High(r) + overflowBit <= Width
    BY Parts, Zenon
  <2> QED
    BY <1>1, <2>1 DEF Counters
<1>3. PICK s \in Int : s = safe_sub(b, f)
  BY <1>2, SubIs, Zenon
<1>4. CASE GetRear(f, r, x, last) = r
  BY <1>4, Zenon
<1>5. CASE /\ ~(s >= overflowBit) /\ FilledInRange(s - 0)
           /\ GetRear(f, r, x, last) = b
  <2>1. s - 0 = s
    OBVIOUS
  <2> QED
    BY <1>3, <1>5, <2>1, Zenon
<1>6. CASE /\ s >= overflowBit /\ FilledInRange(s - overflowBit)
           /\ GetRear(f, r, x, last) = Add(b, -overflowBit)
  <2>1. PICK c : c = Add(b, -overflowBit)
    OBVIOUS
  <2>2. /\ c \in Counters
        /\ c \in {b + (-overflowBit), b + (-overflowBit) - Width,
                  b + (-overflowBit) + Width}
    <3>1. -overflowBit \in -Width .. Width - 1
      BY <1>1
    <3> QED
      BY <2>1, <3>1, AddIs, Zenon
  <2>3. PICK e \in Int : e = safe_sub(c, f)
    BY <2>2, SubIs, Zenon
  <2>4. /\ e \in {c - f, c - f - Width, c - f + Width}
        /\ -Width <= 2 * e /\ 2 * e < Width
    BY <2>2, <2>3, SubIs, Zenon
  <2>5. s \in {b - f, b - f - Width, b - f + Width}
    BY <1>3, SubIs, Zenon
  <2>6. /\ b \in Int /\ 0 <= b /\ b < Width /\ f \in Int /\ 0 <= f /\ f < Width
        /\ c \in Int /\ 0 <= c /\ c < Width
    BY <1>1, <2>2 DEF Counters
  <2>7. PICK a \in Int : a = s - overflowBit /\ 0 <= a /\ a <= FrameCount
    BY <1>1, <1>6 DEF FilledInRange
  <2>8. e = a \/ e >= a + Width \/ e <= a - Width
    BY <1>1, <2>2, <2>4, <2>5, <2>6, <2>7
  <2>9. e = a
    BY <1>1, <2>4, <2>7, <2>8
  <2> QED
    BY <1>6, <2>1, <2>3, <2>7, <2>9, Zenon
<1>7. \/ GetRear(f, r, x, last) = r
      \/ /\ ~(s >= overflowBit) /\ FilledInRange(s - 0)
         /\ GetRear(f, r, x, last) = b
      \/ /\ s >= overflowBit /\ FilledInRange(s - overflowBit)
         /\ GetRear(f, r, x, last) = Add(b, -overflowBit)
  BY <1>2, <1>3, Zenon DEF GetRear
<1> QED
  BY <1>4, <1>5, <1>6, <1>7, Zenon

(* Min of two integers is one of them, and no greater than the other. *)
LEMMA MinOfTwo ==
    ASSUME NEW a \in Int, NEW b \in Int
    PROVE  Min({a, b}) \in {a, b} /\ Min({a, b}) <= a /\ Min({a, b}) <= b
<1>1. \E m \in {a, b} : \A y \in {a, b} : m <= y
  OBVIOUS
<1> QED
  BY <1>1, Zenon DEF Min

(* The same for three. *)
LEMMA MinOfThree ==
    ASSUME NEW a \in Int, NEW b \in Int, NEW c \in Int
    PROVE  /\ Min({a, b, c}) \in {a, b, c}
           /\ Min({a, b, c}) <= a /\ Min({a, b, c}) <= b /\ Min({a, b, c}) <= c
<1>1. \E m \in {a, b, c} : \A y \in {a, b, c} : m <= y
  <2>1. CASE a <= b /\ a <= c
    BY <2>1
  <2>2. CASE b <= a /\ b <= c
    BY <2>2
  <2>3. CASE c <= a /\ c <= b
    BY <2>3
  <2> QED
    BY <2>1, <2>2, <2>3
<1> QED
  BY <1>1, Zenon DEF Min

(* A contiguous part is no longer than what is available. *)
LEMMA Part1Is ==
    ASSUME WideCounters, NEW pos \in Counters, NEW avail \in Nat, NEW ask \in Nat
    PROVE  Part1(pos, avail, ask) \in Nat /\ Part1(pos, avail, ask) <= avail
<1>1. FrameCountP2 \in Nat /\ FrameCountP2 > 0 /\ Width \in Nat
  BY RingFacts
<1>2. pos \in Int
  BY <1>1 DEF Counters
<1>3. pos % FrameCountP2 \in 0 .. FrameCountP2 - 1
  BY <1>1, <1>2, Division, Zenon
<1>4. PICK p \in Nat : p = FrameCountP2 - (pos % FrameCountP2)
  BY <1>1, <1>3
<1>5. /\ Min({p, avail, ask}) \in {p, avail, ask}
      /\ Min({p, avail, ask}) <= avail
  <2>1. p \in Int /\ avail \in Int /\ ask \in Int
    OBVIOUS
  <2> QED
    BY <2>1, MinOfThree, Zenon
<1>6. Part1(pos, avail, ask) = Min({p, avail, ask})
  <2>1. Part1(pos, avail, ask)
          = Min({FrameCountP2 - (pos % FrameCountP2), avail, ask})
    BY Zenon DEF Part1
  <2>2. {FrameCountP2 - (pos % FrameCountP2), avail, ask} = {p, avail, ask}
    BY <1>4, Zenon
  <2> QED
    BY <2>1, <2>2, Zenon
<1>7. Min({p, avail, ask}) \in Nat
  BY <1>5, Zenon
<1> QED
  BY <1>5, <1>6, <1>7, Zenon

(* Frames that are filled and frames that may be written lie in different  *)
(* slots of the ring.                                                      *)
LEMMA SlotsApart ==
    ASSUME WideCounters, NEW f \in Counters, NEW r \in Counters,
           FilledInRange(safe_sub(r, f)),
           NEW m \in Nat, m <= safe_sub(r, f),
           NEW n \in Nat, n + safe_sub(r, f) <= FrameCount
    PROVE  Slots(f, m) \intersect Slots(r, n) = {}
<1>1. /\ FrameCountP2 \in Nat /\ FrameCountP2 > 0
      /\ FrameCount \in Nat /\ FrameCount <= FrameCountP2
      /\ Width \in Nat /\ Width % FrameCountP2 = 0
  BY RingFacts
<1>2. PICK d \in Nat : d = safe_sub(r, f) /\ m <= d /\ n + d <= FrameCount
  BY <1>1, SubIs DEF FilledInRange
<1>3. d \in {r - f, r - f - Width, r - f + Width} /\ r \in Int /\ f \in Int
  BY <1>1, <1>2, SubIs DEF Counters
<1>4. SUFFICES ASSUME NEW i \in 0 .. m - 1, NEW j \in 0 .. n - 1,
                      (f + i) % FrameCountP2 = (r + j) % FrameCountP2
               PROVE  FALSE
  BY Zenon DEF Slots
<1>5. PICK a \in Int : a = f + i
  BY <1>3
<1>6. PICK b \in Int : b = r + j
  BY <1>3
<1>7. PICK k \in 1 .. FrameCountP2 - 1 : k = d + j - i
  BY <1>1, <1>2
<1>8. PICK c \in Int : c = a + k
  OBVIOUS
<1>9. b = c \/ b = c + Width \/ c = b + Width
  BY <1>1, <1>3, <1>5, <1>6, <1>7, <1>8
<1>10. b % FrameCountP2 = c % FrameCountP2
  BY <1>1, <1>9, ModPeriod
<1>11. a % FrameCountP2 \in 0 .. FrameCountP2 - 1
  BY <1>1, Division, Zenon
<1>12. CASE (a % FrameCountP2) + k \in 0 .. FrameCountP2 - 1
  <2>1. (a + k) % FrameCountP2 = (a % FrameCountP2) + k
    <3>1. k \in Int
      BY <1>1
    <3> QED
      BY <1>1, <1>12, <3>1, ModShift, Zenon
  <2>2. a % FrameCountP2 = b % FrameCountP2
    BY <1>4, <1>5, <1>6, Zenon
  <2>3. c % FrameCountP2 = (a % FrameCountP2) + k
    BY <1>8, <2>1, Zenon
  <2> QED
    BY <1>7, <1>10, <1>11, <2>2, <2>3
<1>13. CASE (a % FrameCountP2) + k >= FrameCountP2
  <2>1. PICK l \in Int : l = k - FrameCountP2
    BY <1>1
  <2>2. (a % FrameCountP2) + l \in 0 .. FrameCountP2 - 1
    BY <1>1, <1>7, <1>11, <1>13, <2>1
  <2>3. (a + l) % FrameCountP2 = (a % FrameCountP2) + l
    BY <1>1, <2>2, ModShift, Zenon
  <2>4. PICK e \in Int : e = a + l
    OBVIOUS
  <2>5. FrameCountP2 % FrameCountP2 = 0
    BY <1>1, ModSelf, Zenon
  <2>6. (e + FrameCountP2) % FrameCountP2 = e % FrameCountP2
    BY <1>1, <2>5, ModPeriod
  <2>7. e + FrameCountP2 = c
    BY <1>1, <1>7, <1>8, <2>1, <2>4
  <2> QED
    BY <1>1, <1>4, <1>5, <1>6, <1>7, <1>10, <1>11, <2>1, <2>3, <2>4, <2>6, <2>7
<1> QED
  BY <1>1, <1>7, <1>11, <1>12, <1>13

-----------------------------------------------------------------------------
(* The type of every variable. *)
CblkType == [front : Counters, rear : Counters, stop : Counters,
             flush : Counters, size : 1 .. FrameCount,
             flags : SUBSET {"INTERRUPT", "DISABLED"}, futex : Int]
AppType == [state : {"ACTIVE", "PAUSED", "STOPPED", "FLUSHED"},
            prev : {"ACTIVE", "PAUSED", "STOPPED", "FLUSHED", "none"},
            call : {"none", "start", "restart", "stop", "pause", "mark",
                    "flush"}]
WriterType == [pc : {"idle", "again", "flags", "avail", "down", "wait",
                     "asleep", "write"},
               first : BOOLEAN, timeout : {"zero", "some"},
               tries : Int, n : Nat, expect : Int]
ProxyType == [flush : Counters, stopLast : Counters, avail : Int]
TrackType == [state : {"IDLE", "ACTIVE", "RESUMING", "PAUSING", "PAUSED",
                       "STOPPED", "FLUSHED"},
              active : BOOLEAN, filling : {"FILLING", "FILLED", "ACTIVE"},
              retries : Int, resetDone : BOOLEAN]
MixerType == [pc : {"idle", "stop", "rear", "mix", "read", "mixed"},
              use : {"prepare", "obtain"}, flush : Counters,
              stop : Counters, n : Nat]
Types ==
    /\ cblk \in CblkType /\ app \in AppType /\ writer \in WriterType
    /\ proxy \in ProxyType /\ track \in TrackType /\ mixer \in MixerType

(* A stop or a flush that the server has still to act upon. *)
StopSet == cblk.stop # proxy.stopLast
FlushSet == cblk.flush # proxy.flush
StopAhead == Ahead(cblk.front, cblk.stop)
FlushAhead == Ahead(cblk.front, cblk.flush)

(***************************************************************************)
(* The ring: what the writer holds fits behind mRear, what the mixer holds *)
(* was published, and a mark is where the server has still to come.        *)
(***************************************************************************)
RingOK ==
    /\ FilledInRange(Filled)
    /\ writer.pc = "write" => writer.n + Filled <= FrameCount
    /\ StopSet => StopAhead <= Filled
    /\ FlushSet => FlushAhead <= Filled
    /\ FlushSet /\ StopSet => FlushAhead <= StopAhead
    /\ mixer.pc = "read" => /\ mixer.n <= Filled
                            /\ StopSet => mixer.n <= StopAhead
                            /\ FlushSet => mixer.n <= FlushAhead

(* The mixer's read: the track stays active under it, and a flush that the  *)
(* read has seen is applied.                                                *)
ReadOK ==
    /\ mixer.pc # "idle" => track.active
    /\ mixer.pc \in {"stop", "rear"} => mixer.flush = proxy.flush

(* The calls: a track that was stopped or flushed has its stop mark set,    *)
(* and one that was started has not.                                        *)
CallOK ==
    /\ app.call = "mark" => app.state = "FLUSHED" /\ StopAhead = Filled
    /\ app.state \in Stopped => StopSet
    /\ app.call \in {"start", "restart"} => app.state = "ACTIVE"
    /\ app.call = "start" => /\ app.prev \notin {"none", "ACTIVE"}
                             /\ app.prev \in Stopped => StopSet
    /\ app.state = "ACTIVE" /\ app.call # "start" => ~StopSet

(* The counter in mStop has not wrapped. *)
LastMark == (MaxMarks + 1) * overflowBit
MarksFit == LastMark + overflowBit <= Width
MarkOK ==
    /\ StopSet => High(proxy.stopLast) < High(cblk.stop)
    /\ High(cblk.stop) <= LastMark

TrackInv == Types /\ shutdown = {} /\ RingOK /\ ReadOK /\ CallOK /\ MarkOK

-----------------------------------------------------------------------------
(* The last value of the counter in a mark. *)
LEMMA LastMarkIs ==
    ASSUME WideCounters
    PROVE  LastMark \in Nat /\ overflowBit <= LastMark
<1>1. overflowBit \in Nat
  BY RingFacts, Zenon
<1>2. MaxMarks \in Nat
  BY TrackAssumption, Zenon
<1>3. MaxMarks * overflowBit \in Nat
  BY <1>1, <1>2, ProductNat, Zenon
<1> QED
  BY <1>1, <1>2, <1>3 DEF LastMark

(* The bound on the marks leaves room for one more. *)
LEMMA MarksLeftIs ==
    ASSUME WideCounters, cblk.stop \in Counters, MarksLeft
    PROVE  High(cblk.stop) + overflowBit <= LastMark
<1>1. overflowBit \in Nat /\ overflowBit > 0
  BY RingFacts
<1>2. MaxMarks \in Nat
  BY TrackAssumption, Zenon
<1>3. PICK h \in Nat : h = High(cblk.stop) /\ h % overflowBit = 0
  BY Parts, Zenon
<1>4. PICK q \in Int : q = h \div overflowBit
  BY <1>1, Division
<1>5. h = overflowBit * q
  <2>1. h = overflowBit * (h \div overflowBit) + (h % overflowBit)
    BY <1>1, Division
  <2> QED
    BY <1>1, <1>3, <1>4, <2>1
<1>6. q <= MaxMarks
  BY <1>3, <1>4, Zenon DEF MarksLeft
<1>7. overflowBit * (MaxMarks - q) \in Nat
  BY <1>1, <1>2, <1>6, ProductNat
<1> QED
  BY <1>1, <1>2, <1>3, <1>5, <1>7 DEF LastMark

(* Init satisfies the invariant. *)
LEMMA TrackInitInv ==
    ASSUME WideCounters, Init
    PROVE  TrackInv
<1>1. /\ overflowBit \in Nat /\ overflowBit > 0 /\ Width \in Nat
      /\ Width >= 4 * overflowBit /\ FrameCount \in Nat /\ FrameCount > 0
  BY RingFacts
<1>2. StartAt \in Counters
  BY TrackAssumption, Zenon
<1>3. 0 \in Counters /\ High(0) = 0
  <2>1. 0 % overflowBit = 0
    BY <1>1, ModSelf, Zenon
  <2> QED
    BY <1>1, <2>1 DEF Counters, High, Masked
<1>4. PICK s \in Counters : s = NextMark(0, StartAt)
  BY <1>2, <1>3, NextMarkIs, Zenon
<1>5. Masked(s) = Masked(StartAt) /\ High(s) = overflowBit
  BY <1>1, <1>2, <1>3, <1>4, NextMarkIs
<1>6. s # 0
  BY <1>1, <1>3, <1>5
<1>7. safe_sub(StartAt, StartAt) = 0
  <2>1. /\ safe_sub(StartAt, StartAt) \in Int
        /\ safe_sub(StartAt, StartAt) \in {StartAt - StartAt,
              StartAt - StartAt - Width, StartAt - StartAt + Width}
        /\ -Width <= 2 * safe_sub(StartAt, StartAt)
        /\ 2 * safe_sub(StartAt, StartAt) < Width
    BY <1>2, SubIs, Zenon
  <2> QED
    BY <1>1, <1>2, <2>1 DEF Counters
<1>8. Filled = 0
  BY <1>7, Zenon DEF Init, Filled
<1>9. StopAhead = 0
  <2>1. Ahead(StartAt, StartAt) = 0
    BY <1>1, <1>2, <1>7, AheadOfRear DEF FilledInRange
  <2> QED
    BY <1>4, <1>5, <2>1, Zenon DEF Init, StopAhead, Ahead
<1>10. StopSet /\ ~FlushSet
  BY <1>4, <1>6, Zenon DEF Init, StopSet, FlushSet
<1>11. Types
  BY <1>1, <1>2, <1>3, <1>4 DEF Init, Types, Idle, CblkType, AppType,
     WriterType, ProxyType, TrackType, MixerType
<1>12. RingOK
  BY <1>1, <1>8, <1>9, <1>10 DEF Init, RingOK, FilledInRange, Idle
<1>13. ReadOK
  BY Zenon DEF Init, ReadOK, Idle
<1>14. CallOK
  BY <1>10, Zenon DEF Init, CallOK
<1>15. MarkOK
  <2>1. High(cblk.stop) = overflowBit /\ High(proxy.stopLast) = 0
    BY <1>3, <1>4, <1>5, Zenon DEF Init
  <2> QED
    BY <1>1, <2>1, LastMarkIs, Zenon DEF MarkOK
<1> QED
  BY <1>11, <1>12, <1>13, <1>14, <1>15, Zenon DEF TrackInv, Init

-----------------------------------------------------------------------------
(* The positions, the marks and what the server knows of them are the same. *)
Still ==
    /\ cblk'.front = cblk.front /\ cblk'.rear = cblk.rear
    /\ cblk'.stop = cblk.stop /\ cblk'.flush = cblk.flush
    /\ proxy'.flush = proxy.flush /\ proxy'.stopLast = proxy.stopLast

(* What the invariant says of the ring is the same then. *)
Same ==
    /\ Filled' = Filled /\ StopAhead' = StopAhead /\ FlushAhead' = FlushAhead
    /\ StopSet' = StopSet /\ FlushSet' = FlushSet
    /\ cblk'.stop = cblk.stop /\ MarkOK' = MarkOK

(* A step that keeps the positions keeps all of that. *)
LEMMA StillIsSame ==
    ASSUME Still
    PROVE  Same
<1>1. Filled' = Filled /\ StopAhead' = StopAhead /\ FlushAhead' = FlushAhead
  BY Zenon DEF Still, Filled, StopAhead, FlushAhead
<1>2. StopSet' = StopSet /\ FlushSet' = FlushSet
  BY Zenon DEF Still, StopSet, FlushSet
<1>3. MarkOK' = MarkOK
  BY <1>2, Zenon DEF Still, MarkOK
<1> QED
  BY <1>1, <1>2, <1>3, Zenon DEF Same, Still

(* What Filled is. *)
LEMMA FilledIs ==
    ASSUME WideCounters, Types
    PROVE  /\ Filled \in Int
           /\ StopAhead \in Nat /\ FlushAhead \in Nat
<1>1. /\ cblk.front \in Counters /\ cblk.rear \in Counters
      /\ cblk.stop \in Counters /\ cblk.flush \in Counters
  BY Zenon DEF Types, CblkType
<1>2. overflowBit \in Nat
  BY RingFacts, Zenon
<1>3. Filled \in Int
  BY <1>1, SubIs, Zenon DEF Filled
<1>4. StopAhead \in Nat /\ FlushAhead \in Nat
  BY <1>1, <1>2, AheadIs DEF StopAhead, FlushAhead
<1> QED
  BY <1>3, <1>4, Zenon

(* Steps of the writer that do not publish: obtainBuffer. *)
LEMMA ObtainBufferInv ==
    ASSUME TrackInv, ObtainBuffer
    PROVE  TrackInv'
<1>1. writer' \in WriterType /\ writer'.pc = "flags"
  <2>1. writer' = [pc |-> "flags", first |-> writer.first,
                   timeout |-> Requested("some"), tries |-> MaxTries,
                   n |-> writer.n, expect |-> writer.expect]
    BY Zenon DEF TrackInv, Types, WriterType, ObtainBuffer
  <2>2. Requested("some") \in {"zero", "some"} /\ MaxTries \in Int
    BY TrackAssumption DEF Requested
  <2> QED
    BY <2>1, <2>2, Zenon DEF TrackInv, Types, WriterType
<1>2. Same
  BY StillIsSame, Zenon DEF Still, ObtainBuffer
<1> QED
  BY <1>1, <1>2, Zenon DEF TrackInv, Same, ObtainBuffer, RingOK, ReadOK, CallOK, Types

(* restartIfDisabled changes the flags, and may make a binder call. *)
LEMMA RestartType ==
    ASSUME Types, NEW c \in CblkType, RestartIfDisabled(c)
    PROVE  /\ cblk' \in CblkType /\ app' \in AppType
           /\ cblk'.front = c.front /\ cblk'.rear = c.rear
           /\ cblk'.stop = c.stop /\ cblk'.flush = c.flush
           /\ app'.state = app.state /\ app'.prev = app.prev
           /\ \/ app'.call = app.call
              \/ app'.call = "restart" /\ app.state = "ACTIVE"
<1>1. /\ cblk' \in CblkType
      /\ cblk'.front = c.front /\ cblk'.rear = c.rear
      /\ cblk'.stop = c.stop /\ cblk'.flush = c.flush
  BY Zenon DEF RestartIfDisabled, CblkType
<1>2. /\ app' \in AppType
      /\ app'.state = app.state /\ app'.prev = app.prev
      /\ \/ app'.call = app.call
         \/ app'.call = "restart" /\ app.state = "ACTIVE"
  BY Zenon DEF RestartIfDisabled, Types, AppType
<1> QED
  BY <1>1, <1>2, Zenon

(* A further round of obtainBuffer, which may restart the track. *)
LEMMA ObtainAgainInv ==
    ASSUME TrackInv, ObtainAgain
    PROVE  TrackInv'
<1>1. writer' \in WriterType /\ writer'.pc = "flags"
  <2>1. PICK t \in {"zero", "some"} : t = Requested(writer.timeout)
    BY Zenon DEF TrackInv, Types, WriterType, Requested
  <2>2. PICK k \in Int : k = writer.tries - 1
    BY DEF TrackInv, Types, WriterType
  <2>3. writer' = [writer EXCEPT !.pc = "flags", !.first = TRUE,
                                 !.tries = k, !.timeout = t]
    BY <2>1, <2>2, Zenon DEF ObtainAgain
  <2>4. writer' = [pc |-> "flags", first |-> TRUE, timeout |-> t,
                   tries |-> k, n |-> writer.n, expect |-> writer.expect]
    BY <2>3, Zenon DEF TrackInv, Types, WriterType
  <2> QED
    BY <2>4, Zenon DEF TrackInv, Types, WriterType
<1>2. /\ cblk' \in CblkType /\ app' \in AppType
      /\ cblk'.front = cblk.front /\ cblk'.rear = cblk.rear
      /\ cblk'.stop = cblk.stop /\ cblk'.flush = cblk.flush
      /\ app'.state = app.state /\ app'.prev = app.prev
      /\ \/ app'.call = app.call
         \/ app'.call = "restart" /\ app.state = "ACTIVE"
  BY RestartType, Zenon DEF ObtainAgain, TrackInv, Types
<1>3. Same
  BY <1>2, StillIsSame, Zenon DEF Still, ObtainAgain
<1> QED
  BY <1>1, <1>2, <1>3, Zenon DEF TrackInv, Same, ObtainAgain, RingOK, ReadOK, CallOK,
     Types, Unlocked

(* Returning gives up what was obtained. *)
LEMMA ReturnsType ==
    ASSUME Types, Returns
    PROVE  writer'.pc = "idle" /\ writer' \in WriterType
<1>1. writer' = [pc |-> "idle", first |-> TRUE, timeout |-> "zero",
                 tries |-> 0, n |-> 0, expect |-> 0]
  BY Zenon DEF Types, WriterType, Returns
<1> QED
  BY <1>1 DEF WriterType

(* The look at the flags. *)
LEMMA CheckFlagsInv ==
    ASSUME TrackInv, CheckFlags
    PROVE  TrackInv'
<1>1. writer' \in WriterType /\ writer'.pc \in {"idle", "again", "avail"}
  <2>1. CASE Returns
    BY <2>1, ReturnsType, Zenon DEF TrackInv
  <2>2. CASE Goes("again")
    BY <2>2, Zenon DEF TrackInv, Types, WriterType, Goes
  <2>3. CASE writer' = [writer EXCEPT !.pc = "avail", !.first = FALSE]
    BY <2>3, Zenon DEF TrackInv, Types, WriterType
  <2> QED
    BY <2>1, <2>2, <2>3, Zenon DEF CheckFlags
<1>2. cblk' \in CblkType
  BY Zenon DEF TrackInv, Types, CblkType, CheckFlags
<1>3. Same
  BY StillIsSame, Zenon DEF Still, CheckFlags, TrackInv, Types, CblkType
<1> QED
  BY <1>1, <1>2, <1>3 DEF TrackInv, Types, Same, CheckFlags, RingOK, ReadOK,
     CallOK

(* The writer's pc and expected word after a step of the futex. *)
LEMMA WriterMoves ==
    ASSUME Types, NEW p \in {"flags", "wait", "asleep"}, NEW e \in Int,
           \/ writer' = [writer EXCEPT !.pc = p, !.expect = e]
           \/ writer' = [writer EXCEPT !.expect = e, !.pc = p]
    PROVE  writer' \in WriterType /\ writer'.pc = p
<1>1. writer' = [pc |-> p, first |-> writer.first,
                 timeout |-> writer.timeout, tries |-> writer.tries,
                 n |-> writer.n, expect |-> e]
  BY Zenon DEF Types, WriterType
<1> QED
  BY <1>1, Zenon DEF Types, WriterType

(* FUTEX_WAIT, and its time-out. *)
LEMMA FutexInv ==
    ASSUME TrackInv, FutexDown \/ FutexWait \/ FutexTimeout
    PROVE  TrackInv'
<1>1. cblk.futex \in Int /\ Lowered(cblk.futex) \in Int
  BY DEF TrackInv, Types, CblkType, Lowered, WakeBit
<1>2. cblk' \in CblkType /\ Same
  <2>1. CASE FutexDown
    <3>1. cblk' = [cblk EXCEPT !.futex = Lowered(cblk.futex)]
      BY <2>1, Zenon DEF FutexDown
    <3> QED
      BY <1>1, <2>1, <3>1, StillIsSame, Zenon DEF TrackInv, Types, CblkType, FutexDown,
         Still
  <2>2. CASE FutexWait \/ FutexTimeout
    BY <2>2, StillIsSame, Zenon DEF TrackInv, Types, FutexWait, FutexTimeout, Still
  <2> QED
    BY <2>1, <2>2, Zenon
<1>3. writer' \in WriterType /\ writer'.pc # "write"
  <2>1. CASE FutexDown
    <3>1. PICK p \in {"flags", "wait"} :
             p = IF WakeBit(cblk.futex) = 1 THEN "flags" ELSE "wait"
      OBVIOUS
    <3>2. PICK e \in Int :
             e = IF WakeBit(cblk.futex) = 1 THEN 0 ELSE cblk.futex
      BY <1>1
    <3>3. writer' = [writer EXCEPT !.pc = p, !.expect = e]
      BY <2>1, <3>1, <3>2, Zenon DEF FutexDown
    <3> QED
      BY <3>3, WriterMoves, Zenon DEF TrackInv
  <2>2. CASE FutexWait
    <3>1. PICK p \in {"flags", "asleep"} :
             p = IF cblk.futex = writer.expect THEN "asleep" ELSE "flags"
      OBVIOUS
    <3>2. writer' = [writer EXCEPT !.expect = 0, !.pc = p]
      BY <2>2, <3>1, Zenon DEF FutexWait
    <3>3. p \in {"flags", "wait", "asleep"} /\ 0 \in Int /\ Types
      BY DEF TrackInv
    <3> QED
      BY <3>2, <3>3, WriterMoves, Zenon
  <2>3. CASE FutexTimeout
    BY <2>3, Zenon DEF TrackInv, Types, WriterType, FutexTimeout, Goes
  <2> QED
    BY <2>1, <2>2, <2>3, Zenon
<1> QED
  BY <1>2, <1>3 DEF TrackInv, Types, Same, FutexDown, FutexWait, FutexTimeout,
     RingOK, ReadOK, CallOK

(* The look at the space that is left. *)
LEMMA CheckAvailInv ==
    ASSUME WideCounters, TrackInv, CheckAvail
    PROVE  TrackInv'
<1>1. /\ FilledInRange(Filled) /\ shutdown = {} /\ Filled \in Int
      /\ cblk.size \in Int /\ cblk.size <= FrameCount /\ cblk.rear \in Counters
      /\ FrameCount \in Nat
  BY FilledIs, RingFacts DEF TrackInv, RingOK, Types, CblkType
<1>2. shutdown' = {} /\ UNCHANGED <<cblk, app, proxy, track, mixer>>
  BY <1>1, Zenon DEF CheckAvail
<1>3. /\ writer' \in WriterType
      /\ writer'.pc = "write" => writer'.n + Filled <= FrameCount
  <2>1. CASE Returns
    BY <2>1, ReturnsType, Zenon DEF TrackInv
  <2>2. CASE Goes("down")
    BY <2>2, Zenon DEF TrackInv, Types, WriterType, Goes
  <2>3. ASSUME cblk.size - Filled > 0,
               NEW n \in 1 .. Part1(cblk.rear, cblk.size - Filled, FrameCount),
               writer' = [writer EXCEPT !.pc = "write", !.n = n]
        PROVE  /\ writer' \in WriterType
               /\ writer'.pc = "write" => writer'.n + Filled <= FrameCount
    <3>1. PICK avail \in Nat : avail = cblk.size - Filled
      BY <1>1, <2>3
    <3>2. /\ Part1(cblk.rear, avail, FrameCount) \in Nat
          /\ Part1(cblk.rear, avail, FrameCount) <= avail
      BY <1>1, Part1Is, Zenon
    <3>3. n \in Nat /\ n <= avail
      BY <2>3, <3>1, <3>2
    <3>4. writer' = [pc |-> "write", first |-> writer.first,
                     timeout |-> writer.timeout, tries |-> writer.tries,
                     n |-> n, expect |-> writer.expect]
      BY <2>3, Zenon DEF TrackInv, Types, WriterType
    <3>5. writer' \in WriterType /\ writer'.n = n
      BY <3>3, <3>4, Zenon DEF TrackInv, Types, WriterType
    <3> QED
      BY <1>1, <3>1, <3>3, <3>5
  <2> QED
    BY <1>1, <2>1, <2>2, <2>3, Zenon DEF CheckAvail
<1>4. Same
  BY <1>2, StillIsSame, Zenon DEF Still
<1> QED
  BY <1>2, <1>3, <1>4 DEF TrackInv, Types, Same, RingOK, ReadOK, CallOK

(* releaseBuffer publishes no more than was obtained. *)
LEMMA ReleaseBufferInv ==
    ASSUME WideCounters, TrackInv, ReleaseBuffer
    PROVE  TrackInv'
<1>1. PICK k \in 0 .. Min({writer.n, MaxFrames - Written}) :
         \/ k = 0 /\ UNCHANGED <<cblk, app>>
         \/ k > 0 /\ RestartIfDisabled([cblk EXCEPT !.rear = Add(@, k)])
  BY Zenon DEF ReleaseBuffer
<1>2. /\ cblk.front \in Counters /\ cblk.rear \in Counters /\ writer.n \in Nat
      /\ FilledInRange(Filled) /\ Filled \in Int
      /\ writer.n + Filled <= FrameCount /\ FrameCount \in Nat
  BY FilledIs, RingFacts, Zenon DEF TrackInv, RingOK, Types, CblkType, WriterType,
     ReleaseBuffer
<1>3. writer'.pc = "idle" /\ writer' \in WriterType
  BY ReturnsType, Zenon DEF ReleaseBuffer, TrackInv
<1>4. CASE k = 0 /\ UNCHANGED <<cblk, app>>
  <2>1. Same
    BY <1>4, StillIsSame, Zenon DEF Still, ReleaseBuffer
  <2> QED
    BY <1>3, <1>4, <2>1, Zenon DEF TrackInv, Types, Same, ReleaseBuffer, RingOK, ReadOK,
       CallOK
<1>5. CASE k > 0 /\ RestartIfDisabled([cblk EXCEPT !.rear = Add(@, k)])
  <2>1. k \in Nat /\ k <= writer.n
    <3>1. PICK w \in Int : w = MaxFrames - Written
      <4>1. Written \in Int
        <5>1. cblk.rear - StartAt \in Int /\ Width \in Nat /\ Width > 0
          BY <1>2, TrackAssumption, RingFacts DEF Counters
        <5> QED
          BY <5>1 DEF Written
      <4> QED
        BY <4>1, TrackAssumption
    <3>2. PICK v \in Int : v = writer.n
      BY <1>2
    <3>3. Min({v, w}) \in {v, w} /\ Min({v, w}) <= v
      BY MinOfTwo, Zenon
    <3>4. k \in 0 .. Min({v, w})
      BY <3>1, <3>2, Zenon
    <3> QED
      BY <3>2, <3>3, <3>4
  <2>2. safe_sub(cblk.rear, cblk.front) + k <= FrameCount
    BY <1>2, <2>1 DEF Filled
  <2>3. PICK r \in Counters :
           /\ r = Add(cblk.rear, k)
           /\ safe_sub(r, cblk.front) = safe_sub(cblk.rear, cblk.front) + k
    BY <1>2, <2>1, <2>2, RearMoves, Zenon DEF Filled
  <2>4. PICK c \in CblkType : c = [cblk EXCEPT !.rear = r]
    BY Zenon DEF TrackInv, Types, CblkType
  <2>5. /\ c.front = cblk.front /\ c.rear = r
        /\ c.stop = cblk.stop /\ c.flush = cblk.flush
    BY <2>4, Zenon DEF TrackInv, Types, CblkType
  <2>6. RestartIfDisabled(c)
    BY <1>5, <2>3, <2>4, Zenon
  <2>7. /\ cblk' \in CblkType /\ app' \in AppType
        /\ cblk'.front = c.front /\ cblk'.rear = c.rear
        /\ cblk'.stop = c.stop /\ cblk'.flush = c.flush
        /\ app'.state = app.state /\ app'.prev = app.prev
        /\ \/ app'.call = app.call
           \/ app'.call = "restart" /\ app.state = "ACTIVE"
    BY <2>6, RestartType, Zenon DEF TrackInv
  <2>8. Filled' = Filled + k
    BY <2>3, <2>5, <2>7, Zenon DEF Filled
  <2>9. /\ StopAhead' = StopAhead /\ FlushAhead' = FlushAhead
        /\ StopSet' = StopSet /\ FlushSet' = FlushSet
    BY <2>5, <2>7, Zenon DEF ReleaseBuffer, StopAhead, FlushAhead, StopSet, FlushSet
  <2>10. FilledInRange(Filled')
    BY <1>2, <2>1, <2>8 DEF FilledInRange
  <2>11. StopAhead \in Nat /\ FlushAhead \in Nat
    BY FilledIs, Zenon DEF TrackInv
  <2>12. RingOK'
    BY <1>2, <1>3, <2>1, <2>8, <2>9, <2>10, <2>11
       DEF TrackInv, Types, MixerType, RingOK, ReleaseBuffer
  <2>13. MarkOK'
    BY <2>5, <2>7, <2>9, Zenon DEF TrackInv, MarkOK, ReleaseBuffer
  <2>14. ReadOK' /\ CallOK'
    BY <2>5, <2>7, <2>9, Zenon DEF TrackInv, ReadOK, CallOK, ReleaseBuffer, Unlocked
  <2> QED
    BY <1>3, <2>7, <2>12, <2>13, <2>14, Zenon DEF TrackInv, Types, ReleaseBuffer
<1> QED
  BY <1>1, <1>4, <1>5, Zenon

-----------------------------------------------------------------------------
(* interrupt leaves the positions and the marks alone. *)
LEMMA InterruptedType ==
    ASSUME NEW c \in CblkType
    PROVE  /\ Interrupted(c) \in CblkType
           /\ Interrupted(c).front = c.front /\ Interrupted(c).rear = c.rear
           /\ Interrupted(c).stop = c.stop /\ Interrupted(c).flush = c.flush
<1>1. CASE "INTERRUPT" \in c.flags
  BY <1>1, Zenon DEF Interrupted
<1>2. CASE "INTERRUPT" \notin c.flags
  <2>1. PICK x \in Int : x = Raised(c.futex)
    BY DEF CblkType, Raised, WakeBit
  <2>2. Interrupted(c) = [c EXCEPT !.flags = c.flags \union {"INTERRUPT"},
                                   !.futex = x]
    BY <1>2, <2>1, Zenon DEF Interrupted
  <2>3. Interrupted(c) = [front |-> c.front, rear |-> c.rear,
                          stop |-> c.stop, flush |-> c.flush,
                          size |-> c.size, futex |-> x,
                          flags |-> c.flags \union {"INTERRUPT"}]
    BY <2>2, Zenon DEF CblkType
  <2> QED
    BY <2>3 DEF CblkType
<1> QED
  BY <1>1, <1>2, Zenon

(* FUTEX_WAKE takes a writer out of its sleep, and does nothing else. *)
LEMMA WokenType ==
    ASSUME Types
    PROVE  /\ Woken(writer) \in WriterType
           /\ Woken(writer).pc = "write" => Woken(writer) = writer
BY Zenon DEF Types, WriterType, Woken

(* The writer after interrupt. *)
LEMMA InterruptsType ==
    ASSUME Types, Interrupts
    PROVE  /\ writer' \in WriterType
           /\ writer'.pc = "write" => writer' = writer
<1>1. writer' = writer \/ writer' = Woken(writer)
  BY Zenon DEF Interrupts
<1> QED
  BY <1>1, WokenType, Zenon DEF Types

(* A new stop mark is at mRear, and is new to the server. *)
LEMMA StopMarked ==
    ASSUME WideCounters, MarksFit, TrackInv, MarksLeft, UNCHANGED proxy,
           cblk'.front = cblk.front, cblk'.rear = cblk.rear,
           cblk'.stop = NextMark(cblk.stop, cblk.rear), cblk'.flush = cblk.flush
    PROVE  /\ Filled' = Filled /\ StopAhead' = Filled /\ FlushAhead' = FlushAhead
           /\ StopSet' /\ FlushSet' = FlushSet /\ MarkOK'
<1>1. /\ cblk.front \in Counters /\ cblk.rear \in Counters
      /\ cblk.stop \in Counters /\ proxy.stopLast \in Counters
      /\ FilledInRange(Filled)
  BY Zenon DEF TrackInv, Types, CblkType, ProxyType, RingOK
<1>2. /\ overflowBit \in Nat /\ overflowBit > 0 /\ Width \in Nat
      /\ LastMark \in Nat /\ LastMark + overflowBit <= Width
  BY RingFacts, LastMarkIs DEF MarksFit
<1>3. High(cblk.stop) + overflowBit <= LastMark /\ High(cblk.stop) \in Nat
  BY <1>1, MarksLeftIs, Parts, Zenon
<1>4. High(cblk.stop) + 2 * overflowBit <= Width
  BY <1>2, <1>3
<1>5. /\ Masked(cblk'.stop) = Masked(cblk.rear)
      /\ High(cblk'.stop) = High(cblk.stop) + overflowBit
  BY <1>1, <1>4, NextMarkIs, Zenon
<1>6. Filled' = Filled
  BY Zenon DEF Filled
<1>7. StopAhead' = Filled
  <2>1. Ahead(cblk.front, cblk.rear) = Filled
    BY <1>1, AheadOfRear, Zenon DEF Filled
  <2> QED
    BY <1>5, <2>1, Zenon DEF StopAhead, Ahead
<1>8. FlushAhead' = FlushAhead /\ FlushSet' = FlushSet
  BY Zenon DEF FlushAhead, FlushSet
<1>9. High(proxy.stopLast) <= High(cblk.stop) /\ High(proxy.stopLast) \in Nat
  BY <1>1, <1>3, Parts DEF TrackInv, MarkOK, StopSet
<1>10. High(proxy.stopLast) < High(cblk'.stop) /\ High(cblk'.stop) <= LastMark
  BY <1>2, <1>3, <1>5, <1>9
<1>11. StopSet'
  BY <1>3, <1>5, <1>9, <1>10 DEF StopSet
<1>12. MarkOK'
  BY <1>10, Zenon DEF MarkOK
<1> QED
  BY <1>6, <1>7, <1>8, <1>11, <1>12, Zenon

(* start, pause and setBufferSizeInFrames. *)
LEMMA PlainCallInv ==
    ASSUME WideCounters, TrackInv, Start \/ Pause \/ SetBufferSizeInFrames
    PROVE  TrackInv'
<1>1. CASE Start
  <2>1. cblk' \in CblkType /\ Same
    BY <1>1, StillIsSame, Zenon DEF Start, TrackInv, Types, CblkType, Still
  <2>2. /\ app' \in AppType /\ app'.state = "ACTIVE" /\ app'.call = "start"
        /\ app'.prev = app.state /\ app.state \notin {"none", "ACTIVE"}
    BY <1>1, Zenon DEF Start, Calls, TrackInv, Types, AppType
  <2> QED
    BY <1>1, <2>1, <2>2, Zenon DEF Start, TrackInv, Types, Same, RingOK, ReadOK,
       CallOK, Stopped
<1>2. CASE Pause
  <2>1. cblk' \in CblkType /\ Same
    BY <1>2, StillIsSame, InterruptedType, Zenon DEF Pause, TrackInv, Types, Still
  <2>2. /\ app' \in AppType /\ app'.state = "PAUSED" /\ app'.call = "pause"
    BY <1>2, Zenon DEF Pause, Calls, TrackInv, Types, AppType
  <2>3. /\ writer' \in WriterType
        /\ writer'.pc = "write" => writer' = writer
    BY <1>2, InterruptsType, Zenon DEF Pause, TrackInv
  <2> QED
    BY <1>2, <2>1, <2>2, <2>3, Zenon DEF Pause, TrackInv, Types, Same, RingOK,
       ReadOK, CallOK, Stopped
<1>3. CASE SetBufferSizeInFrames
  <2>1. PICK size \in BufferSizes : cblk' = [cblk EXCEPT !.size = size]
    BY <1>3, Zenon DEF SetBufferSizeInFrames
  <2>2. size \in 1 .. FrameCount
    BY TrackAssumption, Zenon
  <2>3. cblk' \in CblkType /\ Same
    BY <1>3, <2>1, <2>2, StillIsSame, Zenon DEF SetBufferSizeInFrames, TrackInv, Types,
       CblkType, Still
  <2> QED
    BY <1>3, <2>3, Zenon DEF SetBufferSizeInFrames, TrackInv, Types, Same, RingOK,
       ReadOK, CallOK
<1> QED
  BY <1>1, <1>2, <1>3, Zenon

(* stop, and the first store of flush. *)
LEMMA StopInv ==
    ASSUME WideCounters, MarksFit, TrackInv, Stop \/ Flush
    PROVE  TrackInv'
<1>1. MarksLeft
  BY Zenon DEF Stop, Flush
<1>2. PICK s \in Counters : s = NextMark(cblk.stop, cblk.rear)
  BY NextMarkIs, Zenon DEF TrackInv, Types, CblkType
<1>3. PICK c \in CblkType : c = [cblk EXCEPT !.stop = s]
  BY Zenon DEF TrackInv, Types, CblkType
<1>4. /\ c.front = cblk.front /\ c.rear = cblk.rear /\ c.stop = s
      /\ c.flush = cblk.flush
  BY <1>3, Zenon DEF TrackInv, Types, CblkType
<1>5. /\ cblk' \in CblkType
      /\ cblk'.front = cblk.front /\ cblk'.rear = cblk.rear
      /\ cblk'.stop = s /\ cblk'.flush = cblk.flush
  <2>1. CASE Stop
    <3>1. cblk' = Interrupted(c)
      BY <1>2, <1>3, <2>1, Zenon DEF Stop
    <3> QED
      BY <1>4, <3>1, InterruptedType, Zenon
  <2>2. CASE Flush
    BY <1>2, <1>3, <1>4, <2>2, Zenon DEF Flush
  <2> QED
    BY <2>1, <2>2, Zenon
<1>6. UNCHANGED <<proxy, track, mixer, shutdown>>
  BY Zenon DEF Stop, Flush
<1>7. /\ Filled' = Filled /\ StopAhead' = Filled /\ FlushAhead' = FlushAhead
      /\ StopSet' /\ FlushSet' = FlushSet /\ MarkOK'
  BY <1>1, <1>2, <1>5, <1>6, StopMarked, Zenon
<1>8. /\ app' \in AppType /\ app'.state \in Stopped
      /\ app'.call = "mark" => app'.state = "FLUSHED"
      /\ app'.state # "ACTIVE" /\ app'.call \notin {"start", "restart"}
  <2>1. CASE Stop
    BY <2>1, Zenon DEF Stop, Calls, TrackInv, Types, AppType, Stopped
  <2>2. CASE Flush
    BY <2>2, Zenon DEF Flush, Calls, TrackInv, Types, AppType, Stopped
  <2> QED
    BY <2>1, <2>2, Zenon
<1>9. /\ writer' \in WriterType
      /\ writer'.pc = "write" => writer' = writer
  BY InterruptsType, Zenon DEF Stop, Flush, TrackInv, Types
<1>10. RingOK'
  <2>1. Filled \in Int
    BY FilledIs, Zenon DEF TrackInv
  <2> QED
    BY <1>6, <1>7, <1>9, <2>1 DEF TrackInv, RingOK
<1>11. ReadOK' /\ CallOK'
  BY <1>6, <1>7, <1>8, Zenon DEF TrackInv, ReadOK, CallOK
<1> QED
  BY <1>5, <1>6, <1>7, <1>8, <1>9, <1>10, <1>11, Zenon DEF TrackInv, Types

(* The second store of flush marks the place of the first. *)
LEMMA FlushMarkInv ==
    ASSUME WideCounters, TrackInv, FlushMark
    PROVE  TrackInv'
<1>1. PICK x \in Counters : /\ x = NextMark(cblk.flush, cblk.rear)
                            /\ Masked(x) = Masked(cblk.rear)
  BY NextMarkIs, Zenon DEF TrackInv, Types, CblkType
<1>2. cblk' = [cblk EXCEPT !.flush = x]
  BY <1>1, Zenon DEF FlushMark
<1>3. /\ cblk' \in CblkType
      /\ cblk'.front = cblk.front /\ cblk'.rear = cblk.rear
      /\ cblk'.stop = cblk.stop /\ cblk'.flush = x
  BY <1>2, Zenon DEF TrackInv, Types, CblkType
<1>4. app.state = "FLUSHED" /\ StopAhead = Filled /\ FilledInRange(Filled)
  BY Zenon DEF FlushMark, TrackInv, CallOK, RingOK
<1>5. /\ Filled' = Filled /\ StopAhead' = StopAhead /\ StopSet' = StopSet
  BY <1>3, Zenon DEF FlushMark, Filled, StopAhead, StopSet
<1>6. FlushAhead' = Filled
  <2>1. Ahead(cblk.front, cblk.rear) = Filled
    BY <1>4, AheadOfRear, Zenon DEF Filled, TrackInv, Types, CblkType
  <2> QED
    BY <1>1, <1>3, <2>1, Zenon DEF FlushAhead, Ahead
<1>7. MarkOK'
  BY <1>3, <1>5, Zenon DEF FlushMark, TrackInv, MarkOK
<1>8. app' \in AppType /\ app'.call = "flush" /\ app'.state = "FLUSHED"
  BY <1>4, Zenon DEF FlushMark, TrackInv, Types, AppType
<1>9. Filled \in Int
  BY FilledIs, Zenon DEF TrackInv
<1>10. RingOK'
  BY <1>4, <1>5, <1>6, <1>9 DEF FlushMark, TrackInv, RingOK
<1>11. ReadOK' /\ CallOK'
  BY <1>3, <1>4, <1>5, <1>6, <1>8, Zenon DEF FlushMark, TrackInv, ReadOK, CallOK,
     Stopped
<1> QED
  BY <1>3, <1>7, <1>8, <1>10, <1>11, Zenon DEF FlushMark, TrackInv, Types

-----------------------------------------------------------------------------
(* flushBufferIfNeeded: mFront moves forward to a pending flush mark, which *)
(* is not beyond a stop mark that is set.                                   *)
LEMMA FlushApplied ==
    ASSUME WideCounters, TrackInv, NEW last \in Counters,
           last \in {proxy.stopLast, cblk.stop}, FlushBufferIfNeeded(last)
    PROVE  /\ cblk' \in CblkType /\ cblk'.rear = cblk.rear
           /\ cblk'.stop = cblk.stop /\ cblk'.flush = cblk.flush
           /\ writer' \in WriterType
           /\ writer'.pc = "write" => writer' = writer
           /\ proxy' \in ProxyType
           /\ proxy'.flush = cblk.flush /\ proxy'.stopLast = last
           /\ \E n \in Nat :
                 /\ n <= Filled /\ Filled' = Filled - n
                 /\ StopSet => n <= StopAhead /\ StopAhead' = StopAhead - n
                 /\ safe_sub(cblk'.front, cblk.front) = n
           /\ FlushSet => Masked(cblk'.front) = Masked(cblk.flush)
<1>1. /\ cblk.front \in Counters /\ cblk.rear \in Counters
      /\ cblk.stop \in Counters /\ cblk.flush \in Counters
      /\ FilledInRange(Filled) /\ Filled \in Nat
      /\ FilledInRange(safe_sub(cblk.rear, cblk.front))
      /\ StopAhead \in Nat /\ FlushAhead \in Nat
  BY FilledIs DEF TrackInv, Types, CblkType, RingOK, Filled, FilledInRange
<1>2. CASE ~FlushSet
  <2>1. /\ proxy' = [proxy EXCEPT !.stopLast = last]
        /\ UNCHANGED <<cblk, writer>> /\ cblk.flush = proxy.flush
    BY <1>2, Zenon DEF FlushBufferIfNeeded, FlushSet
  <2>2. /\ proxy' \in ProxyType
        /\ proxy'.flush = cblk.flush /\ proxy'.stopLast = last
    BY <2>1, Zenon DEF TrackInv, Types, ProxyType
  <2>3. Filled' = Filled /\ StopAhead' = StopAhead
    BY <2>1, Zenon DEF Filled, StopAhead
  <2>4. safe_sub(cblk.front, cblk.front) = 0
    <3>1. /\ 0 \in Nat /\ 0 <= safe_sub(cblk.rear, cblk.front)
      BY <1>1 DEF Filled
    <3>2. Add(cblk.front, 0) = cblk.front
      <4>1. Width \in Nat /\ cblk.front \in 0 .. Width - 1
        BY <1>1, RingFacts, Zenon DEF Counters
      <4> QED
        BY <4>1 DEF Add
    <3> QED
      BY <1>1, <3>1, <3>2, FrontMoves, Zenon
  <2> QED
    BY <1>1, <1>2, <2>1, <2>2, <2>3, <2>4 DEF TrackInv, Types
<1>3. CASE FlushSet
  <2>1. FlushAhead <= Filled /\ (StopSet => FlushAhead <= StopAhead)
    BY <1>3, Zenon DEF TrackInv, RingOK
  <2>2. PICK n \in Nat : n = FlushAhead
    BY <1>1, Zenon
  <2>3. PICK g : g = Add(cblk.front, n)
    OBVIOUS
  <2>4. n <= safe_sub(cblk.rear, cblk.front)
    BY <2>1, <2>2, Zenon DEF Filled
  <2>5. /\ g \in Counters
        /\ safe_sub(cblk.rear, g) = safe_sub(cblk.rear, cblk.front) - n
        /\ safe_sub(g, cblk.front) = n
        /\ n <= Ahead(cblk.front, cblk.stop) =>
              Ahead(g, cblk.stop) = Ahead(cblk.front, cblk.stop) - n
        /\ n <= Ahead(cblk.front, cblk.flush) =>
              Ahead(g, cblk.flush) = Ahead(cblk.front, cblk.flush) - n
    BY <1>1, <2>3, <2>4, FrontMoves
  <2>6. FlushFront(cblk.front, cblk.rear, cblk.flush) = g
    BY <1>1, <2>2, <2>3, <2>4, FlushFrontIs, Zenon DEF FlushAhead
  <2>7. PICK x \in Int : x = Raised(cblk.futex)
    BY DEF TrackInv, Types, CblkType, Raised, WakeBit
  <2>8. cblk' = [cblk EXCEPT !.front = g, !.futex = x]
    BY <1>3, <2>6, <2>7, Zenon DEF FlushBufferIfNeeded, FlushSet
  <2>9. cblk' = [front |-> g, rear |-> cblk.rear, stop |-> cblk.stop,
                 flush |-> cblk.flush, size |-> cblk.size, futex |-> x,
                 flags |-> cblk.flags]
    BY <2>8, Zenon DEF TrackInv, Types, CblkType
  <2>10. cblk' \in CblkType
    BY <2>5, <2>9, Zenon DEF TrackInv, Types, CblkType
  <2>11. /\ cblk'.front = g /\ cblk'.rear = cblk.rear
         /\ cblk'.stop = cblk.stop /\ cblk'.flush = cblk.flush
    BY <2>9, Zenon
  <2>12. /\ proxy' \in ProxyType
         /\ proxy'.flush = cblk.flush /\ proxy'.stopLast = last
    BY <1>1, <1>3, Zenon DEF TrackInv, Types, ProxyType, FlushBufferIfNeeded, FlushSet
  <2>13. writer' = writer \/ writer' = Woken(writer)
    BY <1>3, Zenon DEF FlushBufferIfNeeded, FlushSet, ServerWakes
  <2>14. /\ writer' \in WriterType
         /\ writer'.pc = "write" => writer' = writer
    BY <2>13, WokenType, Zenon DEF TrackInv, Types
  <2>15. Filled' = Filled - n
    BY <2>5, <2>11, Zenon DEF Filled
  <2>16. StopSet => n <= StopAhead /\ StopAhead' = StopAhead - n
    BY <2>1, <2>2, <2>5, <2>11, Zenon DEF StopAhead
  <2>17. Masked(g) = Masked(cblk.flush)
    <3>1. Ahead(g, cblk.flush) = 0
      BY <2>2, <2>5 DEF FlushAhead
    <3>2. /\ Masked(g) \in 0 .. overflowBit - 1
          /\ Masked(cblk.flush) \in 0 .. overflowBit - 1
      BY <1>1, <2>5, Parts, Zenon
    <3>3. \/ 0 = Masked(cblk.flush) - Masked(g)
          \/ 0 = Masked(cblk.flush) - Masked(g) + overflowBit
      BY <1>1, <2>5, <3>1, AheadIs, Zenon
    <3>4. overflowBit \in Nat
      BY RingFacts, Zenon
    <3> QED
      BY <3>2, <3>3, <3>4
  <2> QED
    BY <2>1, <2>2, <2>5, <2>10, <2>11, <2>12, <2>14, <2>15, <2>16, <2>17, Zenon
<1> QED
  BY <1>2, <1>3, Zenon

(* A read begins, for prepareTracks_l or for the mix. *)
LEMMA FlushThenStopInv ==
    ASSUME WideCounters, TrackInv, Prepare \/ GetNextBuffer
    PROVE  TrackInv'
<1>1. PICK use \in {"prepare", "obtain"} : FlushThenStop(use) /\ track.active
  BY Zenon DEF Prepare, GetNextBuffer, TrackInv, ReadOK
<1>2. proxy.stopLast \in Counters
  BY Zenon DEF TrackInv, Types, ProxyType
<1>3. FlushBufferIfNeeded(proxy.stopLast)
  BY <1>1, Zenon DEF FlushThenStop
<1>4. /\ cblk' \in CblkType /\ cblk'.rear = cblk.rear
      /\ cblk'.stop = cblk.stop /\ cblk'.flush = cblk.flush
      /\ writer' \in WriterType
      /\ writer'.pc = "write" => writer' = writer
      /\ proxy' \in ProxyType
      /\ proxy'.flush = cblk.flush /\ proxy'.stopLast = proxy.stopLast
  BY <1>2, <1>3, FlushApplied, Zenon
<1>5. PICK n \in Nat :
         /\ n <= Filled /\ Filled' = Filled - n
         /\ StopSet => n <= StopAhead /\ StopAhead' = StopAhead - n
  BY <1>2, <1>3, FlushApplied, Zenon
<1>6. StopSet' = StopSet /\ ~FlushSet'
  BY <1>4, Zenon DEF StopSet, FlushSet
<1>7. mixer' \in MixerType /\ mixer'.pc = "stop" /\ mixer'.flush = cblk.flush
  BY <1>1, Zenon DEF FlushThenStop, TrackInv, Types, MixerType, CblkType
<1>8. Filled \in Int /\ StopAhead \in Nat /\ FrameCount \in Nat
  BY FilledIs, RingFacts, Zenon DEF TrackInv
<1>9. RingOK'
  BY <1>4, <1>5, <1>6, <1>7, <1>8 DEF TrackInv, RingOK, FilledInRange, Types,
     WriterType
<1>10. ReadOK'
  BY <1>1, <1>4, <1>7, Zenon DEF ReadOK, FlushThenStop
<1>11. CallOK'
  <2>1. app.state \in Stopped => StopSet
    BY Zenon DEF TrackInv, CallOK
  <2> QED
    BY <1>1, <1>5, <1>6, <1>8, <2>1, Zenon DEF TrackInv, CallOK, FlushThenStop, Stopped
<1>12. MarkOK'
  BY <1>4, <1>6, Zenon DEF TrackInv, MarkOK
<1> QED
  BY <1>1, <1>4, <1>7, <1>9, <1>10, <1>11, <1>12, Zenon DEF TrackInv, Types,
     FlushThenStop

-----------------------------------------------------------------------------
(* Track::reset leaves the track where it is. *)
LEMMA ResetType ==
    ASSUME NEW t \in TrackType
    PROVE  Reset(t) \in TrackType /\ Reset(t).active = t.active
BY Zenon DEF TrackType, Reset

(* Track::stop and Track::pause do not touch the ring. *)
LEMMA HandleStopInv ==
    ASSUME TrackInv, HandleStop \/ HandlePause
    PROVE  TrackInv'
<1>1. track' \in TrackType /\ track'.active = track.active
  <2>1. CASE HandleStop
    <3>1. Reset(track) \in TrackType /\ Reset(track).active = track.active
      BY ResetType, Zenon DEF TrackInv, Types
    <3>2. PICK t \in TrackType :
             /\ t.active = track.active
             /\ track' = [t EXCEPT !.state = "STOPPED"] \/ track' = track
      <4>1. CASE track' = track
        BY <4>1, Zenon DEF TrackInv, Types
      <4>2. CASE track' = [track EXCEPT !.state = "STOPPED"]
        BY <4>2, Zenon DEF TrackInv, Types
      <4>3. CASE track' = [Reset(track) EXCEPT !.state = "STOPPED"]
        BY <3>1, <4>3, Zenon
      <4> QED
        BY <2>1, <4>1, <4>2, <4>3, Zenon DEF HandleStop
    <3> QED
      BY <3>2, Zenon DEF TrackInv, Types, TrackType
  <2>2. CASE HandlePause
    BY <2>2, Zenon DEF HandlePause, TrackInv, Types, TrackType
  <2> QED
    BY <2>1, <2>2, Zenon
<1>2. /\ app' \in AppType /\ app'.call = "none" /\ app'.state = app.state
      /\ app.call # "start"
  BY Zenon DEF HandleStop, HandlePause, Binder, CallDone, TrackInv, Types, AppType
<1>3. UNCHANGED <<cblk, writer, proxy, mixer, shutdown>>
  BY Zenon DEF HandleStop, HandlePause
<1>4. Same
  BY <1>3, StillIsSame, Zenon DEF Still
<1> QED
  BY <1>1, <1>2, <1>3, <1>4, Zenon DEF TrackInv, Types, Same, RingOK, ReadOK, CallOK

(* Track::flush: a track that the mixer may be reading keeps its flush mark *)
(* for the mixer.                                                           *)
LEMMA HandleFlushInv ==
    ASSUME WideCounters, TrackInv, HandleFlush
    PROVE  TrackInv'
<1>1. track' \in TrackType /\ track'.active = track.active
  BY Zenon DEF HandleFlush, Reset, TrackInv, Types, TrackType
<1>2. /\ app' \in AppType /\ app'.call = "none" /\ app'.state = app.state
      /\ app.call # "start"
  BY Zenon DEF HandleFlush, Binder, CallDone, TrackInv, Types, AppType
<1>3. UNCHANGED <<mixer, shutdown>>
  BY Zenon DEF HandleFlush
<1>4. CASE track.active
  <2>1. UNCHANGED <<cblk, writer, proxy>>
    BY <1>4, Zenon DEF HandleFlush
  <2>2. Same
    BY <2>1, StillIsSame, Zenon DEF Still
  <2> QED
    BY <1>1, <1>2, <1>3, <2>1, <2>2, Zenon DEF TrackInv, Types, Same, RingOK, ReadOK,
       CallOK
<1>5. CASE ~track.active
  <2>1. mixer.pc = "idle"
    BY <1>5, Zenon DEF TrackInv, ReadOK
  <2>2. proxy.stopLast \in Counters
    BY Zenon DEF TrackInv, Types, ProxyType
  <2>3. FlushBufferIfNeeded(proxy.stopLast)
    BY <1>5, Zenon DEF HandleFlush
  <2>4. /\ cblk' \in CblkType /\ cblk'.rear = cblk.rear
        /\ cblk'.stop = cblk.stop /\ cblk'.flush = cblk.flush
        /\ writer' \in WriterType
        /\ writer'.pc = "write" => writer' = writer
        /\ proxy' \in ProxyType
        /\ proxy'.flush = cblk.flush /\ proxy'.stopLast = proxy.stopLast
    BY <2>2, <2>3, FlushApplied, Zenon
  <2>5. PICK n \in Nat :
           /\ n <= Filled /\ Filled' = Filled - n
           /\ StopSet => n <= StopAhead /\ StopAhead' = StopAhead - n
    BY <2>2, <2>3, FlushApplied, Zenon
  <2>6. StopSet' = StopSet /\ ~FlushSet'
    BY <2>4, Zenon DEF StopSet, FlushSet
  <2>7. Filled \in Int /\ StopAhead \in Nat /\ FrameCount \in Nat
    BY FilledIs, RingFacts, Zenon DEF TrackInv
  <2>8. RingOK'
    BY <1>3, <2>1, <2>4, <2>5, <2>6, <2>7 DEF TrackInv, RingOK, FilledInRange,
       Types, WriterType
  <2>9. ReadOK' /\ CallOK'
    BY <1>2, <1>3, <2>1, <2>6, Zenon DEF TrackInv, ReadOK, CallOK
  <2>10. MarkOK'
    BY <2>4, <2>6, Zenon DEF TrackInv, MarkOK
  <2> QED
    BY <1>1, <1>2, <1>3, <2>4, <2>8, <2>9, <2>10, Zenon DEF TrackInv, Types
<1> QED
  BY <1>4, <1>5, Zenon

(* Track::start: the stop mark is taken down, and only a track that the    *)
(* mixer does not read has its flush applied by the binder thread.         *)
LEMMA TrackStartInv ==
    ASSUME WideCounters, TrackInv, NEW ok \in BOOLEAN, TrackStart(ok),
           UNCHANGED mixer, app.call \in {"start", "restart"},
           app' \in AppType, app'.call = "none",
           IF ok THEN app'.state = "ACTIVE"
                 ELSE app'.state = IF app.call = "start" THEN app.prev
                                   ELSE app.state
    PROVE  TrackInv'
<1>1. app.state = "ACTIVE"
  BY Zenon DEF TrackInv, CallOK
<1>2. /\ cblk.stop \in Counters /\ proxy.stopLast \in Counters
      /\ Filled \in Int /\ StopAhead \in Nat /\ FrameCount \in Nat
  BY FilledIs, RingFacts, Zenon DEF TrackInv, Types, CblkType, ProxyType
<1>3. /\ app'.state \in Stopped => StopSet /\ ~ok
      /\ app'.state = "ACTIVE" => ok \/ ~StopSet
  BY <1>1, Zenon DEF TrackInv, CallOK, Stopped
<1>4. CASE track.active /\ ok
  <2>1. UNCHANGED <<cblk, writer, shutdown>>
    BY <1>4, Zenon DEF TrackStart
  <2>2. track' \in TrackType /\ track'.active
    BY <1>4, Zenon DEF TrackStart, Reset, TrackInv, Types, TrackType
  <2>3. proxy' \in ProxyType /\ proxy'.stopLast = cblk.stop
          /\ proxy'.flush = proxy.flush
    BY <1>2, <1>4, Zenon DEF TrackStart, TrackInv, Types, ProxyType
  <2>4. ~StopSet' /\ FlushSet' = FlushSet
    BY <2>1, <2>3, Zenon DEF StopSet, FlushSet
  <2>5. Filled' = Filled /\ FlushAhead' = FlushAhead
    BY <2>1, Zenon DEF Filled, FlushAhead
  <2>6. RingOK'
    BY <2>1, <2>4, <2>5, Zenon DEF TrackInv, RingOK
  <2>7. ReadOK'
    BY <1>1, <2>1, <2>2, <2>3, Zenon DEF TrackInv, ReadOK
  <2>8. CallOK'
    BY <1>3, <1>4, <2>4, Zenon DEF CallOK
  <2>9. MarkOK'
    BY <2>1, <2>4, Zenon DEF TrackInv, MarkOK
  <2> QED
    BY <2>1, <2>2, <2>3, <2>6, <2>7, <2>8, <2>9, Zenon DEF TrackInv, Types
<1>5. CASE ~track.active
  <2>1. mixer.pc = "idle"
    BY <1>5, Zenon DEF TrackInv, ReadOK
  <2>2. PICK last \in Counters : last = IF ok THEN cblk.stop ELSE proxy.stopLast
    BY <1>2, Zenon
  <2>3. AckFlush(last)
    BY <1>5, <2>2, Zenon DEF TrackStart
  <2>4. FlushBufferIfNeeded(last)
    BY <2>3, Zenon DEF AckFlush
  <2>5. last \in {proxy.stopLast, cblk.stop}
    BY <2>2, Zenon
  <2>6. /\ cblk' \in CblkType /\ cblk'.rear = cblk.rear
        /\ cblk'.stop = cblk.stop /\ cblk'.flush = cblk.flush
        /\ writer' \in WriterType
        /\ writer'.pc = "write" => writer' = writer
        /\ proxy' \in ProxyType
        /\ proxy'.flush = cblk.flush /\ proxy'.stopLast = last
    BY <2>4, <2>5, FlushApplied, Zenon
  <2>7. PICK n \in Nat :
           /\ n <= Filled /\ Filled' = Filled - n
           /\ StopSet => n <= StopAhead /\ StopAhead' = StopAhead - n
    BY <2>4, <2>5, FlushApplied, Zenon
  <2>8. ~FlushSet' /\ (StopSet' => StopSet /\ last = proxy.stopLast)
          /\ (IF ok THEN ~StopSet' ELSE StopSet' = StopSet)
    BY <2>2, <2>5, <2>6, Zenon DEF StopSet, FlushSet
  <2>9. RingOK'
    BY <1>2, <2>1, <2>6, <2>7, <2>8 DEF TrackInv, RingOK, FilledInRange,
       Types, WriterType
  <2>10. ReadOK'
    BY <2>1, Zenon DEF ReadOK
  <2>11. CallOK'
    BY <1>3, <2>8, Zenon DEF CallOK
  <2>12. MarkOK'
    BY <2>6, <2>8, Zenon DEF TrackInv, MarkOK
  <2>13. shutdown' = {}
    <3>1. /\ FilledInRange(Filled') /\ StopSet' => StopAhead' <= Filled'
      BY <2>9, Zenon DEF RingOK
    <3>2. /\ cblk'.front \in Counters /\ cblk'.rear \in Counters
          /\ cblk'.stop \in Counters
      BY <2>6, Zenon DEF CblkType
    <3>3. /\ FilledInRange(safe_sub(cblk'.rear, cblk'.front))
          /\ cblk'.stop # last => Ahead(cblk'.front, cblk'.stop)
                                    <= safe_sub(cblk'.rear, cblk'.front)
      BY <2>6, <2>9, Zenon DEF RingOK, Filled, StopSet, StopAhead
    <3>4. safe_sub(GetRear(cblk'.front, cblk'.rear, cblk'.stop, last), cblk'.front)
            = IF cblk'.stop # last THEN Ahead(cblk'.front, cblk'.stop)
              ELSE safe_sub(cblk'.rear, cblk'.front)
      BY <3>2, <3>3, GetRearIs
    <3>5. ServerFilled(cblk', cblk.stop, last)
            = IF StopSet' THEN StopAhead' ELSE Filled'
      BY <2>6, <3>4, Zenon DEF ServerFilled, StopSet, StopAhead, Filled
    <3>6. FilledInRange(ServerFilled(cblk', cblk.stop, last))
      BY <1>2, <2>7, <2>8, <2>9, <3>5 DEF RingOK, FilledInRange
    <3> QED
      BY <2>3, <3>6, Zenon DEF AckFlush, TrackInv
  <2>14. track' \in TrackType
    <3>1. CASE ok
      <4>1. PICK s \in {"RESUMING", "ACTIVE"} :
               s = IF track.state \in {"PAUSED", "PAUSING"}
                   THEN "RESUMING" ELSE "ACTIVE"
        OBVIOUS
      <4>2. track' = [state |-> s, active |-> TRUE, filling |-> "FILLING",
                      resetDone |-> FALSE, retries |-> MaxTrackRetries]
        BY <1>5, <3>1, <4>1, Zenon DEF TrackStart
      <4>3. MaxTrackRetries \in Int
        BY TrackAssumption
      <4> QED
        BY <4>2, <4>3, Zenon DEF TrackType
    <3>2. CASE ~ok
      BY <1>5, <3>2, Zenon DEF TrackStart, Reset, TrackInv, Types, TrackType
    <3> QED
      BY <3>1, <3>2, Zenon
  <2> QED
    BY <2>6, <2>9, <2>10, <2>11, <2>12, <2>13, <2>14, Zenon DEF TrackInv, Types
<1> QED
  BY <1>4, <1>5, Zenon DEF TrackStart

(* start and restart, as the binder threads run them. *)
LEMMA HandleStartInv ==
    ASSUME WideCounters, TrackInv, HandleStart \/ HandleRestart
    PROVE  TrackInv'
<1>1. CASE HandleStart
  <2>1. PICK ok \in BOOLEAN :
           /\ TrackStart(ok)
           /\ app' = [state |-> IF ok THEN app.state ELSE app.prev,
                      prev |-> "none", call |-> "none"]
    BY <1>1, Zenon DEF HandleStart
  <2>2. app.call = "start" /\ app.state = "ACTIVE" /\ app.prev # "none"
    BY <1>1, Zenon DEF HandleStart, Binder, TrackInv, CallOK
  <2>3. /\ app' \in AppType /\ app'.call = "none"
        /\ app'.state = IF ok THEN "ACTIVE" ELSE app.prev
    BY <2>1, <2>2, Zenon DEF TrackInv, Types, AppType
  <2> QED
    BY <1>1, <2>1, <2>2, <2>3, TrackStartInv, Zenon DEF HandleStart
<1>2. CASE HandleRestart
  <2>1. PICK ok \in BOOLEAN : TrackStart(ok)
    BY <1>2, Zenon DEF HandleRestart
  <2>2. app.call = "restart" /\ app.state = "ACTIVE"
    BY <1>2, Zenon DEF HandleRestart, Binder, TrackInv, CallOK
  <2>3. app' \in AppType /\ app'.call = "none" /\ app'.state = "ACTIVE"
    BY <1>2, <2>2, Zenon DEF HandleRestart, CallDone, TrackInv, Types, AppType
  <2> QED
    BY <1>2, <2>1, <2>2, <2>3, TrackStartInv, Zenon DEF HandleRestart
<1> QED
  BY <1>1, <1>2, Zenon

-----------------------------------------------------------------------------
(* What the server may read at the end of its loads is in range, and goes  *)
(* up to a stop mark that is still the one the read has loaded.            *)
LEMMA ReadableIs ==
    ASSUME WideCounters, TrackInv, mixer.pc = "rear"
    PROVE  /\ FilledInRange(Readable) /\ Readable \in Nat
           /\ FramesReady = Readable
           /\ mixer.stop = cblk.stop =>
                 Readable = IF StopSet THEN StopAhead ELSE Filled
<1>1. /\ cblk.front \in Counters /\ cblk.rear \in Counters
      /\ cblk.stop \in Counters /\ proxy.stopLast \in Counters
      /\ mixer.stop \in Counters
      /\ FilledInRange(safe_sub(cblk.rear, cblk.front))
  BY Zenon DEF TrackInv, Types, CblkType, ProxyType, MixerType, RingOK, Filled
<1>2. FilledInRange(Readable)
  BY <1>1, GetRearInRange, Zenon DEF Readable, ServerFilled
<1>3. Readable \in Nat
  <2>1. Readable \in Int
    <3>1. GetRear(cblk.front, cblk.rear, mixer.stop, proxy.stopLast) \in Counters
      BY <1>1, GetRearType, Zenon
    <3> QED
      BY <1>1, <3>1, SubIs, Zenon DEF Readable, ServerFilled
  <2> QED
    BY <1>2, <2>1 DEF FilledInRange
<1>4. ASSUME mixer.stop = cblk.stop
      PROVE  Readable = IF StopSet THEN StopAhead ELSE Filled
  <2>1. cblk.stop # proxy.stopLast =>
           Ahead(cblk.front, cblk.stop) <= safe_sub(cblk.rear, cblk.front)
    BY Zenon DEF TrackInv, RingOK, StopSet, StopAhead, Filled
  <2> QED
    BY <1>1, <1>4, <2>1, GetRearIs DEF Readable, ServerFilled, StopSet, StopAhead,
       Filled
<1> QED
  BY <1>2, <1>3, <1>4, Zenon DEF FramesReady, TrackInv

(* The load of mStop, and the end of a mix. *)
LEMMA LoadStopInv ==
    ASSUME TrackInv, LoadStop \/ MixComplete
    PROVE  TrackInv'
<1>1. UNCHANGED <<cblk, app, writer, proxy, track, shutdown>>
  BY Zenon DEF LoadStop, MixComplete
<1>2. Same
  BY <1>1, StillIsSame, Zenon DEF Still
<1>3. /\ mixer' \in MixerType
      /\ \/ mixer.pc = "stop" /\ mixer'.pc = "rear" /\ mixer'.flush = mixer.flush
         \/ mixer'.pc = "idle"
  <2>1. CASE LoadStop
    BY <2>1, Zenon DEF LoadStop, TrackInv, Types, MixerType, CblkType
  <2>2. CASE MixComplete
    <3>1. mixer' = [pc |-> "idle", use |-> "prepare", flush |-> 0, stop |-> 0,
                    n |-> 0]
      BY <2>2, Zenon DEF MixComplete, Idle
    <3>2. 0 \in Counters
      BY RingAssumption DEF Counters
    <3> QED
      BY <3>1, <3>2, Zenon DEF MixerType
  <2> QED
    BY <2>1, <2>2, Zenon
<1> QED
  BY <1>1, <1>2, <1>3, Zenon DEF TrackInv, Types, Same, RingOK, ReadOK, CallOK

(* prepareTracks_l, whatever it decides. *)
LEMMA PrepareTracksInv ==
    ASSUME WideCounters, TrackInv, PrepareTracks
    PROVE  TrackInv'
<1>1. shutdown' = {} /\ UNCHANGED <<app, proxy>>
  BY ReadableIs, Zenon DEF PrepareTracks, NotesCorruption, TrackInv
<1>2. 0 \in Counters
  BY RingAssumption DEF Counters
<1>3. track.active /\ track.retries \in Int /\ MaxTrackRetries \in Int
  BY TrackAssumption DEF PrepareTracks, TrackInv, Types, TrackType, ReadOK
<1>4. PICK minFrames \in MinFrames :
         \/ PrepareReady(minFrames)
         \/ (PrepareDrained \/ PrepareUnderrun) /\ mixer' = Idle
  BY Zenon DEF PrepareTracks
<1>5. CASE PrepareReady(minFrames)
  <2>1. mixer' \in MixerType /\ mixer'.pc = "mix"
    <3>1. mixer' = [pc |-> "mix", use |-> "obtain", flush |-> 0, stop |-> 0,
                    n |-> 0]
      BY <1>5, Zenon DEF PrepareReady, Idle
    <3> QED
      BY <1>2, <3>1 DEF MixerType
  <2>2. track' \in TrackType /\ track'.active
    <3>1. PICK f \in {"FILLING", "FILLED", "ACTIVE"},
               s \in {"IDLE", "ACTIVE", "RESUMING", "PAUSING", "PAUSED",
                      "STOPPED", "FLUSHED"} :
             track' = [track EXCEPT !.filling = f, !.retries = MaxTrackRetries,
                                    !.state = s]
      BY <1>5, Zenon DEF PrepareReady, TrackInv, Types, TrackType
    <3>2. track' = [state |-> s, active |-> track.active, filling |-> f,
                    retries |-> MaxTrackRetries, resetDone |-> track.resetDone]
      BY <3>1, Zenon DEF TrackInv, Types, TrackType
    <3> QED
      BY <1>3, <3>2, Zenon DEF TrackInv, Types, TrackType
  <2>3. UNCHANGED <<cblk, writer>>
    BY <1>5, Zenon DEF PrepareReady
  <2>4. Same
    BY <1>1, <2>3, StillIsSame, Zenon DEF Still
  <2> QED
    BY <1>1, <2>1, <2>2, <2>3, <2>4, Zenon DEF TrackInv, Types, Same, RingOK, ReadOK,
       CallOK
<1>6. CASE (PrepareDrained \/ PrepareUnderrun) /\ mixer' = Idle
  <2>1. mixer' \in MixerType /\ mixer'.pc = "idle"
    BY <1>2, <1>6, Zenon DEF MixerType, Idle
  <2>2. /\ cblk' \in CblkType /\ Same /\ writer' \in WriterType
        /\ writer'.pc = "write" => writer' = writer
    <3>1. CASE UNCHANGED <<cblk, writer>>
      BY <1>1, <3>1, StillIsSame, Zenon DEF Still, TrackInv, Types
    <3>2. CASE /\ cblk' = [cblk EXCEPT !.flags = @ \union {"DISABLED"},
                                       !.futex = SIGNALLED]
               /\ writer' = Woken(writer)
      <4>1. cblk' = [front |-> cblk.front, rear |-> cblk.rear,
                     stop |-> cblk.stop, flush |-> cblk.flush,
                     size |-> cblk.size, futex |-> SIGNALLED,
                     flags |-> cblk.flags \union {"DISABLED"}]
        BY <3>2, Zenon DEF TrackInv, Types, CblkType
      <4>2. cblk' \in CblkType
        BY <4>1 DEF TrackInv, Types, CblkType, SIGNALLED
      <4>3. Same
        BY <1>1, <4>1, StillIsSame, Zenon DEF Still
      <4> QED
        BY <3>2, <4>2, <4>3, WokenType, Zenon DEF TrackInv
    <3> QED
      BY <1>6, <3>1, <3>2, Zenon DEF PrepareDrained, PrepareUnderrun
  <2>3. track' \in TrackType
    <3>1. CASE PrepareDrained
      BY <3>1, Zenon DEF PrepareDrained, Reset, TrackInv, Types, TrackType
    <3>2. CASE PrepareUnderrun
      <4>1. PICK r \in Int : r = track.retries - 1
        BY <1>3
      <4>2. PICK a \in BOOLEAN : a = (track.retries > 1)
        <5>1. (track.retries > 1) \in BOOLEAN
          OBVIOUS
        <5> QED
          BY <5>1, Zenon
      <4>3. track' = [track EXCEPT !.retries = r, !.active = a]
        BY <3>2, <4>1, <4>2, Zenon DEF PrepareUnderrun
      <4>4. track' = [state |-> track.state, active |-> a,
                      filling |-> track.filling, retries |-> r,
                      resetDone |-> track.resetDone]
        BY <4>3, Zenon DEF TrackInv, Types, TrackType
      <4> QED
        BY <4>4, Zenon DEF TrackInv, Types, TrackType
    <3> QED
      BY <1>6, <3>1, <3>2, Zenon
  <2> QED
    BY <1>1, <2>1, <2>2, <2>3, Zenon DEF TrackInv, Types, Same, RingOK, ReadOK, CallOK
<1> QED
  BY <1>4, <1>5, <1>6, Zenon

(* ServerProxy::obtainBuffer hands out no more than may be read. *)
LEMMA Obtained ==
    ASSUME WideCounters, TrackInv, ServerObtain
    PROVE  \/ mixer' = Idle
           \/ /\ mixer' \in MixerType /\ mixer'.pc = "read"
              /\ mixer'.n <= Readable
<1>1. Readable \in Nat /\ FramesReady = Readable /\ cblk.front \in Counters
  BY ReadableIs, Zenon DEF ServerObtain, TrackInv, Types, CblkType
<1>2. 0 \in Counters
  BY RingAssumption DEF Counters
<1>3. PICK ask \in 1 .. MixFrames :
         mixer' = IF Part1(cblk.front, FramesReady, ask) = 0 THEN Idle
                  ELSE [Idle EXCEPT !.pc = "read", !.use = "obtain",
                           !.n = Part1(cblk.front, FramesReady, ask)]
  BY Zenon DEF ServerObtain
<1>4. PICK n : n = Part1(cblk.front, FramesReady, ask)
  OBVIOUS
<1>5. n \in Nat /\ n <= Readable
  <2>1. ask \in Nat
    BY TrackAssumption
  <2> QED
    BY <1>1, <1>4, <2>1, Part1Is, Zenon
<1>6. CASE mixer' # Idle
  <2>1. mixer' = [Idle EXCEPT !.pc = "read", !.use = "obtain", !.n = n]
    BY <1>3, <1>4, <1>6, Zenon
  <2>2. mixer' = [pc |-> "read", use |-> "obtain", flush |-> 0, stop |-> 0, n |-> n]
    BY <2>1, Zenon DEF Idle
  <2> QED
    BY <1>2, <1>5, <2>2 DEF MixerType
<1> QED
  BY <1>6, Zenon

(* A read that is not overtaken and obtains frames has the stop mark that  *)
(* is set, and an unseen flush is bounded by it.                           *)
LEMMA ObtainsUpToDate ==
    ASSUME WideCounters, TrackInv, ServerObtain, ~overtaken', mixer' # Idle
    PROVE  /\ mixer.stop = cblk.stop
           /\ FlushSet => StopSet /\ FlushAhead = StopAhead
<1>1. ~Overtaken
  BY Zenon DEF ServerObtain
<1>2. mixer.flush = proxy.flush
  BY Zenon DEF ServerObtain, TrackInv, ReadOK
<1>3. FlushSet => StopSet /\ Masked(cblk.stop) = Masked(cblk.flush)
  BY <1>1, <1>2, Zenon DEF Overtaken, FlushSet, StopSet
<1> QED
  BY <1>1, <1>3, Zenon DEF Overtaken, FlushAhead, StopAhead, Ahead

(* ServerProxy::obtainBuffer, when its read is not overtaken *)
LEMMA ServerObtainInv ==
    ASSUME WideCounters, TrackInv, ServerObtain, ~overtaken'
    PROVE  TrackInv'
<1>1. shutdown' = {} /\ UNCHANGED <<cblk, app, writer, track>>
  BY ReadableIs, Zenon DEF ServerObtain, NotesCorruption, TrackInv
<1>2. /\ proxy' \in ProxyType /\ proxy'.flush = proxy.flush
      /\ proxy'.stopLast = proxy.stopLast
  <2>1. FrameCount - FramesReady \in Int
    BY ReadableIs, RingFacts DEF ServerObtain
  <2>2. PICK a : proxy' = [proxy EXCEPT !.avail = a] /\ a \in Int
    <3>1. PICK ask \in 1 .. MixFrames :
             proxy' = [proxy EXCEPT !.avail =
                         IF Part1(cblk.front, FramesReady, ask) = 0 THEN 0
                         ELSE FrameCount - FramesReady]
      BY Zenon DEF ServerObtain
    <3>2. PICK a \in Int :
             a = IF Part1(cblk.front, FramesReady, ask) = 0 THEN 0
                 ELSE FrameCount - FramesReady
      BY <2>1
    <3> QED
      BY <3>1, <3>2, Zenon
  <2> QED
    BY <2>2, Zenon DEF TrackInv, Types, ProxyType
<1>3. Same
  BY <1>1, <1>2, StillIsSame, Zenon DEF Still
<1>4. \/ mixer' = Idle
      \/ /\ mixer' \in MixerType /\ mixer'.pc = "read" /\ mixer'.n <= Readable
  BY Obtained, Zenon
<1>5. mixer' # Idle => Readable = IF StopSet THEN StopAhead ELSE Filled
  BY ReadableIs, ObtainsUpToDate, Zenon DEF ServerObtain
<1>6. track.active /\ mixer.pc = "rear"
  BY Zenon DEF ServerObtain, TrackInv, ReadOK
<1>7. mixer' # Idle => (FlushSet => StopSet /\ FlushAhead = StopAhead)
  BY ObtainsUpToDate, Zenon
<1>8. Filled \in Int /\ StopAhead \in Nat /\ (StopSet => StopAhead <= Filled)
  BY FilledIs, Zenon DEF TrackInv, RingOK
<1>9. CASE mixer' = Idle
  <2>1. mixer' \in MixerType /\ mixer'.pc = "idle"
    BY <1>9, RingAssumption DEF Idle, MixerType, Counters
  <2> QED
    BY <1>1, <1>2, <1>3, <2>1, Zenon DEF TrackInv, Types, Same, RingOK, ReadOK, CallOK
<1>10. CASE mixer' \in MixerType /\ mixer'.pc = "read" /\ mixer'.n <= Readable
  <2>1. mixer' # Idle
    BY <1>10 DEF Idle
  <2>2. /\ mixer'.n <= Filled /\ (StopSet => mixer'.n <= StopAhead)
        /\ (FlushSet => mixer'.n <= FlushAhead)
    BY <1>5, <1>7, <1>8, <1>10, <2>1 DEF MixerType, TrackInv, RingOK
  <2> QED
    BY <1>1, <1>2, <1>3, <1>6, <1>10, <2>2, Zenon DEF TrackInv, Types, Same, RingOK,
       ReadOK, CallOK
<1> QED
  BY <1>4, <1>9, <1>10, Zenon

(* ServerProxy::releaseBuffer *)
LEMMA ServerReleaseInv ==
    ASSUME WideCounters, TrackInv, ServerRelease
    PROVE  TrackInv' /\ safe_sub(cblk'.front, cblk.front) = mixer.n
<1>1. /\ cblk.front \in Counters /\ cblk.rear \in Counters
      /\ cblk.stop \in Counters /\ cblk.flush \in Counters
      /\ FilledInRange(safe_sub(cblk.rear, cblk.front)) /\ mixer.n \in Nat
      /\ mixer.n <= safe_sub(cblk.rear, cblk.front)
  BY Zenon DEF ServerRelease, TrackInv, Types, CblkType, MixerType, RingOK, Filled
<1>2. PICK n \in Nat : n = mixer.n
  BY <1>1, Zenon
<1>3. PICK g : g = Add(cblk.front, n)
  OBVIOUS
<1>4. /\ g \in Counters
      /\ safe_sub(cblk.rear, g) = safe_sub(cblk.rear, cblk.front) - n
      /\ safe_sub(g, cblk.front) = n
      /\ \A x \in Counters : n <= Ahead(cblk.front, x) =>
            Ahead(g, x) = Ahead(cblk.front, x) - n
  BY <1>1, <1>2, <1>3, FrontMoves
<1>5. PICK x \in Int : cblk' = [cblk EXCEPT !.front = g, !.futex = x]
  <2>1. /\ cblk.futex \in Int /\ Raised(cblk.futex) \in Int
    BY DEF TrackInv, Types, CblkType, Raised, WakeBit
  <2>2. PICK x \in Int : x = IF proxy.avail + mixer.n >= WakeMinimum
                             THEN Raised(cblk.futex) ELSE cblk.futex
    BY <2>1, Zenon
  <2> QED
    BY <1>2, <1>3, <2>2, Zenon DEF ServerRelease
<1>6. cblk' = [front |-> g, rear |-> cblk.rear, stop |-> cblk.stop,
               flush |-> cblk.flush, size |-> cblk.size, futex |-> x,
               flags |-> cblk.flags]
  BY <1>5, Zenon DEF TrackInv, Types, CblkType
<1>7. /\ cblk'.front = g /\ cblk'.rear = cblk.rear
      /\ cblk'.stop = cblk.stop /\ cblk'.flush = cblk.flush
  BY <1>6, Zenon
<1>8. cblk' \in CblkType
  BY <1>4, <1>6, Zenon DEF TrackInv, Types, CblkType
<1>9. /\ proxy' \in ProxyType /\ proxy'.flush = proxy.flush
      /\ proxy'.stopLast = proxy.stopLast
  BY DEF ServerRelease, TrackInv, Types, ProxyType
<1>10. /\ writer' \in WriterType
       /\ writer'.pc = "write" => writer' = writer
  <2>1. writer' = writer \/ writer' = Woken(writer)
    BY Zenon DEF ServerRelease, ServerWakes
  <2> QED
    BY <2>1, WokenType, Zenon DEF TrackInv, Types
<1>11. mixer' \in MixerType /\ mixer'.pc = "mixed"
  BY Zenon DEF ServerRelease, TrackInv, Types, MixerType
<1>12. StopSet' = StopSet /\ FlushSet' = FlushSet
  BY <1>7, <1>9, Zenon DEF StopSet, FlushSet
<1>13. /\ Filled' = Filled - n /\ n <= Filled
       /\ StopSet => n <= StopAhead /\ StopAhead' = StopAhead - n
       /\ FlushSet => n <= FlushAhead /\ FlushAhead' = FlushAhead - n
  <2>1. Filled' = Filled - n /\ n <= Filled
    BY <1>1, <1>2, <1>4, <1>7, Zenon DEF Filled
  <2>2. /\ StopSet => n <= StopAhead
        /\ FlushSet => n <= FlushAhead
    BY <1>2, Zenon DEF ServerRelease, TrackInv, RingOK
  <2> QED
    BY <1>1, <1>4, <1>7, <2>1, <2>2, Zenon DEF StopAhead, FlushAhead
<1>14. /\ Filled \in Int /\ StopAhead \in Nat /\ FlushAhead \in Nat
       /\ FrameCount \in Nat
  BY FilledIs, RingFacts, Zenon DEF TrackInv
<1>15. RingOK'
  BY <1>10, <1>11, <1>12, <1>13, <1>14 DEF TrackInv, RingOK, FilledInRange,
     Types, WriterType
<1>16. ReadOK' /\ track.active
  BY <1>11, Zenon DEF ServerRelease, TrackInv, ReadOK
<1>17. CallOK'
  BY <1>12, <1>13, <1>14, Zenon DEF ServerRelease, TrackInv, CallOK, Stopped
<1>18. MarkOK'
  BY <1>7, <1>9, <1>12, Zenon DEF TrackInv, MarkOK
<1>19. safe_sub(cblk'.front, cblk.front) = mixer.n
  BY <1>2, <1>4, <1>7, Zenon
<1> QED
  BY <1>8, <1>9, <1>10, <1>11, <1>15, <1>16, <1>17, <1>18, <1>19, Zenon
     DEF ServerRelease, TrackInv, Types

-----------------------------------------------------------------------------
(* Every step keeps the invariant, but one of an overtaken read. *)
LEMMA TrackNextInv ==
    ASSUME WideCounters, MarksFit, TrackInv, [Next]_vars, ~overtaken'
    PROVE  TrackInv'
<1>1. CASE Client
  BY <1>1, ObtainBufferInv, ObtainAgainInv, CheckFlagsInv, CheckAvailInv, FutexInv,
     ReleaseBufferInv, Zenon DEF Client
<1>2. CASE Control
  BY <1>2, PlainCallInv, StopInv, FlushMarkInv, Zenon DEF Control
<1>3. CASE Handler
  BY <1>3, HandleStartInv, HandleStopInv, HandleFlushInv, Zenon DEF Handler
<1>4. CASE Mixer
  BY <1>4, FlushThenStopInv, LoadStopInv, PrepareTracksInv, ServerObtainInv,
     ServerReleaseInv, Zenon DEF Mixer
<1>5. CASE UNCHANGED vars
  <2>1. /\ UNCHANGED <<cblk, app, writer, proxy, track, mixer, shutdown>>
    BY <1>5, Zenon DEF vars
  <2>2. Same
    BY <2>1, StillIsSame, Zenon DEF Still
  <2> QED
    BY <2>1, <2>2 DEF TrackInv, Types, Same, RingOK, ReadOK, CallOK
<1> QED
  BY <1>1, <1>2, <1>3, <1>4, <1>5, Zenon DEF Next

(* The server's flush never moves mFront back. *)
LEMMA FlushNeverBack ==
    ASSUME WideCounters, TrackInv, NEW last \in Counters,
           last \in {proxy.stopLast, cblk.stop}, FlushBufferIfNeeded(last)
    PROVE  safe_sub(cblk'.front, cblk.front) >= 0
<1>1. PICK n \in Nat : safe_sub(cblk'.front, cblk.front) = n
  BY FlushApplied, Zenon
<1>2. n >= 0
  BY SMT
<1> QED
  BY <1>1, <1>2, Zenon

(* A step that leaves mFront alone does not move it back either. *)
LEMMA StaysPut ==
    ASSUME WideCounters, TrackInv, cblk'.front = cblk.front
    PROVE  safe_sub(cblk'.front, cblk.front) >= 0
<1>1. PICK f \in Counters : f = cblk.front
  BY Zenon DEF TrackInv, Types, CblkType
<1>2. f \in Int /\ Width \in Nat /\ Width > 0
  BY <1>1, RingFacts DEF Counters
<1>3. safe_sub(f, f) = 0
  <2>1. /\ safe_sub(f, f) \in {f - f, f - f - Width, f - f + Width}
        /\ -Width <= 2 * safe_sub(f, f) /\ 2 * safe_sub(f, f) < Width
    BY SubIs, Zenon
  <2> QED
    BY <1>2, <2>1
<1> QED
  BY <1>1, <1>3

(* The client's steps leave mFront alone. *)
LEMMA ClientLeavesFront ==
    ASSUME TrackInv, Client \/ Control
    PROVE  cblk'.front = cblk.front
<1>1. cblk \in CblkType
  BY Zenon DEF TrackInv, Types
<1>2. CASE ReleaseBuffer
  <2>1. PICK k : cblk' = cblk \/ RestartIfDisabled([cblk EXCEPT !.rear = Add(@, k)])
    BY <1>2, Zenon DEF ReleaseBuffer
  <2>2. PICK r : r = Add(cblk.rear, k)
    OBVIOUS
  <2>3. PICK c : c = [cblk EXCEPT !.rear = r]
    OBVIOUS
  <2>4. cblk' = cblk \/ RestartIfDisabled(c)
    BY <2>1, <2>2, <2>3, Zenon
  <2>5. cblk' = cblk \/ cblk' = [c EXCEPT !.flags = @ \ {"DISABLED"}]
    BY <2>4, Zenon DEF RestartIfDisabled
  <2> QED
    BY <1>1, <2>3, <2>5, Zenon DEF CblkType
<1>3. CASE Stop
  <2>1. PICK s : s = NextMark(cblk.stop, cblk.rear)
    OBVIOUS
  <2>2. PICK c : c = [cblk EXCEPT !.stop = s]
    OBVIOUS
  <2>3. cblk' = Interrupted(c)
    BY <1>3, <2>1, <2>2, Zenon DEF Stop
  <2> QED
    BY <1>1, <2>2, <2>3, Zenon DEF CblkType, Interrupted
<1>4. CASE Client /\ ~ReleaseBuffer
  BY <1>1, <1>4, Zenon DEF Client, ObtainBuffer, ObtainAgain, RestartIfDisabled,
     CheckFlags, CheckAvail, FutexDown, FutexWait, FutexTimeout, CblkType
<1>5. CASE Control /\ ~Stop
  BY <1>1, <1>5, Zenon DEF Control, Start, Pause, Interrupted, Flush, FlushMark,
     SetBufferSizeInFrames, CblkType
<1> QED
  BY <1>2, <1>3, <1>4, <1>5, Zenon DEF Client, Control

(* No step moves mFront back. *)
LEMMA FrontNeverBack ==
    ASSUME WideCounters, TrackInv, Next
    PROVE  safe_sub(cblk'.front, cblk.front) >= 0
<1>1. proxy.stopLast \in Counters /\ cblk.stop \in Counters
  BY Zenon DEF TrackInv, Types, ProxyType, CblkType
<1>2. CASE Client \/ Control
  BY <1>2, ClientLeavesFront, StaysPut, Zenon
<1>3. CASE HandleStart \/ HandleRestart
  <2>1. PICK ok \in BOOLEAN : TrackStart(ok)
    BY <1>3, Zenon DEF HandleStart, HandleRestart
  <2>2. \/ cblk' = cblk
        \/ \E last \in {proxy.stopLast, cblk.stop} : FlushBufferIfNeeded(last)
    BY <2>1, Zenon DEF TrackStart, AckFlush
  <2> QED
    BY <1>1, <2>2, StaysPut, FlushNeverBack, Zenon
<1>4. CASE HandleStop \/ HandlePause \/ LoadStop \/ MixComplete \/ ServerObtain
  BY <1>4, StaysPut, Zenon DEF HandleStop, HandlePause, LoadStop, MixComplete,
     ServerObtain
<1>5. CASE HandleFlush
  <2>1. cblk' = cblk \/ FlushBufferIfNeeded(proxy.stopLast)
    BY <1>5, Zenon DEF HandleFlush
  <2> QED
    BY <1>1, <2>1, StaysPut, FlushNeverBack, Zenon
<1>6. CASE Prepare \/ GetNextBuffer
  <2>1. FlushBufferIfNeeded(proxy.stopLast)
    BY <1>6, Zenon DEF Prepare, GetNextBuffer, FlushThenStop
  <2> QED
    BY <1>1, <2>1, FlushNeverBack, Zenon
<1>7. CASE PrepareTracks
  <2>1. cblk'.front = cblk.front
    BY <1>7, Zenon DEF PrepareTracks, PrepareReady, PrepareDrained, PrepareUnderrun,
       TrackInv, Types, CblkType
  <2> QED
    BY <2>1, StaysPut, Zenon
<1>8. CASE ServerRelease
  <2>1. safe_sub(cblk'.front, cblk.front) = mixer.n /\ mixer.n \in Nat
    BY <1>8, ServerReleaseInv, Zenon DEF TrackInv, Types, MixerType
  <2> QED
    BY <2>1
<1> QED
  BY <1>2, <1>3, <1>4, <1>5, <1>6, <1>7, <1>8, Zenon DEF Next, Handler, Mixer

(* Only the last load of obtainBuffer hands the mixer a buffer. *)
LEMMA OnlyServerObtainReads ==
    ASSUME TrackInv, Next, mixer'.pc = "read", mixer.pc # "read"
    PROVE  ServerObtain
<1>1. mixer \in MixerType
  BY Zenon DEF TrackInv, Types
<1>2. CASE Client \/ Control \/ Handler
  <2>1. UNCHANGED mixer
    BY <1>2, Zenon DEF Client, ObtainBuffer, ObtainAgain, CheckFlags, CheckAvail,
       FutexDown, FutexWait, FutexTimeout, ReleaseBuffer, Control, Start, Stop, Pause,
       Flush, FlushMark, SetBufferSizeInFrames, Handler, HandleStart, HandleRestart,
       HandleStop, HandlePause, HandleFlush
  <2> QED
    BY <2>1, Zenon
<1>3. CASE Prepare \/ GetNextBuffer \/ LoadStop
  BY <1>1, <1>3, Zenon DEF Prepare, GetNextBuffer, FlushThenStop, LoadStop, MixerType
<1>4. CASE MixComplete \/ ServerRelease
  BY <1>1, <1>4 DEF MixComplete, ServerRelease, Idle, MixerType
<1>5. CASE PrepareTracks
  <2>1. \/ mixer' = Idle
        \/ mixer' = [Idle EXCEPT !.pc = "mix", !.use = "obtain"]
    <3>1. mixer' = Idle \/ \E minFrames \in MinFrames : PrepareReady(minFrames)
      BY <1>5, Zenon DEF PrepareTracks
    <3> QED
      BY <3>1, Zenon DEF PrepareReady
  <2>2. Idle.pc = "idle" /\ [Idle EXCEPT !.pc = "mix", !.use = "obtain"].pc = "mix"
    BY DEF Idle
  <2> QED
    BY <2>1, <2>2, Zenon
<1> QED
  BY <1>2, <1>3, <1>4, <1>5, Zenon DEF Next, Mixer

(* A flush that the server takes note of leaves mFront at its position. *)
LEMMA FlushLands ==
    ASSUME WideCounters, TrackInv, Next, proxy'.flush # proxy.flush
    PROVE  Masked(cblk'.front) = Masked(proxy'.flush)
<1>1. proxy.stopLast \in Counters /\ cblk.stop \in Counters /\ proxy \in ProxyType
  BY Zenon DEF TrackInv, Types, ProxyType, CblkType
<1>2. ASSUME NEW last \in {proxy.stopLast, cblk.stop}, FlushBufferIfNeeded(last)
      PROVE  Masked(cblk'.front) = Masked(proxy'.flush)
  <2>1. proxy'.flush = cblk.flush /\ (FlushSet => Masked(cblk'.front) = Masked(cblk.flush))
    BY <1>1, <1>2, FlushApplied, Zenon
  <2> QED
    BY <2>1, Zenon DEF FlushSet
<1>3. CASE Client \/ Control \/ HandleStop \/ HandlePause \/ LoadStop
             \/ PrepareTracks \/ MixComplete
  BY <1>3, Zenon DEF Client, ObtainBuffer, ObtainAgain, CheckFlags, CheckAvail,
     FutexDown, FutexWait, FutexTimeout, ReleaseBuffer, Control, Start, Stop, Pause,
     Flush, FlushMark, SetBufferSizeInFrames, HandleStop, HandlePause, LoadStop,
     PrepareTracks, MixComplete
<1>4. CASE HandleStart \/ HandleRestart
  <2>1. PICK ok \in BOOLEAN : TrackStart(ok)
    BY <1>4, Zenon DEF HandleStart, HandleRestart
  <2>2. \/ \E last : proxy' = [proxy EXCEPT !.stopLast = last]
        \/ \E last \in {proxy.stopLast, cblk.stop} : FlushBufferIfNeeded(last)
    BY <2>1, Zenon DEF TrackStart, AckFlush
  <2> QED
    BY <1>1, <1>2, <2>2, Zenon DEF ProxyType
<1>5. CASE HandleFlush \/ Prepare \/ GetNextBuffer
  <2>1. proxy' = proxy \/ FlushBufferIfNeeded(proxy.stopLast)
    BY <1>5, Zenon DEF HandleFlush, Prepare, GetNextBuffer, FlushThenStop
  <2> QED
    BY <1>2, <2>1, Zenon
<1>6. CASE ServerObtain \/ ServerRelease
  <2>1. \E a : proxy' = [proxy EXCEPT !.avail = a]
    BY <1>6, Zenon DEF ServerObtain, ServerRelease
  <2> QED
    BY <1>1, <2>1, Zenon DEF ProxyType
<1> QED
  BY <1>3, <1>4, <1>5, <1>6, Zenon DEF Next, Handler, Mixer

(* What obtainBuffer hands out when its read is not overtaken: nothing past *)
(* the mark of a stop or a flush, and nothing at all of a started track     *)
(* whose flush is still to be applied.                                      *)
LEMMA ObtainsRight ==
    ASSUME WideCounters, TrackInv, Next, ~overtaken',
           mixer'.pc = "read", mixer.pc # "read"
    PROVE  /\ app.state \in Stopped => mixer'.n <= StopAhead
           /\ app.state = "ACTIVE" /\ app.call # "start" => proxy.flush = cblk.flush
<1>1. ServerObtain /\ mixer.pc = "rear" /\ mixer' # Idle
  <2>1. ServerObtain
    BY OnlyServerObtainReads, Zenon
  <2>2. mixer' # Idle
    BY DEF Idle
  <2> QED
    BY <2>1, <2>2, Zenon DEF ServerObtain
<1>2. mixer'.n <= Readable
  BY <1>1, Obtained, Zenon
<1>3. Readable = IF StopSet THEN StopAhead ELSE Filled
  BY <1>1, ReadableIs, ObtainsUpToDate, Zenon
<1>4. app.state \in Stopped => StopSet
  BY Zenon DEF TrackInv, CallOK
<1>5. app.state = "ACTIVE" /\ app.call # "start" => ~FlushSet
  BY <1>1, ObtainsUpToDate, Zenon DEF TrackInv, CallOK
<1> QED
  BY <1>2, <1>3, <1>4, <1>5, Zenon DEF FlushSet

(* The history never forgets. *)
LEMMA OvertakenStays ==
    ASSUME [Next]_vars, ~overtaken'
    PROVE  ~overtaken
<1>1. CASE Client \/ Control \/ UNCHANGED vars
  BY <1>1, Zenon DEF Client, ObtainBuffer, ObtainAgain, CheckFlags, CheckAvail,
     FutexDown, FutexWait, FutexTimeout, ReleaseBuffer, Control, Start, Stop, Pause,
     Flush, FlushMark, SetBufferSizeInFrames, vars
<1>2. CASE Handler
  BY <1>2, Zenon DEF Handler, HandleStart, HandleRestart, HandleStop, HandlePause,
     HandleFlush
<1>3. CASE Mixer
  BY <1>3, Zenon DEF Mixer, Prepare, GetNextBuffer, FlushThenStop, LoadStop,
     PrepareTracks, MixComplete, ServerObtain, ServerRelease
<1> QED
  BY <1>1, <1>2, <1>3, Zenon DEF Next

-----------------------------------------------------------------------------
(* What the proxies, the calls and the mixer keep, at every step until a    *)
(* read is overtaken.                                                       *)
LEMMA TrackInvariant ==
    ASSUME WideCounters, MarksFit
    PROVE  Spec => [](~overtaken => TrackInv)
<1>1. Init => (~overtaken => TrackInv)
  BY TrackInitInv, Zenon
<1>2. (~overtaken => TrackInv) /\ [Next]_vars => (~overtaken => TrackInv)'
  BY TrackNextInv, OvertakenStays, Zenon
<1> QED
  BY <1>1, <1>2, PTL DEF Spec

(***************************************************************************)
(* Neither proxy ever finds 0 <= rear - front <= mFrameCount broken: the   *)
(* frames in the ring stay in range and nobody shuts the control block     *)
(* down, for every ring size and width of the counters that leave room for *)
(* the sign, with every wrap of mFront and mRear, every flush and stop     *)
(* mark, and every restart, until one of the calls overtakes a read.       *)
(***************************************************************************)
THEOREM TrackNeverCorrupt ==
    ASSUME WideCounters, MarksFit
    PROVE  Spec => []NeverCorrupt
<1>1. (~overtaken => TrackInv) => NeverCorrupt
  BY Zenon DEF TrackInv, RingOK, NeverCorrupt
<1> QED
  BY <1>1, TrackInvariant, PTL

(***************************************************************************)
(* The frames that ServerProxy::obtainBuffer gave to the mixer were        *)
(* published, and no slot of them is one that ClientProxy::obtainBuffer    *)
(* gave to the writer, until a call overtakes a read.                      *)
(***************************************************************************)
THEOREM TrackFramesNotTorn ==
    ASSUME WideCounters, MarksFit
    PROVE  Spec => []NoTornFrames
<1>1. (~overtaken => TrackInv) => NoTornFrames
  <2>1. SUFFICES ASSUME TrackInv, mixer.pc = "read"
                 PROVE  /\ mixer.n <= Filled
                        /\ writer.pc = "write" =>
                              Slots(cblk.front, mixer.n) \intersect
                                  Slots(cblk.rear, writer.n) = {}
    BY Zenon DEF NoTornFrames
  <2>2. mixer.n <= Filled
    BY <2>1, Zenon DEF TrackInv, RingOK
  <2>3. /\ cblk.front \in Counters /\ cblk.rear \in Counters
        /\ mixer.n \in Nat /\ writer.n \in Nat
    BY <2>1, Zenon DEF TrackInv, Types, CblkType, MixerType, WriterType
  <2>4. /\ FilledInRange(safe_sub(cblk.rear, cblk.front))
        /\ mixer.n <= safe_sub(cblk.rear, cblk.front)
        /\ writer.pc = "write" =>
              writer.n + safe_sub(cblk.rear, cblk.front) <= FrameCount
    BY <2>1, <2>2, Zenon DEF TrackInv, RingOK, Filled
  <2> QED
    BY <2>2, <2>3, <2>4, SlotsApart, Zenon
<1> QED
  BY <1>1, TrackInvariant, PTL

(***************************************************************************)
(* After AudioTrack::stop or flush a read that is not overtaken, and that  *)
(* follows none that was, hands out no frame behind the stop mark,         *)
(* although the writer may go on writing.                                  *)
(***************************************************************************)
THEOREM TrackStopHolds ==
    ASSUME WideCounters, MarksFit
    PROVE  Spec => StopHolds
<1>1. (~overtaken => TrackInv) /\ [Next]_vars => [overtaken' \/ WithinStop]_vars
  BY ObtainsRight, OvertakenStays, Zenon DEF WithinStop, StopAhead, Ahead
<1> QED
  BY <1>1, TrackInvariant, PTL DEF Spec, StopHolds

(***************************************************************************)
(* No frame is played twice, none that was flushed is played after the     *)
(* next start, and none written after the flush is lost, until a call      *)
(* overtakes a read: mFront never moves back, an applied flush leaves it   *)
(* at the mark, and a started track is not read before that.               *)
(***************************************************************************)
THEOREM TrackStaleNotPlayed ==
    ASSUME WideCounters, MarksFit
    PROVE  Spec => StaleNotPlayed
<1>1. (~overtaken => TrackInv) /\ [Next]_vars =>
         [\/ overtaken'
          \/ /\ safe_sub(cblk'.front, cblk.front) >= 0
             /\ proxy'.flush # proxy.flush =>
                   Masked(cblk'.front) = Masked(proxy'.flush)
             /\ mixer'.pc = "read" /\ mixer.pc # "read" /\ app.state = "ACTIVE" /\
                app.call # "start" => proxy.flush = cblk.flush]_vars
  BY FrontNeverBack, FlushLands, ObtainsRight, OvertakenStays, Zenon
<1> QED
  BY <1>1, TrackInvariant, PTL DEF Spec, StaleNotPlayed
=============================================================================
