---------------------------- MODULE LayoutProofs ----------------------------
(***************************************************************************)
(* What the arithmetic of Layout computes, for every width of a word:      *)
(* the powers of two, rounding up, alignment and the sizes of a shard.     *)
(* Nothing here refers to a state; ArenaProofs builds on it.               *)
(***************************************************************************)
EXTENDS Layout, TLAPS, WellFoundedInduction

(* A set of naturals that is not empty has a least element: induction in   *)
(* the form of a least counterexample.                                     *)
LEMMA Least ==
  ASSUME NEW S, S \subseteq Nat, S # {}
  PROVE  \E m \in S : \A k \in S : m <= k
  <1> DEFINE R == {ss \in Nat \X Nat : ss[1] < ss[2]}
  <1>1. IsWellFoundedOn(R, Nat)
    BY NatLessThanWellFounded DEF OpToRel
  <1>2. \A k, m \in Nat : k < m => <<k, m>> \in R
    OBVIOUS
  <1> HIDE DEF R
  <1>3. PICK m \in S : \A k \in S : ~(<<k, m>> \in R)
    BY <1>1, WFMin
  <1>4. \A k \in S : m <= k
    <2> TAKE k \in S
    <2>1. k \in Nat /\ m \in Nat /\ ~(k < m)
      BY <1>2, <1>3
    <2> QED BY <2>1
  <1> QED BY <1>4

-----------------------------------------------------------------------------
(* Powers of two.                                                          *)

(* 2^i is a positive natural.                                              *)
LEMMA PowerPositive ==
  \A i \in 0 .. Width : 2 ^ i \in Nat /\ 2 ^ i >= 1
  <1> DEFINE Bad == {i \in 0 .. Width : ~(2 ^ i \in Nat /\ 2 ^ i >= 1)}
  <1>1. Bad \subseteq Nat /\ Width \in Nat
    BY LayoutAssumption
  <1>2. ASSUME Bad # {} PROVE FALSE
    <2>1. PICK m \in Bad : \A k \in Bad : m <= k
      BY <1>1, <1>2, Least
    <2>2. CASE m = 0
      <3>1. 2 ^ 0 = 1
        OBVIOUS
      <3> QED BY <2>1, <2>2, <3>1
    <2>3. CASE m # 0
      <3>1. m - 1 \in 0 .. Width - 1 /\ m - 1 \in 0 .. Width /\ ~(m <= m - 1) /\ (m - 1) + 1 = m
        BY <1>1, <2>1, <2>3
      <3>2. 2 ^ (m - 1) \in Nat /\ 2 ^ (m - 1) >= 1
        BY <2>1, <3>1
      <3>3. 2 ^ m = 2 * 2 ^ (m - 1)
        BY <3>1, PowersAssumption
      <3>4. 2 ^ m \in Nat /\ 2 ^ m >= 1
        BY <3>2, <3>3
      <3> QED BY <2>1, <3>4
    <2> QED BY <2>2, <2>3
  <1> QED BY <1>2

(* Exponents add.                                                          *)
LEMMA PowerSum ==
  ASSUME NEW a \in Nat
  PROVE  \A b \in Nat : a + b <= Width => 2 ^ (a + b) = 2 ^ a * 2 ^ b
  <1> DEFINE Bad == {b \in Nat : a + b <= Width /\ ~(2 ^ (a + b) = 2 ^ a * 2 ^ b)}
  <1>1. Bad \subseteq Nat /\ Width \in Nat
    BY LayoutAssumption
  <1>2. ASSUME Bad # {} PROVE FALSE
    <2>1. PICK m \in Bad : \A k \in Bad : m <= k
      BY <1>1, <1>2, Least
    <2>2. m \in Nat /\ a + m <= Width /\ a \in 0 .. Width /\ 2 ^ a \in Nat
      BY <1>1, <2>1, PowerPositive
    <2>3. CASE m = 0
      <3>1. 2 ^ 0 = 1 /\ a + 0 = a
        OBVIOUS
      <3> QED BY <2>1, <2>2, <2>3, <3>1
    <2>4. CASE m # 0
      <3>1. PICK n \in Nat : m = n + 1
        BY <2>2, <2>4
      <3>2. /\ n \in 0 .. Width - 1 /\ n \in 0 .. Width /\ a + n \in 0 .. Width - 1 /\ a + n \in 0 .. Width
            /\ ~(m <= n) /\ a + n <= Width /\ (a + n) + 1 = a + m
        BY <1>1, <2>2, <3>1
      <3>3. 2 ^ (a + n) = 2 ^ a * 2 ^ n
        BY <2>1, <3>2
      <3>4. 2 ^ (a + m) = 2 * 2 ^ (a + n) /\ 2 ^ m = 2 * 2 ^ n
        BY <3>1, <3>2, PowersAssumption
      <3>5. 2 ^ n \in Nat
        BY <3>2, PowerPositive
      <3> DEFINE x == 2 ^ a
                 y == 2 ^ n
      <3>6. x \in Nat /\ y \in Nat
        BY <2>2, <3>5
      <3> HIDE DEF x, y
      <3>7. 2 * (x * y) = x * (2 * y)
        BY <3>6
      <3>8. 2 ^ (a + m) = 2 ^ a * 2 ^ m
        BY <3>3, <3>4, <3>7 DEF x, y
      <3> QED BY <2>1, <3>8
    <2> QED BY <2>3, <2>4
  <1> QED BY <1>2

(* A larger exponent gives a larger power, a multiple of the smaller one.  *)
LEMMA PowerMultiple ==
  ASSUME NEW a \in Nat, NEW b \in Nat, a <= b, b <= Width
  PROVE  /\ 2 ^ b = 2 ^ (b - a) * 2 ^ a /\ 2 ^ a <= 2 ^ b
         /\ b - a \in Nat /\ 2 ^ a \in Nat \ {0} /\ 2 ^ (b - a) \in Nat \ {0} /\ 2 ^ b \in Nat \ {0}
  <1>1. Width \in Nat
    BY LayoutAssumption
  <1>2. b - a \in Nat /\ a + (b - a) = b /\ a \in 0 .. Width /\ b \in 0 .. Width /\ b - a \in 0 .. Width
    BY <1>1
  <1>3. 2 ^ b = 2 ^ a * 2 ^ (b - a)
    <2>1. a + (b - a) <= Width => 2 ^ (a + (b - a)) = 2 ^ a * 2 ^ (b - a)
      BY <1>2, PowerSum
    <2> QED BY <1>2, <2>1
  <1>4. 2 ^ a \in Nat \ {0} /\ 2 ^ (b - a) \in Nat \ {0} /\ 2 ^ b \in Nat \ {0}
    <2>1. \A i \in 0 .. Width : 2 ^ i \in Nat \ {0}
      BY PowerPositive
    <2> QED BY <1>2, <2>1
  <1> DEFINE x == 2 ^ a
             y == 2 ^ (b - a)
  <1>5. x \in Nat \ {0} /\ y \in Nat \ {0}
    BY <1>4
  <1> HIDE DEF x, y
  <1>6. x * y = y * x /\ x <= x * y
    BY <1>5
  <1> QED BY <1>2, <1>3, <1>4, <1>6 DEF x, y

(* A power of two that a word can hold divides the range of a word.        *)
LEMMA PowerDivides ==
  /\ Word \in Nat \ {0} /\ Powers \subseteq Nat \ {0}
  /\ \A p \in Powers : p < Word /\ \E k \in Nat : Word = k * p
  <1>1. Width \in Nat \ {0}
    BY LayoutAssumption
  <1>2. Word \in Nat \ {0}
    BY <1>1, PowerPositive DEF Word
  <1>3. ASSUME NEW p \in Powers
        PROVE  p \in Nat \ {0} /\ p < Word /\ \E k \in Nat : Word = k * p
    <2>1. PICK a \in 0 .. Width - 1 : p = 2 ^ a
      BY DEF Powers
    <2>2. a \in Nat /\ a <= Width /\ a + 1 \in Nat /\ a + 1 <= Width /\ Width \in Nat /\ Width <= Width
      BY <1>1, <2>1
    <2>3. Word = 2 ^ (Width - a) * p /\ 2 ^ (Width - a) \in Nat /\ p \in Nat \ {0}
      BY <2>1, <2>2, PowerMultiple DEF Word
    <2>4. 2 ^ (a + 1) <= Word
      BY <2>2, PowerMultiple DEF Word
    <2>5. 2 ^ (a + 1) = 2 * p
      BY <2>1, PowersAssumption
    <2>6. p < Word
      BY <1>2, <2>3, <2>4, <2>5
    <2> QED BY <2>3, <2>6
  <1> QED BY <1>2, <1>3

(* The product of two powers of two is one, if a word can hold it.         *)
LEMMA PowerProduct ==
  ASSUME NEW p \in Powers, NEW q \in Powers, p * q < Word
  PROVE  p * q \in Powers
  <1>1. PICK a \in 0 .. Width - 1 : p = 2 ^ a
    BY DEF Powers
  <1>2. PICK b \in 0 .. Width - 1 : q = 2 ^ b
    BY DEF Powers
  <1>3. Width \in Nat \ {0} /\ a \in Nat /\ b \in Nat /\ a <= Width /\ b <= Width
    BY LayoutAssumption, <1>1, <1>2
  <1>4. CASE a + b < Width
    <2>1. a + b <= Width /\ a + b \in 0 .. Width - 1
      BY <1>3, <1>4
    <2>2. 2 ^ (a + b) = p * q
      BY <1>1, <1>2, <1>3, <2>1, PowerSum
    <2> QED BY <2>1, <2>2 DEF Powers
  <1>5. CASE a + b >= Width
    <2>1. Width - a \in Nat /\ Width - a <= b /\ Width <= Width
      BY <1>3, <1>5
    <2> DEFINE c == Width - a
               x == 2 ^ c
    <2>2. Word = x * p /\ x \in Nat /\ p \in Nat
      BY <1>1, <1>3, <2>1, PowerMultiple DEF Word
    <2>3. x <= q /\ q \in Nat
      BY <1>2, <1>3, <2>1, PowerMultiple
    <2> HIDE DEF x
    <2>4. x * p <= p * q
      BY <2>2, <2>3
    <2>5. Word <= p * q /\ Word \in Nat /\ p * q \in Nat
      BY <2>2, <2>3, <2>4, PowerDivides
    <2> QED BY <2>5
  <1> QED BY <1>3, <1>4, <1>5

(* RoundUp, the loop of normalize, answers with a power of two that is not *)
(* below its argument and less than twice as large.                        *)
LEMMA RoundUpRounds ==
  ASSUME NEW n \in Nat, 1 <= n, n <= 2 ^ (Width - 1)
  PROVE  RoundUp(n) \in Powers /\ n <= RoundUp(n) /\ RoundUp(n) < 2 * n
  <1> DEFINE S == {m \in Powers : m >= n}
  <1>1. Width \in Nat \ {0} /\ 2 ^ (Width - 1) \in S /\ S \subseteq Nat
    BY LayoutAssumption, PowerDivides DEF Powers
  <1>2. PICK m \in S : \A k \in S : m <= k
    BY <1>1, Least
  <1>3. \E r \in Powers : r >= n /\ \A k \in Powers : k >= n => r <= k
    BY <1>2
  <1> DEFINE r == RoundUp(n)
  <1>4. r \in Powers /\ r >= n /\ \A k \in Powers : k >= n => r <= k
    BY <1>3 DEF RoundUp
  <1> HIDE DEF r
  <1>5. r \in Nat
    BY <1>4, PowerDivides
  <1>6. r < 2 * n
    <2>1. PICK a \in 0 .. Width - 1 : r = 2 ^ a
      BY <1>4 DEF Powers
    <2>2. CASE a = 0
      <3>1. r = 1
        BY <2>1, <2>2
      <3> QED BY <3>1
    <2>3. CASE a # 0
      <3>1. a - 1 \in 0 .. Width - 1 /\ (a - 1) + 1 = a
        BY <1>1, <2>1, <2>3
      <3> DEFINE h == 2 ^ (a - 1)
      <3>2. h \in Powers /\ r = 2 * h
        BY <2>1, <3>1, PowersAssumption DEF Powers
      <3> HIDE DEF h
      <3>3. h \in Nat \ {0}
        BY <3>2, PowerDivides
      <3>4. ~(r <= h)
        BY <3>2, <3>3
      <3>5. ~(h >= n)
        BY <1>4, <3>2, <3>4
      <3> QED BY <3>2, <3>3, <3>5
    <2> QED BY <2>2, <2>3
  <1> QED BY <1>4, <1>5, <1>6 DEF r

-----------------------------------------------------------------------------
(* Alignment.                                                              *)

(* Quotient and remainder.                                                 *)
LEMMA DivMod ==
  ASSUME NEW n \in Nat, NEW m \in Nat \ {0}
  PROVE  /\ n \div m \in Nat /\ n % m \in Nat /\ n % m < m
         /\ n = (n \div m) * m + (n % m)
  <1>1. n % m \in Nat /\ n % m < m
    OBVIOUS
  <1>2. n = (n \div m) * m + (n % m)
    BY SMTT(60)
  <1>3. n \div m \in Nat
    OBVIOUS
  <1> QED BY <1>1, <1>2, <1>3

(* Quotient and remainder are the only ones.                               *)
LEMMA DivModUnique ==
  ASSUME NEW m \in Nat \ {0}, NEW k \in Nat, NEW r \in Nat, r < m
  PROVE  (k * m + r) \div m = k /\ (k * m + r) % m = r
  <1>1. (k * m + r) \div m = k
    OBVIOUS
  <1>2. (k * m + r) % m = r
    OBVIOUS
  <1> QED BY <1>1, <1>2

(* The aligned numbers are the multiples of the alignment.                 *)
LEMMA AlignedMultiple ==
  ASSUME NEW n \in Nat, NEW m \in Nat \ {0}
  PROVE  isAligned(n, m) <=> \E k \in Nat : n = k * m
  <1>1. ASSUME isAligned(n, m) PROVE \E k \in Nat : n = k * m
    <2>1. n \div m \in Nat /\ n = (n \div m) * m + (n % m) /\ n % m = 0
      BY <1>1, DivMod DEF isAligned
    <2> DEFINE k == n \div m
    <2>2. k \in Nat /\ n = k * m + 0
      BY <2>1
    <2> HIDE DEF k
    <2>3. n = k * m
      BY <2>2
    <2> QED BY <2>2, <2>3
  <1>2. ASSUME NEW k \in Nat, n = k * m PROVE isAligned(n, m)
    <2>1. (k * m + 0) % m = 0
      BY DivModUnique
    <2>2. k * m + 0 = n
      BY <1>2
    <2> QED BY <2>1, <2>2 DEF isAligned
  <1> QED BY <1>1, <1>2

(* Sums and multiples of aligned numbers are aligned, and what is aligned  *)
(* to m is aligned to every number that m is aligned to.                   *)
LEMMA AlignedSum ==
  ASSUME NEW a \in Nat, NEW b \in Nat, NEW m \in Nat \ {0}, isAligned(a, m), isAligned(b, m)
  PROVE  isAligned(a + b, m)
  <1>1. PICK i \in Nat : a = i * m
    BY AlignedMultiple
  <1>2. PICK j \in Nat : b = j * m
    BY AlignedMultiple
  <1>3. a + b = (i + j) * m /\ i + j \in Nat /\ a + b \in Nat
    BY <1>1, <1>2
  <1> QED BY <1>3, AlignedMultiple

(* See AlignedSum.                                                         *)
LEMMA AlignedTimes ==
  ASSUME NEW a \in Nat, NEW c \in Nat, NEW m \in Nat \ {0}, isAligned(a, m)
  PROVE  isAligned(c * a, m)
  <1>1. PICK i \in Nat : a = i * m
    BY AlignedMultiple
  <1>2. c * a = (c * i) * m /\ c * i \in Nat /\ c * a \in Nat
    BY <1>1
  <1> QED BY <1>2, AlignedMultiple

(* See AlignedSum.                                                         *)
LEMMA AlignedThrough ==
  ASSUME NEW a \in Nat, NEW m \in Nat \ {0}, NEW d \in Nat \ {0}, isAligned(a, m), isAligned(m, d)
  PROVE  isAligned(a, d)
  <1>1. PICK i \in Nat : a = i * m
    BY AlignedMultiple
  <1>2. isAligned(i * m, d)
    BY AlignedTimes
  <1> QED BY <1>1, <1>2

(* alignUp answers with a multiple of the alignment, also when the sum in  *)
(* it wraps, and a multiple below Word leaves room for one more.           *)
LEMMA AlignUpAligned ==
  ASSUME NEW n \in Nat, NEW p \in Powers
  PROVE  alignUp(n, p) \in Nat /\ isAligned(alignUp(n, p), p) /\ alignUp(n, p) + p <= Word
  <1>1. p \in Nat \ {0} /\ Word \in Nat \ {0}
    BY PowerDivides
  <1>2. PICK k \in Nat : Word = k * p
    BY PowerDivides
  <1> DEFINE w == wrap(n + p - 1)
             q == w \div p
  <1>3. w \in Nat /\ w < Word
    <2>1. n + p - 1 \in Nat
      BY <1>1
    <2> QED BY <1>1, <2>1, DivMod DEF wrap
  <1>4. alignUp(n, p) = q * p
    BY DEF alignUp
  <1> HIDE DEF w
  <1>5. q \in Nat /\ w = q * p + (w % p) /\ w % p \in Nat
    BY <1>1, <1>3, DivMod
  <1> HIDE DEF q
  <1> DEFINE r == w % p
  <1>6. r \in Nat /\ w = q * p + r
    BY <1>5
  <1> HIDE DEF r
  <1>7. q * p \in Nat
    BY <1>1, <1>5
  <1>8. q * p < k * p
    BY <1>2, <1>3, <1>6, <1>7
  <1>9. q < k
    BY <1>1, <1>5, <1>8
  <1>10. q * p + p <= k * p
    BY <1>1, <1>5, <1>9
  <1>11. isAligned(q * p, p)
    BY <1>1, <1>5, <1>7, AlignedMultiple
  <1> QED BY <1>2, <1>4, <1>7, <1>10, <1>11

(* Without a wrap alignUp rounds up to the next multiple.                  *)
LEMMA AlignUpRounds ==
  ASSUME NEW n \in Nat, NEW p \in Powers, n + p - 1 < Word
  PROVE  n <= alignUp(n, p) /\ alignUp(n, p) < n + p
  <1>1. p \in Nat \ {0} /\ Word \in Nat \ {0}
    BY PowerDivides
  <1>2. n + p - 1 \in Nat
    BY <1>1
  <1>3. wrap(n + p - 1) = n + p - 1
    <2>1. (0 * Word + (n + p - 1)) % Word = n + p - 1
      BY <1>1, <1>2, DivModUnique
    <2>2. 0 * Word + (n + p - 1) = n + p - 1
      BY <1>1, <1>2
    <2> QED BY <2>1, <2>2 DEF wrap
  <1> DEFINE w == n + p - 1
             q == w \div p
             r == w % p
  <1>4. alignUp(n, p) = q * p
    BY <1>3 DEF alignUp
  <1>5. q \in Nat /\ r \in Nat /\ r < p /\ w = q * p + r
    BY <1>1, <1>2, DivMod
  <1> HIDE DEF q, r
  <1>6. q * p \in Nat
    BY <1>1, <1>5
  <1> QED BY <1>1, <1>4, <1>5, <1>6

(* A word holds every number below Word.                                   *)
LEMMA WrapExact ==
  ASSUME NEW n \in Nat, n < Word
  PROVE  wrap(n) = n
  <1>1. Word \in Nat \ {0}
    BY PowerDivides
  <1>2. (0 * Word + n) % Word = n
    BY <1>1, DivModUnique
  <1>3. 0 * Word + n = n
    BY <1>1
  <1> QED BY <1>2, <1>3 DEF wrap

-----------------------------------------------------------------------------
(* The sizes of a shard.                                                   *)

(* The sizes of a shard are the products they stand for, a cell has room   *)
(* for its header and payload, cells start at cache lines, and the number  *)
(* of buckets is a power of two.                                           *)
LEMMA SizesExact ==
  ASSUME NEW c, c.cells \in Powers, c.bpc \in Powers, c.payload \in Nat, Holds(c)
  PROVE  /\ cellStrideFor(c.payload) \in Nat
         /\ HeaderSize + c.payload <= cellStrideFor(c.payload)
         /\ isAligned(cellStrideFor(c.payload), CacheLineSize)
         /\ ringBytes(c.cells, c.payload) = c.cells * cellStrideFor(c.payload)
         /\ Buckets(c) = c.cells * c.bpc /\ isPow2(Buckets(c))
         /\ indexBytes(Buckets(c)) = Buckets(c) * IndexBucketSize
         /\ ringBytes(c.cells, c.payload) + indexBytes(Buckets(c)) + HugePageSize <= Word
  <1>1. /\ CacheLineSize \in Powers /\ CacheLineSize \in Nat \ {0} /\ HeaderSize \in Nat
        /\ IndexBucketSize \in Nat \ {0} /\ HugePageSize \in Nat \ {0} /\ Word \in Nat \ {0}
        /\ c.cells \in Nat \ {0} /\ c.bpc \in Nat \ {0}
    BY PowerDivides, LayoutAssumption
  <1> DEFINE n == c.cells
             b == c.bpc
             room == HeaderSize + c.payload
             st == cellStrideFor(c.payload)
  <1>2. /\ n \in Nat \ {0} /\ b \in Nat \ {0} /\ room \in Nat
        /\ n * (room + CacheLineSize) + (n * b) * IndexBucketSize + HugePageSize <= Word
    BY <1>1 DEF Holds
  <1> HIDE DEF n, b, room, st
  <1>3. n * b \in Nat \ {0} /\ (n * b) * IndexBucketSize \in Nat
    BY <1>1, <1>2
  <1>4. n * (room + CacheLineSize) \in Nat /\ room + CacheLineSize <= n * (room + CacheLineSize)
    BY <1>1, <1>2
  <1> DEFINE u == n * (room + CacheLineSize)
             v == (n * b) * IndexBucketSize
  <1>5. u \in Nat /\ v \in Nat /\ room + CacheLineSize <= u /\ u + v + HugePageSize <= Word
    BY <1>2, <1>3, <1>4
  <1>6. n * b <= v
    BY <1>1, <1>3
  <1> HIDE DEF u, v
  <1>7. room < Word /\ room + CacheLineSize - 1 < Word
    BY <1>1, <1>2, <1>5
  <1>8. st = alignUp(room, CacheLineSize)
    BY <1>2, <1>7, WrapExact DEF st, room, cellStrideFor
  <1>9. st \in Nat /\ isAligned(st, CacheLineSize) /\ room <= st /\ st < room + CacheLineSize
    BY <1>1, <1>2, <1>7, <1>8, AlignUpAligned, AlignUpRounds
  <1>10. n * st <= u /\ n * st \in Nat
    BY <1>1, <1>2, <1>9 DEF u
  <1>11. n * st < Word /\ n * b < Word /\ v < Word
    BY <1>1, <1>3, <1>5, <1>6, <1>10
  <1>12. ringBytes(c.cells, c.payload) = n * st
    BY <1>10, <1>11, WrapExact DEF ringBytes, n, st
  <1>13. Buckets(c) = n * b
    BY <1>3, <1>11, WrapExact DEF Buckets, n, b
  <1>14. isPow2(Buckets(c))
    BY <1>11, <1>13, PowerProduct DEF isPow2, n, b
  <1>15. indexBytes(Buckets(c)) = v
    BY <1>5, <1>11, <1>13, WrapExact DEF indexBytes, v
  <1>16. n * st + v + HugePageSize <= Word
    BY <1>1, <1>5, <1>10
  <1>17. v = Buckets(c) * IndexBucketSize
    BY <1>13 DEF v
  <1> QED BY <1>9, <1>12, <1>13, <1>14, <1>15, <1>16, <1>17 DEF n, b, room, st
=============================================================================
