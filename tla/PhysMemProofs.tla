---------------------------- MODULE PhysMemProofs ----------------------------
EXTENDS PhysMem, WellFoundedInduction, TLAPS

LEMMA ModBounds ==
  ASSUME NEW a \in Nat, NEW m \in Nat \ {0}
  PROVE  /\ a % m \in 0 .. m - 1
         /\ a \div m \in Nat
         /\ a = (m * (a \div m)) + (a % m)
         /\ a % m <= a
<1>1. a % m \in 0 .. m - 1 /\ a \div m \in Nat
  OBVIOUS
<1>2. a = (m * (a \div m)) + (a % m)
  BY <1>1
<1>3. m * (a \div m) \in Nat
  BY <1>1
<1> QED
  BY <1>1, <1>2, <1>3

LEMMA ModInNat ==
  ASSUME NEW a \in Nat, NEW m \in Nat \ {0}
  PROVE  a % m \in Nat /\ a \div m \in Nat
BY ModBounds

LEMMA RoundedDown ==
  ASSUME NEW a \in Nat, NEW m \in Nat \ {0}
  PROVE  a - (a % m) \in 0 .. a
<1>1. a % m \in Nat /\ a % m <= a
  BY ModBounds
<1> QED
  BY <1>1

LEMMA ModSmall ==
  ASSUME NEW m \in Nat \ {0}, NEW a \in 0 .. m - 1
  PROVE  a % m = a
  OBVIOUS

LEMMA ModOnce ==
  ASSUME NEW m \in Nat \ {0}, NEW a \in m .. 2 * m - 1
  PROVE  a % m = a - m
  OBVIOUS

LEMMA DivOfMultiple ==
  ASSUME NEW m \in Nat \ {0}, NEW k \in Nat
  PROVE  (k * m) \div m = k /\ (k * m) % m = 0
  OBVIOUS

LEMMA DivOrder ==
  ASSUME NEW m \in Nat \ {0}, NEW a \in Nat, NEW n \in Nat, a < n * m
  PROVE  a \div m < n
<1> DEFINE q == a \div m
<1>1. q \in Nat /\ m * q <= a
  BY ModBounds
<1>2. SUFFICES ASSUME q >= n PROVE FALSE
  BY <1>1
<1>3. m * q >= m * n
  BY <1>1, <1>2
<1> QED
  BY <1>1, <1>3

LEMMA AlignedSum ==
  ASSUME NEW m \in Nat \ {0}, NEW a \in Nat, NEW b \in Nat, a % m = 0, b % m = 0
  PROVE  /\ (a + b) % m = 0
         /\ a + b = ((a \div m) + (b \div m)) * m
         /\ a \div m \in Nat /\ b \div m \in Nat
<1> DEFINE i == a \div m
           j == b \div m
<1>1. i \in Nat /\ j \in Nat /\ a = m * i /\ b = m * j
  BY ModBounds
<1>2. a + b = (i + j) * m
  BY <1>1
<1> HIDE DEF i, j
<1>3. (a + b) % m = 0
  BY <1>1, <1>2, DivOfMultiple
<1> QED
  BY <1>1, <1>2, <1>3 DEF i, j

-----------------------------------------------------------------------------
(* Blocks, addresses and ranges *)

LEMMA Sizes ==
  /\ NumBlocks \in Nat \ {0}
  /\ AddrSpace \in Nat \ {0}
  /\ \A a \in Addrs : BlockNumber(a) \in Blocks
  /\ \A b \in Blocks : BlockAddress(b) \in Addrs
<1>1. NumBlocks \in Nat \ {0}
  BY SizesAssumption DEF NumBlocks
<1>2. AddrSpace \in Nat \ {0}
  BY <1>1, SizesAssumption DEF AddrSpace
<1>3. ASSUME NEW a \in Addrs PROVE BlockNumber(a) \in Blocks
  <2>1. a \in Nat /\ a < NumBlocks * BlockSize
    BY <1>2 DEF Addrs, AddrSpace
  <2>2. a \div BlockSize \in Nat
    BY <2>1, ModBounds, SizesAssumption
  <2>3. a \div BlockSize < NumBlocks
    BY <1>1, <2>1, DivOrder, SizesAssumption
  <2> QED
    BY <1>1, <2>2, <2>3 DEF BlockNumber, Blocks
<1>4. ASSUME NEW b \in Blocks PROVE BlockAddress(b) \in Addrs
  <2>1. b \in Nat /\ NumBlocks - b \in Nat \ {0}
    BY <1>1 DEF Blocks
  <2>2. (NumBlocks - b) * BlockSize > 0 /\ b * BlockSize \in Nat
    BY <2>1, SizesAssumption
  <2>3. b * BlockSize + (NumBlocks - b) * BlockSize = NumBlocks * BlockSize
    BY <1>1, <2>1, SizesAssumption
  <2> HIDE DEF NumBlocks
  <2>4. b * BlockSize < NumBlocks * BlockSize
    BY <1>1, <2>1, <2>2, <2>3, SizesAssumption
  <2> QED
    BY <1>2, <2>2, <2>4 DEF BlockAddress, Addrs, AddrSpace
<1> QED
  BY <1>1, <1>2, <1>3, <1>4

LEMMA Unwrapped ==
  ASSUME NEW S, S \subseteq Blocks
  PROVE  {b % NumBlocks : b \in S} = S
<1>1. \A b \in S : b % NumBlocks = b
  BY Sizes, ModSmall DEF Blocks
<1> QED
  BY <1>1

\* Whatever the range, toggling it touches bits of the bitmap only.
LEMMA FlippedInBitmap ==
  ASSUME NEW s \in Nat, NEW n \in Nat
  PROVE  FlippedBy(s, n) \subseteq Blocks
<1>1. /\ s - (s % WordBits) \in Nat
      /\ n - (n % WordBits) \in Nat
  BY RoundedDown, SizesAssumption
<1>2. \A b \in Nat : b % NumBlocks \in Blocks
  BY Sizes, ModBounds DEF Blocks
<1> QED
  BY <1>1, <1>2 DEF FlippedBy, SymDiff

\* The word-at-a-time loop flips exactly the range's blocks when the range
\* begins on a word boundary or is shorter than a word.
LEMMA FlippedExactly ==
  ASSUME NEW s \in Nat, NEW n \in Nat, s + n <= NumBlocks,
         s % WordBits = 0 \/ n < WordBits
  PROVE  FlippedBy(s, n) = s .. (s + n - 1)
<1> DEFINE whole == n - (n % WordBits)
           first == s - (s % WordBits)
<1>1. first \in Nat /\ whole \in 0 .. n
  BY RoundedDown, SizesAssumption
<1>2. FlippedBy(s, n) = SymDiff({b % NumBlocks : b \in first .. (first + whole - 1)},
                                {b % NumBlocks : b \in (s + whole) .. (s + n - 1)})
  BY DEF FlippedBy
<1>3. first = s \/ whole = 0
  <2>1. CASE s % WordBits = 0
    BY <2>1
  <2>2. CASE n < WordBits
    BY <2>2, ModSmall, SizesAssumption
  <2> QED
    BY <2>1, <2>2
<1> HIDE DEF first, whole
<1>4. {b % NumBlocks : b \in first .. (first + whole - 1)} = s .. (s + whole - 1)
  <2>1. first .. (first + whole - 1) = s .. (s + whole - 1)
    BY <1>1, <1>3
  <2>2. s .. (s + whole - 1) \subseteq Blocks
    BY <1>1, Sizes DEF Blocks
  <2> QED
    BY <2>1, <2>2, Unwrapped, Zenon
<1>5. {b % NumBlocks : b \in (s + whole) .. (s + n - 1)} = (s + whole) .. (s + n - 1)
  <2>1. (s + whole) .. (s + n - 1) \subseteq Blocks
    BY <1>1, Sizes DEF Blocks
  <2> QED
    BY <2>1, Unwrapped, Zenon
<1>6. SymDiff(s .. (s + whole - 1), (s + whole) .. (s + n - 1)) = s .. (s + n - 1)
  BY <1>1 DEF SymDiff
<1> QED
  BY <1>2, <1>4, <1>5, <1>6

\* So under the conditions of CleanMap and WordAligned pmmngr_toggle_range is
\* given exactly the blocks of the range it is meant for: rounding and the
\* 32-bit subtraction `end - start' change nothing.
LEMMA RangeExactly ==
  ASSUME NEW start \in Addrs, NEW size \in Addrs,
         PageAligned(start), PageAligned(size),
         BlockNumber(start) + BlockNumber(size) <= NumBlocks,
         BlockNumber(start) % WordBits = 0 \/ BlockNumber(size) < WordBits
  PROVE  RangeBlocks(start, (start + size) % AddrSpace) = BlockRange(start, size)
<1> DEFINE end == (start + size) % AddrSpace
<1>0. /\ start \in Nat /\ size \in Nat /\ start < AddrSpace /\ size < AddrSpace
      /\ AddrSpace \in Nat \ {0} /\ NumBlocks \in Nat \ {0} /\ BlockSize \in Nat \ {0}
  BY Sizes, SizesAssumption DEF Addrs
<1>1. PageAligned(start + size) /\ start + size <= AddrSpace
  <2> DEFINE k == (start \div BlockSize) + (size \div BlockSize)
  <2>1. (start + size) % BlockSize = 0 /\ start + size = k * BlockSize /\ k \in Nat
    <3>1. start % BlockSize = 0 /\ size % BlockSize = 0
      BY DEF PageAligned
    <3>2. /\ (start + size) % BlockSize = 0
          /\ start + size = k * BlockSize
          /\ start \div BlockSize \in Nat /\ size \div BlockSize \in Nat
      BY <1>0, <3>1, AlignedSum, Zenon
    <3> QED
      BY <3>2
  <2>2. k <= NumBlocks
    BY DEF BlockNumber
  <2>3. k * BlockSize <= NumBlocks * BlockSize
    <3> HIDE DEF k, NumBlocks
    <3> QED
      BY <1>0, <2>1, <2>2
  <2> QED
    BY <1>0, <2>1, <2>3 DEF PageAligned, AddrSpace
<1>2. end = IF start + size < AddrSpace THEN start + size ELSE 0
  <2>1. CASE start + size < AddrSpace
    BY <1>0, <2>1, ModSmall
  <2>2. CASE start + size = AddrSpace
    BY <1>0, <2>2, ModOnce
  <2> QED
    BY <1>0, <1>1, <2>1, <2>2
<1>3. PageAligned(end) /\ end \in Nat
  <2>1. 0 % BlockSize = 0
    BY <1>0, ModSmall
  <2> QED
    BY <1>0, <1>1, <1>2, <2>1 DEF PageAligned
<1> HIDE DEF end
<1>4. PageUp(end) = end /\ PageDown(start) = start
  BY <1>0, <1>3 DEF PageUp, PageDown, PageAligned
<1>5. (end + AddrSpace - start) % AddrSpace = size
  <2>1. CASE start + size < AddrSpace
    <3>1. end + AddrSpace - start = size + AddrSpace
      BY <1>0, <1>2, <2>1
    <3>2. (size + AddrSpace) % AddrSpace = size
      BY <1>0, ModOnce
    <3> QED
      BY <3>1, <3>2
  <2>2. CASE start + size = AddrSpace
    <3>1. end + AddrSpace - start = size
      BY <1>0, <1>2, <2>2
    <3>2. size % AddrSpace = size
      BY <1>0, ModSmall
    <3> QED
      BY <3>1, <3>2
  <2> QED
    BY <1>0, <1>1, <2>1, <2>2
<1>6. RangeBlocks(start, end) = FlippedBy(BlockNumber(start), BlockNumber(size))
  BY <1>4, <1>5 DEF RangeBlocks
<1>7. BlockNumber(start) \in Nat /\ BlockNumber(size) \in Nat
  BY <1>0, ModBounds DEF BlockNumber
<1> QED
  BY <1>6, <1>7, FlippedExactly DEF BlockRange, end

-----------------------------------------------------------------------------
(* The loop of pmmngr_toggle_range *)

LEMMA ModApart ==
  ASSUME NEW m \in Nat \ {0}, NEW a \in Nat, NEW b \in Nat,
         a < b, b < a + m, b < 2 * m
  PROVE  a % m # b % m
<1>1. CASE b < m
  BY <1>1, ModSmall
<1>2. CASE a < m /\ b >= m
  <2>1. a \in 0 .. m - 1 /\ b \in m .. 2 * m - 1
    BY <1>2
  <2>2. a % m = a
    BY <2>1, ModSmall
  <2>3. b % m = b - m
    BY <2>1, ModOnce
  <2> QED
    BY <2>1, <2>2, <2>3
<1>3. CASE a >= m
  <2>1. a \in m .. 2 * m - 1 /\ b \in m .. 2 * m - 1
    BY <1>3
  <2>2. a % m = a - m
    BY <2>1, ModOnce
  <2>3. b % m = b - m
    BY <2>1, ModOnce
  <2> QED
    BY <2>1, <2>2, <2>3
<1> QED
  BY <1>1, <1>2, <1>3

LEMMA ProductOrder ==
  ASSUME NEW m \in Nat \ {0}, NEW i \in Nat, NEW j \in Nat
  PROVE  /\ m * i < m * j <=> i < j
         /\ m * i <= m * j <=> i <= j
<1>1. ASSUME NEW x \in Nat, NEW y \in Nat, x < y
      PROVE  m * x < m * y
  <2>1. y - x \in Nat \ {0} /\ y = x + (y - x)
    BY <1>1
  <2>2. m * (y - x) > 0 /\ m * (y - x) \in Nat
    BY <2>1
  <2>3. m * y = m * x + m * (y - x)
    BY <2>1
  <2>4. m * x \in Nat /\ m * y \in Nat
    OBVIOUS
  <2> QED
    BY <2>2, <2>3, <2>4
<1>2. m * i \in Nat /\ m * j \in Nat
  OBVIOUS
<1>3. CASE i < j
  <2>1. m * i < m * j
    BY <1>1, <1>3
  <2> QED
    BY <1>2, <1>3, <2>1
<1>4. CASE j < i
  <2>1. m * j < m * i
    BY <1>1, <1>4
  <2> QED
    BY <1>2, <1>4, <2>1
<1>5. CASE i = j
  BY <1>2, <1>5
<1> QED
  BY <1>3, <1>4, <1>5

LEMMA DivIs ==
  ASSUME NEW m \in Nat \ {0}, NEW i \in Nat, NEW t \in 0 .. m - 1
  PROVE  (m * i + t) \div m = i /\ (m * i + t) % m = t
  OBVIOUS

\* A word's worth of blocks that are left fits before the last whole word's end;
\* past it less than a word is left.
LEMMA WordFits ==
  ASSUME NEW m \in Nat \ {0}, NEW n \in Nat, NEW d \in Nat, d % m = 0, d < n - (n % m) \/ d + m <= n
  PROVE  d + m <= n - (n % m)
<1> DEFINE q == n \div m
           j == d \div m
           r == n % m
<1>1. /\ q \in Nat /\ j \in Nat /\ r \in 0 .. m - 1
      /\ n = m * q + r /\ d = m * j
  BY ModBounds
<1>2. m * q \in Nat /\ m * j \in Nat
  BY <1>1
<1> HIDE DEF q, j, r
<1>3. m * j < m * q
  BY <1>1, <1>2 DEF r
<1>4. j + 1 <= q
  BY <1>1, <1>3, ProductOrder
<1>5. m * (j + 1) <= m * q
  BY <1>1, <1>4, ProductOrder
<1>6. m * (j + 1) = d + m
  BY <1>1
<1> QED
  BY <1>1, <1>2, <1>5, <1>6 DEF r

\* The word that holds the block d blocks after s, d a number of whole words: the
\* blocks d after those of the word that holds s.
LEMMA WordIs ==
  ASSUME NEW s \in Blocks, NEW d \in Blocks, d % WordBits = 0
  PROVE  LET f == s - (s % WordBits) + d
         IN  WordOf((s + d) % NumBlocks) = {b % NumBlocks : b \in f .. (f + WordBits - 1)}
<1> DEFINE w == WordBits
           i == s \div w
           j == d \div w
           t == s % w
           f == s - (s % w) + d
           k == i + j
<1>0. /\ w \in Nat \ {0} /\ NumWords \in Nat \ {0} /\ s \in Nat /\ d \in Nat
      /\ s < w * NumWords /\ d < w * NumWords /\ NumBlocks \in Nat \ {0}
  BY Sizes, SizesAssumption DEF Blocks, NumBlocks
<1>1. i \in Nat /\ j \in Nat /\ t \in 0 .. w - 1 /\ s = w * i + t /\ d = w * j
  <2>1. s % w \in 0 .. w - 1 /\ s \div w \in Nat /\ s = w * (s \div w) + (s % w)
    <3> HIDE DEF w
    <3> QED
      BY <1>0, ModBounds
  <2>2. d \div w \in Nat /\ d = w * (d \div w) + (d % w) /\ d % w = 0
    <3>1. d % w = 0
      OBVIOUS
    <3> HIDE DEF w
    <3> QED
      BY <1>0, <3>1, ModBounds
  <2>3. w * (d \div w) \in Nat
    <3> HIDE DEF w
    <3> QED
      BY <1>0, <2>2
  <2> QED
    BY <1>0, <2>1, <2>2, <2>3
<1>2. w * i \in Nat /\ w * j \in Nat /\ w * NumWords \in Nat /\ NumBlocks = w * NumWords
  BY <1>0, <1>1 DEF NumBlocks
<1> HIDE DEF i, j, t, w
<1>3. i < NumWords /\ j < NumWords
  <2>1. w * i < w * NumWords /\ w * j < w * NumWords
    BY <1>0, <1>1, <1>2
  <2> QED
    BY <1>0, <1>1, <2>1, ProductOrder
<1>4. f = w * k /\ s + d = w * k + t /\ k \in Nat
  <2>1. f = (s - t) + d
    BY DEF t, w
  <2>2. w * (i + j) = w * i + w * j
    BY <1>0, <1>1
  <2> HIDE DEF f
  <2> QED
    BY <1>0, <1>1, <1>2, <2>1, <2>2
<1> HIDE DEF f, k
<1> DEFINE c == IF k < NumWords THEN k ELSE k - NumWords
<1>5. c \in Nat /\ c < NumWords
  BY <1>0, <1>1, <1>3 DEF k
<1>6. /\ c = k \/ (k >= NumWords /\ c = k - NumWords)
      /\ w * c \in Nat /\ w * c + w <= NumBlocks
      /\ w * k = w * c \/ (w * k = w * c + NumBlocks)
  <2>1. c = k \/ (k >= NumWords /\ c = k - NumWords)
    BY <1>0, <1>4
  <2> HIDE DEF c
  <2>2. w * c \in Nat
    BY <1>0, <1>5
  <2>3. w * (c + 1) <= w * NumWords
    BY <1>0, <1>5, ProductOrder
  <2>4. w * (c + 1) = w * c + w
    BY <1>0, <1>5
  <2>5. k = c + NumWords => w * k = w * c + w * NumWords
    BY <1>0, <1>5
  <2> QED
    BY <1>0, <1>2, <1>4, <1>5, <2>1, <2>2, <2>3, <2>4, <2>5
<1> HIDE DEF c
<1>7. ASSUME NEW x \in 0 .. w - 1
      PROVE  (w * k + x) % NumBlocks = w * c + x
  <2>1. w * c + x \in 0 .. NumBlocks - 1
    BY <1>0, <1>6
  <2>2. CASE w * k = w * c
    BY <1>0, <2>1, <2>2, ModSmall
  <2>3. CASE w * k = w * c + NumBlocks
    <3>1. w * k + x \in NumBlocks .. 2 * NumBlocks - 1 /\ (w * k + x) - NumBlocks = w * c + x
      <4> HIDE DEF NumBlocks
      <4> QED
        BY <1>0, <1>6, <2>1, <2>3
    <3> QED
      BY <1>0, <3>1, ModOnce
  <2> QED
    BY <1>6, <2>2, <2>3
<1>8. (s + d) % NumBlocks = w * c + t
  BY <1>1, <1>4, <1>7
<1>9. (w * c + t) \div w = c
  BY <1>0, <1>1, <1>5, DivIs
<1>10. WordOf((s + d) % NumBlocks) = {b \in Blocks : b \div w = c}
  BY <1>8, <1>9 DEF WordOf, w
<1>11. ASSUME NEW b \in Blocks
       PROVE  b \div w = c <=> b \in (w * c) .. (w * c + w - 1)
  <2>1. b \in Nat
    BY DEF Blocks
  <2>2. b = w * (b \div w) + (b % w) /\ b % w \in 0 .. w - 1 /\ b \div w \in Nat
    BY <1>0, <2>1, ModBounds
  <2>3. CASE b \div w = c
    <3>1. b = w * c + (b % w)
      BY <2>2, <2>3
    <3> DEFINE p == w * c
               r == b % w
    <3>2. b = p + r /\ r \in 0 .. w - 1 /\ p \in Nat
      BY <1>6, <2>2, <3>1
    <3> HIDE DEF p, r
    <3>3. b \in p .. (p + w - 1)
      BY <1>0, <3>2
    <3> QED
      BY <2>3, <3>3 DEF p
  <2>4. CASE b \in (w * c) .. (w * c + w - 1)
    <3>1. b - w * c \in 0 .. w - 1 /\ b = w * c + (b - w * c)
      BY <1>0, <1>6, <2>1, <2>4
    <3>2. (w * c + (b - w * c)) \div w = c
      BY <1>0, <1>5, <3>1, DivIs
    <3> QED
      BY <2>4, <3>1, <3>2
  <2> QED
    BY <2>3, <2>4
<1>12. {b \in Blocks : b \div w = c} = (w * c) .. (w * c + w - 1)
  <2>1. (w * c) .. (w * c + w - 1) \subseteq Blocks
    BY <1>0, <1>6 DEF Blocks
  <2> QED
    BY <1>11, <2>1
<1>13. {b % NumBlocks : b \in f .. (f + w - 1)} = (w * c) .. (w * c + w - 1)
  <2>0. w * k \in Nat /\ w * c \in Nat /\ f = w * k
    BY <1>0, <1>4, <1>6
  <2>1. ASSUME NEW b \in f .. (f + w - 1)
        PROVE  b % NumBlocks \in (w * c) .. (w * c + w - 1)
    <3>1. b - w * k \in 0 .. w - 1 /\ b = w * k + (b - w * k)
      BY <1>0, <2>0
    <3>2. (w * k + (b - w * k)) % NumBlocks = w * c + (b - w * k)
      BY <1>7, <3>1
    <3> QED
      BY <1>0, <2>0, <3>1, <3>2
  <2>2. ASSUME NEW y \in (w * c) .. (w * c + w - 1)
        PROVE  \E b \in f .. (f + w - 1) : b % NumBlocks = y
    <3>1. y - w * c \in 0 .. w - 1 /\ w * c + (y - w * c) = y
      BY <1>0, <2>0
    <3>2. (w * k + (y - w * c)) % NumBlocks = w * c + (y - w * c)
      BY <1>7, <3>1
    <3>3. w * k + (y - w * c) \in f .. (f + w - 1)
      BY <1>0, <2>0, <3>1
    <3> QED
      BY <3>1, <3>2, <3>3
  <2> QED
    BY <2>1, <2>2
<1> QED
  BY <1>10, <1>12, <1>13 DEF f, w

\* Induction on the natural numbers, for a set.
LEMMA NatsBySteps ==
  ASSUME NEW S, 0 \in S, \A n \in Nat : n \in S => n + 1 \in S
  PROVE  \A n \in Nat : n \in S
<1> DEFINE R   == OpToRel(<, Nat)
           Bad == {n \in Nat : n \notin S}
<1>1. Bad = {} \/ \E m \in Bad : \A n \in Bad : <<n, m>> \notin R
  <2>1. IsWellFoundedOn(R, Nat) /\ Bad \subseteq Nat
    BY NatLessThanWellFounded
  <2> HIDE DEF R, Bad
  <2> QED
    BY <2>1, WFMin
<1>2. \A x, y \in Nat : y < x => <<y, x>> \in R
  BY DEF OpToRel
<1> HIDE DEF R
<1>3. ASSUME NEW m \in Bad, \A n \in Bad : <<n, m>> \notin R
      PROVE  FALSE
  <2>1. m \in Nat /\ m # 0
    OBVIOUS
  <2>2. m - 1 \in Nat /\ m - 1 < m /\ (m - 1) + 1 = m
    BY <2>1
  <2>3. m - 1 \notin Bad
    BY <1>2, <1>3, <2>1, <2>2
  <2>4. m - 1 \in S
    BY <2>2, <2>3
  <2>5. (m - 1) + 1 \in S
    BY <2>2, <2>4
  <2> QED
    BY <2>2, <2>5
<1> QED
  BY <1>1, <1>3

\* u holds the loop's state before each of its first n turns, and after them.
Turns(u, a, n) ==
  /\ u = [k \in 0 .. n |-> u[k]]
  /\ \A k \in 0 .. n : u[k] = IF k = 0 THEN a ELSE LoopTurn(u[k - 1])

\* What the LET of ToggleLoop defines exists.
LEMMA TurnsExist ==
  ASSUME NEW a, NEW n \in Nat
  PROVE  \E u : Turns(u, a, n)
<1> DEFINE S == {m \in Nat : \E u : Turns(u, a, m)}
<1>1. 0 \in S
  <2> DEFINE v == [k \in 0 .. 0 |-> a]
  <2>1. Turns(v, a, 0)
    BY DEF Turns
  <2> HIDE DEF v
  <2> QED
    BY <2>1
<1>2. ASSUME NEW m \in Nat, m \in S
      PROVE  m + 1 \in S
  <2>1. PICK u : Turns(u, a, m)
    BY <1>2
  <2> DEFINE v == [k \in 0 .. m + 1 |-> IF k = m + 1 THEN LoopTurn(u[m]) ELSE u[k]]
  <2>2. \A k \in 0 .. m : v[k] = u[k]
    OBVIOUS
  <2>3. \A k \in 0 .. m : u[k] = IF k = 0 THEN a ELSE LoopTurn(u[k - 1])
    BY <2>1 DEF Turns
  <2>4. ASSUME NEW k \in 0 .. m + 1
        PROVE  v[k] = IF k = 0 THEN a ELSE LoopTurn(v[k - 1])
    <3>1. CASE k = m + 1
      <4>1. v[k] = LoopTurn(u[m]) /\ k - 1 = m /\ k # 0 /\ m \in 0 .. m
        BY <3>1
      <4> HIDE DEF v
      <4> QED
        BY <2>2, <4>1
    <3>2. CASE k # m + 1
      <4>1. k \in 0 .. m /\ (k # 0 => k - 1 \in 0 .. m)
        BY <3>2
      <4> HIDE DEF v
      <4> QED
        BY <2>2, <2>3, <4>1
    <3> QED
      BY <3>1, <3>2
  <2>5. v = [k \in 0 .. m + 1 |-> v[k]]
    OBVIOUS
  <2>6. Turns(v, a, m + 1)
    <3> HIDE DEF v
    <3> QED
      BY <2>4, <2>5 DEF Turns
  <2> HIDE DEF v
  <2> QED
    BY <2>6
<1>3. n \in S
  <2> HIDE DEF S
  <2> QED
    BY <1>1, <1>2, NatsBySteps
<1> QED
  BY <1>3

\* The blocks, from f on, of a range that may go round the end of the bitmap.
Round(f, n) == {b % NumBlocks : b \in f .. (f + n - 1)}

\* What the loop over n blocks from s has flipped when it has passed d of them.
FlippedAt(s, n, d) ==
  LET whole == n - (n % WordBits)
      first == s - (s % WordBits)
  IN  IF d <= whole THEN Round(first, d)
      ELSE SymDiff(Round(first, whole), Round(s + whole, d - whole))

LoopAt(l, s, n, d) ==
  /\ d \in 0 .. n
  /\ d <= n - (n % WordBits) => d % WordBits = 0
  /\ l = [flipped |-> FlippedAt(s, n, d), start |-> (s + d) % NumBlocks, left |-> n - d]

LEMMA RoundGrows ==
  ASSUME NEW f \in Nat, NEW n \in Nat, NEW m \in Nat,
         n + m <= NumBlocks, f + n + m <= 2 * NumBlocks
  PROVE  /\ Round(f, n + m) = SymDiff(Round(f, n), Round(f + n, m))
         /\ Round(f, 0) = {}
         /\ Round(f, 1) = {f % NumBlocks}
<1>0. NumBlocks \in Nat \ {0}
  BY Sizes
<1> HIDE DEF NumBlocks
<1>1. ASSUME NEW a \in f .. (f + n - 1), NEW b \in (f + n) .. (f + n + m - 1)
      PROVE  a % NumBlocks # b % NumBlocks
  <2>1. a \in Nat /\ b \in Nat /\ a < b /\ b < a + NumBlocks /\ b < 2 * NumBlocks
    BY <1>0
  <2> QED
    BY <1>0, <2>1, ModApart
<1>2. f .. (f + (n + m) - 1) = (f .. (f + n - 1)) \cup ((f + n) .. (f + n + m - 1))
  OBVIOUS
<1>3. Round(f, n) \cap Round(f + n, m) = {}
  BY <1>1 DEF Round
<1>4. Round(f, n + m) = Round(f, n) \cup Round(f + n, m)
  BY <1>2 DEF Round
<1>5. Round(f, n + m) = SymDiff(Round(f, n), Round(f + n, m))
  BY <1>3, <1>4 DEF SymDiff
<1>6. f .. (f + 0 - 1) = {} /\ f .. (f + 1 - 1) = {f}
  OBVIOUS
<1> QED
  BY <1>5, <1>6 DEF Round

\* The loop has made k turns at least, or is over.
Passed(l, s, n, k) ==
  \E d \in 0 .. n : LoopAt(l, s, n, d) /\ (k <= d \/ d = n)

LEMMA SymDiffAssoc ==
  ASSUME NEW A, NEW B, NEW C
  PROVE  SymDiff(SymDiff(A, B), C) = SymDiff(A, SymDiff(B, C))
BY DEF SymDiff

LEMMA ModStep ==
  ASSUME NEW m \in Nat \ {0}, NEW a \in Nat, NEW e \in Nat, a + e < 2 * m
  PROVE  ((a % m) + e) % m = (a + e) % m
<1>1. CASE a < m
  <2>1. a % m = a
    BY <1>1, ModSmall
  <2> QED
    BY <2>1
<1>2. CASE a >= m
  <2>1. a \in m .. 2 * m - 1 /\ a + e \in m .. 2 * m - 1 /\ (a - m) + e \in 0 .. m - 1
    BY <1>2
  <2>2. a % m = a - m
    BY <2>1, ModOnce
  <2>3. (a + e) % m = (a + e) - m
    BY <2>1, ModOnce
  <2>4. ((a - m) + e) % m = (a - m) + e
    BY <2>1, ModSmall
  <2> QED
    BY <2>2, <2>3, <2>4
<1> QED
  BY <1>1, <1>2

\* A turn with a word or more to go.
LEMMA WordTurn ==
  ASSUME NEW s \in Blocks, NEW n \in Blocks, NEW l, NEW d \in Nat, LoopAt(l, s, n, d),
         n - d >= WordBits
  PROVE  LoopAt(LoopTurn(l), s, n, d + WordBits)
<1> DEFINE w     == WordBits
           whole == n - (n % w)
           first == s - (s % w)
<1>0. /\ w \in Nat \ {0} /\ NumBlocks \in Nat \ {0}
      /\ s \in Nat /\ n \in Nat /\ s < NumBlocks /\ n < NumBlocks
  BY Sizes, SizesAssumption DEF Blocks
<1>1. /\ first \in 0 .. s /\ whole \in 0 .. n /\ n - whole < w
  <2> HIDE DEF w
  <2>1. n % w \in 0 .. w - 1
    BY <1>0, ModBounds
  <2>2. first \in 0 .. s /\ whole \in 0 .. n
    BY <1>0, RoundedDown
  <2>3. n - whole < w
    <3> DEFINE r == n % w
    <3>1. r \in 0 .. w - 1 /\ whole = n - r
      BY <2>1
    <3> HIDE DEF r, whole
    <3> QED
      BY <1>0, <3>1
  <2> HIDE DEF first, whole
  <2> QED
    BY <2>2, <2>3
<1>2. /\ d \in 0 .. n /\ d <= n - w /\ d <= whole
      /\ l.flipped = FlippedAt(s, n, d) /\ l.start = (s + d) % NumBlocks /\ l.left = n - d
  <2>1. /\ d \in 0 .. n
        /\ l.flipped = FlippedAt(s, n, d) /\ l.start = (s + d) % NumBlocks /\ l.left = n - d
    BY DEF LoopAt
  <2> HIDE DEF whole, w
  <2> QED
    BY <1>0, <1>1, <2>1 DEF w
<1>3. d % w = 0
  BY <1>2 DEF LoopAt
<1>4. d + w <= whole
  <2>1. d + w <= n
    BY <1>0, <1>2
  <2> HIDE DEF w
  <2> QED
    BY <1>0, <1>2, <1>3, <2>1, WordFits
<1> HIDE DEF first, whole, w
<1>5. (d + w) % w = 0
  <2>1. w % w = 0
    BY <1>0, ModOnce
  <2> QED
    BY <1>0, <1>2, <1>3, <2>1, AlignedSum
<1>6. WordOf((s + d) % NumBlocks) = Round(first + d, w)
  <2>1. d \in Blocks
    BY <1>0, <1>2 DEF Blocks
  <2> QED
    BY <1>3, <2>1, WordIs DEF Round, first, w
<1>7. Round(first, d + w) = SymDiff(Round(first, d), Round(first + d, w))
  <2> HIDE DEF NumBlocks
  <2>1. first \in Nat /\ d + w <= NumBlocks /\ first + d + w <= 2 * NumBlocks /\ d \in Nat /\ w \in Nat
    BY <1>0, <1>1, <1>2, <1>4
  <2> QED
    BY <2>1, RoundGrows
<1>8. FlippedAt(s, n, d) = Round(first, d) /\ FlippedAt(s, n, d + w) = Round(first, d + w)
  BY <1>0, <1>2, <1>4 DEF FlippedAt, first, whole, w
<1>9. (((s + d) % NumBlocks) + w) % NumBlocks = (s + (d + w)) % NumBlocks
  <2> HIDE DEF NumBlocks
  <2>1. s + d \in Nat /\ s + (d + w) = (s + d) + w /\ (s + d) + w < 2 * NumBlocks
    BY <1>0, <1>1, <1>2, <1>4
  <2> QED
    BY <1>0, <2>1, ModStep
<1>10. LoopTurn(l) = [flipped |-> FlippedAt(s, n, d + w), start |-> (s + (d + w)) % NumBlocks,
                     left |-> n - (d + w)]
  <2>1. l.left # 0 /\ l.left >= WordBits
    BY <1>0, <1>2 DEF w
  <2>2. SymDiff(l.flipped, WordOf(l.start)) = FlippedAt(s, n, d + w)
    BY <1>2, <1>6, <1>7, <1>8
  <2>3. (l.start + w) % NumBlocks = (s + (d + w)) % NumBlocks
    BY <1>2, <1>9
  <2>4. l.left - w = n - (d + w)
    BY <1>0, <1>2
  <2>5. LoopTurn(l) = [flipped |-> SymDiff(l.flipped, WordOf(l.start)),
                       start |-> (l.start + w) % NumBlocks, left |-> l.left - w]
    BY <2>1 DEF LoopTurn, w
  <2> QED
    BY <2>2, <2>3, <2>4, <2>5
<1>11. d + w \in 0 .. n
  BY <1>0, <1>1, <1>2, <1>4
<1> QED
  BY <1>5, <1>10, <1>11 DEF LoopAt, w

\* A turn with less than a word to go.
LEMMA BitTurn ==
  ASSUME NEW s \in Blocks, NEW n \in Blocks, NEW l, NEW d \in Nat, LoopAt(l, s, n, d),
         d < n, n - d < WordBits
  PROVE  LoopAt(LoopTurn(l), s, n, d + 1)
<1> DEFINE w     == WordBits
           whole == n - (n % w)
           first == s - (s % w)
<1>0. /\ w \in Nat \ {0} /\ NumBlocks \in Nat \ {0}
      /\ s \in Nat /\ n \in Nat /\ s < NumBlocks /\ n < NumBlocks
  BY Sizes, SizesAssumption DEF Blocks
<1>1. first \in 0 .. s /\ whole \in 0 .. n
  <2> HIDE DEF w
  <2> QED
    BY <1>0, RoundedDown
<1>2. l.flipped = FlippedAt(s, n, d) /\ l.start = (s + d) % NumBlocks /\ l.left = n - d
  BY DEF LoopAt
<1>3. d >= whole
  <2>1. SUFFICES ASSUME d < whole PROVE FALSE
    BY <1>1
  <2>2. d % w = 0
    <3>1. d <= whole
      BY <1>1, <2>1
    <3> QED
      BY <3>1 DEF LoopAt
  <2>3. d + w <= whole
    <3> HIDE DEF w
    <3> QED
      BY <1>0, <2>1, <2>2, WordFits
  <2> HIDE DEF whole
  <2> QED
    BY <1>0, <1>1, <2>3 DEF w
<1> HIDE DEF whole, first
<1>4. FlippedAt(s, n, d) = SymDiff(Round(first, whole), Round(s + whole, d - whole))
  <2>1. CASE d > whole
    BY <1>0, <1>1, <2>1 DEF FlippedAt, first, whole
  <2>2. CASE d = whole
    <3>1. FlippedAt(s, n, d) = Round(first, whole)
      BY <1>1, <2>2 DEF FlippedAt, first, whole
    <3>2. d - whole = 0 /\ s + whole \in Nat
      BY <1>0, <1>1, <2>2
    <3>3. Round(s + whole, 0) = {}
      BY <3>2 DEF Round
    <3>4. SymDiff(Round(first, whole), {}) = Round(first, whole)
      BY DEF SymDiff
    <3> QED
      BY <3>1, <3>2, <3>3, <3>4
  <2> QED
    BY <1>1, <1>3, <2>1, <2>2
<1>5. /\ FlippedAt(s, n, d + 1) = SymDiff(Round(first, whole), Round(s + whole, (d + 1) - whole))
      /\ ~(d + 1 <= whole)
  BY <1>0, <1>1, <1>3 DEF FlippedAt, first, whole
<1>6. Round(s + whole, (d + 1) - whole)
        = SymDiff(Round(s + whole, d - whole), {(s + d) % NumBlocks})
  <2> DEFINE f == s + whole
             m == d - whole
  <2> HIDE DEF NumBlocks
  <2>1. /\ f \in Nat /\ m \in Nat /\ m + 1 <= NumBlocks /\ f + m + 1 <= 2 * NumBlocks
        /\ (d + 1) - whole = m + 1 /\ f + m = s + d /\ s + d \in Nat
    BY <1>0, <1>1, <1>3
  <2> HIDE DEF f, m
  <2>2. Round(f, m + 1) = SymDiff(Round(f, m), Round(f + m, 1))
    BY <2>1, RoundGrows
  <2>3. (f + m) .. (f + m + 1 - 1) = {f + m}
    BY <2>1
  <2>4. Round(f + m, 1) = {(f + m) % NumBlocks}
    BY <2>3 DEF Round
  <2> QED
    BY <2>1, <2>2, <2>4 DEF f, m
<1>7. SymDiff(FlippedAt(s, n, d), {(s + d) % NumBlocks}) = FlippedAt(s, n, d + 1)
  BY <1>4, <1>5, <1>6, SymDiffAssoc
<1>8. (((s + d) % NumBlocks) + 1) % NumBlocks = (s + (d + 1)) % NumBlocks
  <2> HIDE DEF NumBlocks
  <2>1. s + d \in Nat /\ s + (d + 1) = (s + d) + 1 /\ (s + d) + 1 < 2 * NumBlocks
    BY <1>0
  <2> QED
    BY <1>0, <2>1, ModStep
<1>9. LoopTurn(l) = [flipped |-> FlippedAt(s, n, d + 1), start |-> (s + (d + 1)) % NumBlocks,
                     left |-> n - (d + 1)]
  <2>1. l.left # 0 /\ ~(l.left >= WordBits)
    BY <1>0, <1>2
  <2>2. l.left - 1 = n - (d + 1)
    BY <1>0, <1>2
  <2>3. LoopTurn(l) = [flipped |-> SymDiff(l.flipped, {l.start}),
                       start |-> (l.start + 1) % NumBlocks, left |-> l.left - 1]
    BY <2>1 DEF LoopTurn
  <2> QED
    BY <1>2, <1>7, <1>8, <2>2, <2>3
<1>10. d + 1 \in 0 .. n
  BY <1>0
<1> QED
  BY <1>5, <1>9, <1>10 DEF LoopAt, whole

LEMMA TurnPasses ==
  ASSUME NEW s \in Blocks, NEW n \in Blocks, NEW l, NEW k \in Nat, Passed(l, s, n, k)
  PROVE  Passed(LoopTurn(l), s, n, k + 1)
<1>0. WordBits \in Nat \ {0} /\ n \in Nat
  BY SizesAssumption DEF Blocks
<1>1. PICK d \in 0 .. n : LoopAt(l, s, n, d) /\ (k <= d \/ d = n)
  BY DEF Passed
<1>2. CASE d = n
  <2>1. l.left = 0
    BY <1>0, <1>1, <1>2 DEF LoopAt
  <2>2. LoopTurn(l) = l
    BY <2>1 DEF LoopTurn
  <2> QED
    BY <1>1, <1>2, <2>2 DEF Passed
<1>3. CASE d # n /\ n - d >= WordBits
  <2>1. LoopAt(LoopTurn(l), s, n, d + WordBits)
    BY <1>0, <1>1, <1>3, WordTurn
  <2>2. d + WordBits \in 0 .. n /\ k + 1 <= d + WordBits
    BY <1>0, <1>1, <1>3
  <2> QED
    BY <2>1, <2>2 DEF Passed
<1>4. CASE d # n /\ n - d < WordBits
  <2>1. LoopAt(LoopTurn(l), s, n, d + 1)
    BY <1>0, <1>1, <1>4, BitTurn
  <2>2. d + 1 \in 0 .. n /\ k + 1 <= d + 1
    BY <1>0, <1>1, <1>4
  <2> QED
    BY <2>1, <2>2 DEF Passed
<1> QED
  BY <1>0, <1>1, <1>2, <1>3, <1>4

\* For every range the 32-bit arithmetic can produce, whatever the sizes, the loop of
\* pmmngr_toggle_range flips the blocks of FlippedBy: the words from the one that holds
\* the first block, not from the first block, then the blocks left over.
THEOREM FlippedByIsTheLoop ==
  \A s \in Blocks, n \in Blocks : FlippedBy(s, n) = ToggleLoop(s, n)
<1> TAKE s \in Blocks, n \in Blocks
<1> DEFINE a     == [flipped |-> {}, start |-> s, left |-> n]
           Is(u) == u = [k \in 0 .. n |-> IF k = 0 THEN a ELSE LoopTurn(u[k - 1])]
           u     == CHOOSE u : Is(u)
<1>0. /\ n \in Nat /\ s \in Nat /\ s < NumBlocks /\ NumBlocks \in Nat \ {0}
      /\ WordBits \in Nat \ {0}
  BY Sizes, SizesAssumption DEF Blocks
<1>1. ToggleLoop(s, n) = u[n].flipped
  BY Zenon DEF ToggleLoop
<1>2. Is(u)
  <2>1. \E v : Is(v)
    <3> HIDE DEF a
    <3>1. PICK v : Turns(v, a, n)
      BY <1>0, TurnsExist
    <3>2. Is(v)
      BY <3>1 DEF Turns
    <3> QED
      BY <3>2
  <2> HIDE DEF Is
  <2> QED
    BY <2>1
<1> HIDE DEF u
<1>3. \A k \in 0 .. n : u[k] = IF k = 0 THEN a ELSE LoopTurn(u[k - 1])
  <2> HIDE DEF a
  <2> QED
    BY <1>2
<1> DEFINE S == {k \in Nat : k <= n => Passed(u[k], s, n, k)}
<1>4. 0 \in S
  <2>1. u[0] = a
    BY <1>0, <1>3
  <2>2. 0 % WordBits = 0 /\ s % NumBlocks = s /\ n - (n % WordBits) \in 0 .. n
    BY <1>0, ModSmall, RoundedDown
  <2>3. FlippedAt(s, n, 0) = {}
    <3>1. s - (s % WordBits) \in Nat
      BY <1>0, RoundedDown
    <3>2. Round(s - (s % WordBits), 0) = {}
      BY <3>1 DEF Round
    <3> QED
      BY <2>2, <3>2 DEF FlippedAt
  <2>4. LoopAt(a, s, n, 0)
    BY <1>0, <2>2, <2>3 DEF LoopAt
  <2>5. 0 \in 0 .. n
    BY <1>0
  <2> HIDE DEF a
  <2>6. Passed(u[0], s, n, 0)
    BY <2>1, <2>4, <2>5 DEF Passed
  <2> QED
    BY <2>6
<1>5. ASSUME NEW k \in Nat, k \in S
      PROVE  k + 1 \in S
  <2> SUFFICES ASSUME k + 1 <= n
               PROVE  Passed(u[k + 1], s, n, k + 1)
    OBVIOUS
  <2>1. k + 1 \in 0 .. n /\ k + 1 # 0 /\ (k + 1) - 1 = k /\ k <= n
    BY <1>0
  <2>2. u[k + 1] = LoopTurn(u[k])
    <3> HIDE DEF S, a
    <3> QED
      BY <1>3, <2>1
  <2>3. Passed(u[k], s, n, k)
    BY <1>5, <2>1
  <2> HIDE DEF S
  <2>4. Passed(LoopTurn(u[k]), s, n, k + 1)
    BY <2>3, TurnPasses
  <2> QED
    BY <2>2, <2>4
<1>6. Passed(u[n], s, n, n)
  <2>1. n \in S
    <3> HIDE DEF S
    <3> QED
      BY <1>0, <1>4, <1>5, NatsBySteps
  <2> QED
    BY <1>0, <2>1
<1>7. u[n].flipped = FlippedAt(s, n, n)
  <2>1. PICK d \in 0 .. n : LoopAt(u[n], s, n, d) /\ (n <= d \/ d = n)
    BY <1>6 DEF Passed
  <2>2. d = n
    BY <1>0, <2>1
  <2> QED
    BY <2>1, <2>2 DEF LoopAt
<1>8. FlippedAt(s, n, n) = FlippedBy(s, n)
  <2> DEFINE whole == n - (n % WordBits)
             first == s - (s % WordBits)
  <2>1. whole \in 0 .. n /\ s + whole + (n - whole) - 1 = s + n - 1
    <3>1. whole \in 0 .. n
      BY <1>0, RoundedDown
    <3> HIDE DEF whole
    <3> QED
      BY <1>0, <3>1
  <2>2. FlippedBy(s, n) = SymDiff(Round(first, whole), {b % NumBlocks : b \in (s + whole) .. (s + n - 1)})
    BY DEF FlippedBy, Round
  <2>3. FlippedAt(s, n, n) = IF n <= whole THEN Round(first, n)
                             ELSE SymDiff(Round(first, whole), Round(s + whole, n - whole))
    BY DEF FlippedAt
  <2> HIDE DEF whole, first
  <2>4. {b % NumBlocks : b \in (s + whole) .. (s + n - 1)} = Round(s + whole, n - whole)
    BY <2>1 DEF Round
  <2>5. CASE n <= whole
    <3>1. whole = n /\ (s + whole) .. (s + n - 1) = {}
      BY <1>0, <2>1, <2>5
    <3>2. SymDiff(Round(first, n), {}) = Round(first, n)
      BY DEF SymDiff
    <3> QED
      BY <2>2, <2>3, <2>5, <3>1, <3>2
  <2>6. CASE ~(n <= whole)
    BY <2>2, <2>3, <2>4, <2>6
  <2> QED
    BY <2>5, <2>6
<1> QED
  BY <1>1, <1>7, <1>8

\* So whatever entry the firmware lists, the bits RangeBlocks names are those the loop
\* flips from the page `start' is rounded down to, over the blocks of `end - start'.
COROLLARY RangeBlocksIsTheLoop ==
  ASSUME NEW start \in Addrs, NEW end \in Addrs
  PROVE  RangeBlocks(start, end)
           = ToggleLoop(BlockNumber(PageDown(start)),
                        BlockNumber((PageUp(end) + AddrSpace - PageDown(start)) % AddrSpace))
<1>0. AddrSpace \in Nat \ {0} /\ BlockSize \in Nat \ {0} /\ start \in Nat /\ end \in Nat
  BY Sizes, SizesAssumption DEF Addrs
<1>1. PageDown(start) \in 0 .. start
  BY <1>0, RoundedDown DEF PageDown
<1>2. PageUp(end) \in Nat
  <2>1. end % BlockSize \in 0 .. BlockSize - 1
    BY <1>0, ModBounds
  <2>2. end + (BlockSize - (end % BlockSize)) \in Nat
    BY <1>0, <2>1
  <2>3. (end + (BlockSize - (end % BlockSize))) % AddrSpace \in Nat
    <3> HIDE DEF AddrSpace
    <3> QED
      BY <1>0, <2>2, ModInNat
  <2> QED
    BY <1>0, <2>3 DEF PageUp
<1>3. PageDown(start) \in Addrs
  BY <1>0, <1>1 DEF Addrs
<1>4. (PageUp(end) + AddrSpace - PageDown(start)) % AddrSpace \in Addrs
  <2> HIDE DEF AddrSpace
  <2>1. PageUp(end) + AddrSpace - PageDown(start) \in Nat
    BY <1>0, <1>1, <1>2, <1>3 DEF Addrs
  <2> QED
    BY <1>0, <2>1, ModBounds DEF Addrs
<1> QED
  BY <1>3, <1>4, Sizes, FlippedByIsTheLoop DEF RangeBlocks

-----------------------------------------------------------------------------
(* The invariant *)

LEMMA EntryTypes ==
  ASSUME NEW m \in Maps, NEW i \in DOMAIN m
  PROVE  /\ m[i].start \in Addrs /\ m[i].size \in Addrs
         /\ DOMAIN m = 1 .. Len(m) /\ Len(m) \in Nat
<1>1. m \in Seq(Entry)
  BY MapsAssumption
<1>2. DOMAIN m = 1 .. Len(m) /\ Len(m) \in Nat /\ m[i] \in Entry
  BY <1>1
<1> QED
  BY <1>2 DEF Entry

\* The toggled range of any entry lies in the bitmap: nothing outside
\* physical_memory_bitmap is written.
LEMMA RangeInBitmap ==
  ASSUME NEW start \in Addrs, NEW end \in Addrs
  PROVE  RangeBlocks(start, end) \subseteq Blocks
<1> DEFINE from == PageDown(start)
           len  == (PageUp(end) + AddrSpace - from) % AddrSpace
<1>1. /\ start \in Nat /\ start < AddrSpace /\ end \in Nat
      /\ AddrSpace \in Nat \ {0} /\ BlockSize \in Nat \ {0}
  BY Sizes, SizesAssumption DEF Addrs
<1>2. from \in 0 .. start
  BY <1>1, RoundedDown DEF PageDown
<1>3. PageUp(end) \in Nat
  <2>1. end + (BlockSize - (end % BlockSize)) \in Nat
    <3>1. end % BlockSize \in 0 .. BlockSize - 1
      BY <1>1, ModBounds
    <3> QED
      BY <1>1, <3>1
  <2>2. (end + (BlockSize - (end % BlockSize))) % AddrSpace \in Nat
    BY <1>1, <2>1, ModBounds
  <2> QED
    BY <1>1, <2>2 DEF PageUp
<1> HIDE DEF from
<1>4. len \in Nat
  <2>1. PageUp(end) + AddrSpace - from \in Nat
    BY <1>1, <1>2, <1>3
  <2> QED
    BY <1>1, <2>1, ModInNat
<1> HIDE DEF len
<1>5. BlockNumber(from) \in Nat /\ BlockNumber(len) \in Nat
  <2>1. from \in Nat
    BY <1>1, <1>2
  <2> QED
    BY <1>1, <1>4, <2>1, ModInNat DEF BlockNumber
<1> QED
  BY <1>5, FlippedInBitmap DEF RangeBlocks, from, len

LEMMA InitInv == Init => Inv
<1> SUFFICES ASSUME Init PROVE Inv
  OBVIOUS
<1>1. mmap \in Seq(Entry)
  BY MapsAssumption DEF Init
<1>2. 0 \in Addrs
  BY Sizes DEF Addrs
<1>3. TypeOK
  BY <1>1, <1>2 DEF Init, TypeOK, Reply, Replies
<1>4. HeldIsMarked /\ PoolConserved
  BY DEF Init, HeldIsMarked, PoolConserved
<1>5. MapProgress
  <2>1. {i \in UsableAt(mmap) : i < 1} = {}
    BY <1>1 DEF UsableAt
  <2>2. UsableBlocks(mmap, {}) = {}
    BY DEF UsableBlocks
  <2>3. FreeBlocks = {}
    BY DEF Init, FreeBlocks
  <2> QED
    BY <2>1, <2>2, <2>3 DEF Init, MapProgress
<1> QED
  BY <1>3, <1>4, <1>5 DEF Inv

\* The end pmmngr_init computes for an entry is an address, wrapped or not.
LEMMA WrappedSum ==
  ASSUME NEW a \in Addrs, NEW b \in Addrs
  PROVE  (a + b) % AddrSpace \in Addrs
<1>1. AddrSpace \in Nat \ {0} /\ a + b \in Nat
  BY Sizes DEF Addrs
<1> HIDE DEF AddrSpace
<1>2. (a + b) % AddrSpace \in 0 .. AddrSpace - 1
  BY <1>1, ModBounds
<1> QED
  BY <1>2 DEF Addrs

LEMMA ReadEntryInv ==
  ASSUME Inv, ReadEntry
  PROVE  Inv'
<1> DEFINE e == mmap[next]
           R == RangeBlocks(e.start, (e.start + e.size) % AddrSpace)
<1> USE DEF Inv
<1>1. /\ mmap \in Maps /\ mmap' = mmap /\ next \in DOMAIN mmap /\ next' = next + 1
      /\ phase = "map" /\ phase' = "map" /\ held = {} /\ held' = {}
      /\ next \in 1 .. Len(mmap)
  <2>1. mmap \in Seq(Entry)
    BY MapsAssumption DEF TypeOK
  <2> QED
    BY <2>1 DEF ReadEntry, TypeOK, MapProgress
<1>2. e.start \in Addrs /\ e.size \in Addrs
  BY <1>1, EntryTypes
<1>3. R \subseteq Blocks
  <2>1. (e.start + e.size) % AddrSpace \in Addrs
    BY <1>2, WrappedSum
  <2> QED
    BY <1>2, <2>1, RangeInBitmap
<1>4. used' = IF Usable(e) THEN SymDiff(used, R) ELSE used
  BY DEF ReadEntry, ToggleRange
<1>5. TypeOK'
  <2>1. used' \subseteq Blocks
    BY <1>3, <1>4 DEF TypeOK, SymDiff
  <2>2. next' \in 1 .. Len(mmap) + 1
    BY <1>1 DEF TypeOK
  <2> QED
    BY <1>1, <2>1, <2>2 DEF TypeOK, ReadEntry
<1>6. HeldIsMarked' /\ PoolConserved'
  BY <1>1 DEF HeldIsMarked, PoolConserved
<1>7. ASSUME CleanMap(mmap), WordAligned(mmap)
      PROVE  FreeBlocks' = UsableBlocks(mmap, {i \in UsableAt(mmap) : i < next + 1})
  <2> DEFINE before == {i \in UsableAt(mmap) : i < next}
             after  == {i \in UsableAt(mmap) : i < next + 1}
  <2>1. FreeBlocks = UsableBlocks(mmap, before)
    BY <1>1, <1>7 DEF MapProgress
  <2>2. CASE ~Usable(e)
    <3>1. after = before
      BY <1>1, <2>2 DEF UsableAt, Usable
    <3> QED
      BY <1>4, <2>1, <2>2, <3>1 DEF FreeBlocks
  <2>3. CASE Usable(e)
    <3>1. next \in UsableAt(mmap)
      BY <1>1, <2>3 DEF UsableAt, Usable
    <3>2. after = before \cup {next}
      BY <1>1, <3>1 DEF UsableAt
    <3>3. R = BlockRange(e.start, e.size)
      BY <1>2, <1>7, <3>1, RangeExactly DEF CleanMap, WordAligned
    <3>4. UsableBlocks(mmap, after) = UsableBlocks(mmap, before) \cup R
      BY <3>2, <3>3 DEF UsableBlocks
    <3>5. UsableBlocks(mmap, before) \cap R = {}
      <4>1. \A i \in before : i \in UsableAt(mmap) /\ i # next
        BY <1>1
      <4> QED
        BY <1>7, <3>1, <3>3, <4>1 DEF UsableBlocks, CleanMap
    <3>6. used' = SymDiff(used, R)
      BY <1>4, <2>3
    <3>7. FreeBlocks' = FreeBlocks \cup R
      <4>1. R \subseteq used
        BY <1>3, <2>1, <3>5 DEF FreeBlocks
      <4> HIDE DEF R
      <4> QED
        BY <1>3, <3>6, <4>1 DEF FreeBlocks, SymDiff
    <3> QED
      BY <2>1, <3>4, <3>7
  <2> QED
    BY <2>2, <2>3
<1>8. MapProgress'
  BY <1>1, <1>7 DEF MapProgress
<1> QED
  BY <1>5, <1>6, <1>8

LEMMA ReserveKernelInv ==
  ASSUME Inv, ReserveKernel
  PROVE  Inv'
<1> USE DEF Inv
<1>1. /\ mmap \in Maps /\ mmap' = mmap /\ next' = next /\ reply' = reply
      /\ phase = "map" /\ phase' = "ready" /\ held = {} /\ held' = {}
      /\ used' = SymDiff(used, KernelRange) /\ used \subseteq Blocks
  BY DEF ReserveKernel, TypeOK, MapProgress
<1>2. KernelStart \in Addrs /\ KernelSize \in Addrs
  BY SizesAssumption
<1>3. KernelRange = KernelBlocks
  BY <1>2, SizesAssumption, RangeExactly DEF KernelRange, KernelBlocks
<1>4. KernelRange \subseteq Blocks
  <2>1. (KernelStart + KernelSize) % AddrSpace \in Addrs
    BY <1>2, WrappedSum
  <2> QED
    BY <1>2, <2>1, RangeInBitmap DEF KernelRange
<1>5. TypeOK'
  BY <1>1, <1>4 DEF TypeOK, SymDiff
<1>6. HeldIsMarked' /\ MapProgress'
  BY <1>1 DEF HeldIsMarked, MapProgress
<1>7. ASSUME CleanMap(mmap), WordAligned(mmap)
      PROVE  FreeBlocks' = Available(mmap)
  <2>1. {i \in UsableAt(mmap) : i < next} = UsableAt(mmap)
    <3>1. \A i \in UsableAt(mmap) : i \in 1 .. Len(mmap)
      BY <1>1, EntryTypes DEF UsableAt
    <3>2. next > Len(mmap) /\ next \in Int /\ Len(mmap) \in Nat
      <4>1. mmap \in Seq(Entry)
        BY <1>1, MapsAssumption
      <4> QED
        BY <4>1 DEF ReserveKernel, TypeOK
    <3> QED
      BY <3>1, <3>2
  <2>2. FreeBlocks = UsableBlocks(mmap, UsableAt(mmap))
    BY <1>1, <1>7, <2>1 DEF MapProgress
  <2>3. KernelBlocks \subseteq FreeBlocks
    BY <1>7, <2>2 DEF CleanMap
  <2>4. FreeBlocks' = FreeBlocks \ KernelBlocks
    BY <1>1, <1>3, <1>4, <2>3 DEF FreeBlocks, SymDiff
  <2> QED
    BY <2>2, <2>4 DEF Available
<1>8. PoolConserved'
  BY <1>1, <1>7 DEF PoolConserved, PoolExact
<1> QED
  BY <1>5, <1>6, <1>8

LEMMA AllocateBlockInv ==
  ASSUME Inv, AllocateBlock
  PROVE  Inv'
<1> USE DEF Inv
<1>1. PICK b \in Blocks :
        /\ b \notin used
        /\ used' = ToggleBlock(used, b) /\ held' = held \cup {b}
        /\ reply' = Reply("alloc", 0, BlockAddress(b))
  BY DEF AllocateBlock, LowestFree
<1>2. /\ mmap' = mmap /\ phase = "ready" /\ phase' = "ready" /\ next' = next
      /\ used' = used \cup {b}
  BY <1>1 DEF AllocateBlock, ToggleBlock, SymDiff
<1>3. TypeOK'
  <2>1. reply' \in Replies
    BY <1>1, <1>2, Sizes DEF Replies, Reply, Addrs
  <2> QED
    BY <1>1, <1>2, <2>1 DEF TypeOK
<1>4. HeldIsMarked' /\ MapProgress'
  BY <1>1, <1>2 DEF HeldIsMarked, MapProgress
<1>5. PoolConserved'
  BY <1>1, <1>2 DEF PoolConserved, PoolExact, FreeBlocks, HeldIsMarked
<1> QED
  BY <1>3, <1>4, <1>5

LEMMA FreeBlockInv ==
  ASSUME Inv, NEW a \in Addrs, FreeBlock(a)
  PROVE  Inv'
<1> DEFINE b == BlockNumber(a)
<1> USE DEF Inv
<1>1. b \in Blocks /\ b \in used /\ b \in held
  BY Sizes DEF FreeBlock, Accepted, MayPass
<1>2. /\ mmap' = mmap /\ phase = "ready" /\ phase' = "ready" /\ next' = next
      /\ used' = used \ {b} /\ held' = held \ {b}
      /\ reply' = Reply("free", a, 1)
  BY <1>1 DEF FreeBlock, ToggleBlock, SymDiff
<1> HIDE DEF b
<1>3. TypeOK'
  <2>1. reply' \in Replies
    BY <1>2 DEF Replies, Reply
  <2> QED
    BY <1>2, <2>1 DEF TypeOK
<1>4. HeldIsMarked' /\ MapProgress'
  BY <1>2 DEF HeldIsMarked, MapProgress
<1>5. PoolConserved'
  BY <1>1, <1>2 DEF PoolConserved, PoolExact, FreeBlocks
<1> QED
  BY <1>3, <1>4, <1>5

\* A failed allocation and a rejected free change nothing but the answer.
LEMMA RefusalInv ==
  ASSUME Inv, AllocateFails \/ \E a \in Addrs : FreeRejected(a)
  PROVE  Inv'
<1> USE DEF Inv
<1>1. /\ mmap' = mmap /\ phase' = phase /\ next' = next /\ used' = used /\ held' = held
      /\ reply' \in Replies
  <2>1. 0 \in Addrs
    BY Sizes DEF Addrs
  <2> QED
    BY <2>1 DEF AllocateFails, FreeRejected, Replies, Reply
<1>2. TypeOK'
  BY <1>1 DEF TypeOK
<1>3. HeldIsMarked' /\ MapProgress' /\ PoolConserved'
  BY <1>1 DEF HeldIsMarked, MapProgress, PoolConserved, PoolExact, FreeBlocks
<1> QED
  BY <1>2, <1>3

LEMMA NextInv == Inv /\ [Next]_vars => Inv'
<1> SUFFICES ASSUME Inv, [Next]_vars PROVE Inv'
  OBVIOUS
<1>1. CASE ReadEntry
  BY <1>1, ReadEntryInv
<1>2. CASE ReserveKernel
  BY <1>2, ReserveKernelInv
<1>3. CASE AllocateBlock
  BY <1>3, AllocateBlockInv
<1>4. CASE AllocateFails
  BY <1>4, RefusalInv
<1>5. CASE \E a \in Addrs : FreeBlock(a) \/ FreeRejected(a)
  BY <1>5, FreeBlockInv, RefusalInv
<1>6. CASE UNCHANGED vars
  BY <1>6 DEF vars, Inv, TypeOK, HeldIsMarked, MapProgress, PoolConserved, PoolExact, FreeBlocks
<1> QED
  BY <1>1, <1>2, <1>3, <1>4, <1>5, <1>6 DEF Next

\* Type correctness of the memory manager's state, whatever the map.
THEOREM PhysMemTypeOK == Spec => []TypeOK
<1>1. Inv => TypeOK
  BY DEF Inv
<1> QED
  BY <1>1, InitInv, NextInv, PTL DEF Spec

\* The pool is exact under every clean, word-aligned map: no block is lost,
\* granted twice or granted though firmware or the kernel owns it.
THEOREM PhysMemPoolConserved == Spec => []PoolConserved
<1>1. Inv => PoolConserved
  BY DEF Inv
<1> QED
  BY <1>1, InitInv, NextInv, PTL DEF Spec

\* A granted block's bit stays set while it is held, whatever the map.
THEOREM PhysMemHeldIsMarked == Spec => []HeldIsMarked
<1>1. Inv => HeldIsMarked
  BY DEF Inv
<1> QED
  BY <1>1, InitInv, NextInv, PTL DEF Spec

\* pmmngr_init frees entry after entry, and no toggling undoes another.
THEOREM PhysMemMapProgress == Spec => []MapProgress
<1>1. Inv => MapProgress
  BY DEF Inv
<1> QED
  BY <1>1, InitInv, NextInv, PTL DEF Spec

-----------------------------------------------------------------------------
(* The refinement *)

LEMMA InitRefines == Init /\ CleanMap(mmap) /\ WordAligned(mmap) => Pool!Init
<1> SUFFICES ASSUME Init, CleanMap(mmap) PROVE Pool!Init
  OBVIOUS
<1>1. Available(mmap) \subseteq Blocks \ {0}
  <2> SUFFICES ASSUME NEW i \in UsableAt(mmap),
                      NEW b \in BlockRange(mmap[i].start, mmap[i].size)
               PROVE  b \in Blocks \ {0}
    BY DEF Available, UsableBlocks
  <2>1. mmap \in Maps /\ i \in DOMAIN mmap
    BY DEF Init, UsableAt
  <2>2. mmap[i].start \in Addrs \ {0} /\ mmap[i].size \in Addrs
    <3>1. mmap[i].start \in Addrs /\ mmap[i].size \in Addrs
      BY <2>1, EntryTypes
    <3>2. mmap[i].start >= KernelStart /\ KernelStart \in Nat \ {0}
      BY SizesAssumption DEF Addrs, UsableAt, Usable
    <3>3. mmap[i].start # 0
      BY <3>2
    <3> QED
      BY <3>1, <3>3
  <2>3. BlockNumber(mmap[i].start) \in Blocks /\ BlockNumber(mmap[i].size) \in Blocks
    BY <2>2, Sizes
  <2>4. BlockNumber(mmap[i].start) # 0
    <3>1. PageAligned(mmap[i].start)
      BY DEF CleanMap
    <3>2. mmap[i].start \in Nat /\ BlockSize \in Nat \ {0}
      BY <2>2, Sizes, SizesAssumption DEF Addrs
    <3>3. mmap[i].start = (BlockSize * (mmap[i].start \div BlockSize)) + 0
      BY <3>1, <3>2, ModBounds, Zenon DEF PageAligned
    <3>4. BlockSize * 0 = 0
      BY <3>2
    <3> QED
      BY <2>2, <3>3, <3>4 DEF BlockNumber
  <2>5. BlockNumber(mmap[i].start) + BlockNumber(mmap[i].size) <= NumBlocks
    BY DEF CleanMap
  <2> QED
    BY <2>3, <2>4, <2>5, Sizes DEF BlockRange, Blocks
<1> QED
  BY <1>1 DEF Init, Pool!Init, Reply, Pool!Reply

LEMMA NextRefines ==
  ASSUME Inv, CleanMap(mmap), WordAligned(mmap), [Next]_vars
  PROVE  [Pool!Next]_PoolVars
<1>1. mmap' = mmap /\ (phase = "ready" => phase' = "ready")
  BY DEF Next, vars, ReadEntry, ReserveKernel, AllocateBlock, AllocateFails,
         FreeBlock, FreeRejected
<1>2. Inv'
  BY NextInv
<1>3. /\ phase = "ready" => PoolExact
      /\ phase' = "ready" => PoolExact'
  BY <1>1, <1>2 DEF Inv, PoolConserved
<1>4. CASE ReadEntry
  BY <1>1, <1>4 DEF ReadEntry, PoolVars
<1>5. CASE ReserveKernel
  <2>1. held = {} /\ held' = {} /\ reply' = reply /\ phase = "map" /\ phase' = "ready"
    BY <1>5 DEF ReserveKernel, Inv, MapProgress
  <2>2. FreeBlocks' = Available(mmap)
    BY <1>1, <1>3, <2>1 DEF PoolExact
  <2> QED
    BY <1>1, <2>1, <2>2 DEF PoolVars
<1>6. CASE AllocateBlock
  <2>1. PICK b \in Blocks :
          /\ b \notin used
          /\ used' = ToggleBlock(used, b) /\ held' = held \cup {b}
          /\ reply' = Reply("alloc", 0, BlockAddress(b))
          /\ phase = "ready" /\ phase' = "ready"
    BY <1>6 DEF AllocateBlock, LowestFree
  <2>2. b \in FreeBlocks /\ FreeBlocks' = FreeBlocks \ {b}
    BY <2>1 DEF FreeBlocks, ToggleBlock, SymDiff
  <2>3. Pool!Take
    BY <1>1, <2>1, <2>2 DEF Pool!Take, Pool!Reply, Reply, Pool!BlockAddress, BlockAddress
  <2> QED
    BY <2>3 DEF Pool!Next
<1>7. CASE AllocateFails
  <2>1. /\ phase = "ready" /\ phase' = "ready" /\ FreeBlocks = {} /\ FreeBlocks' = {}
        /\ held' = held /\ reply' = Reply("alloc", 0, 0)
    BY <1>7 DEF AllocateFails, FreeBlocks
  <2>2. Pool!TakeFails
    BY <1>1, <2>1 DEF Pool!TakeFails, Pool!Reply, Reply
  <2> QED
    BY <2>2 DEF Pool!Next
<1>8. ASSUME NEW a \in Addrs, FreeBlock(a)
      PROVE  Pool!Next
  <2> DEFINE b == BlockNumber(a)
  <2>1. b \in used /\ b \in held /\ b \in Blocks /\ PageAligned(a)
    BY <1>8, Sizes DEF FreeBlock, Accepted, MayPass
  <2>2. /\ phase = "ready" /\ phase' = "ready"
        /\ used' = ToggleBlock(used, b) /\ held' = held \ {b} /\ reply' = Reply("free", a, 1)
    BY <1>8 DEF FreeBlock
  <2>3. FreeBlocks' = FreeBlocks \cup {b}
    <3> HIDE DEF b
    <3> QED
      BY <2>1, <2>2 DEF FreeBlocks, ToggleBlock, SymDiff
  <2>4. a = BlockAddress(b)
    <3>1. a \in Nat /\ BlockSize \in Nat \ {0}
      BY Sizes, SizesAssumption DEF Addrs
    <3>2. a = (BlockSize * (a \div BlockSize)) + 0 /\ a \div BlockSize \in Nat
      BY <2>1, <3>1, ModBounds, Zenon DEF PageAligned
    <3> QED
      BY <3>1, <3>2 DEF BlockAddress, BlockNumber
  <2> HIDE DEF b
  <2>5. Pool!Give
    BY <1>1, <2>1, <2>2, <2>3, <2>4 DEF Pool!Give, Pool!Reply, Reply, Pool!BlockAddress, BlockAddress
  <2> QED
    BY <2>5 DEF Pool!Next
<1>9. ASSUME NEW a \in Addrs, FreeRejected(a)
      PROVE  Pool!Next
  <2>1. /\ phase = "ready" /\ phase' = "ready" /\ used' = used /\ held' = held
        /\ reply' = Reply("free", a, 0) /\ ~Accepted(a)
    BY <1>9 DEF FreeRejected
  <2>2. \A b \in held : a # BlockAddress(b)
    <3> SUFFICES ASSUME NEW b \in held, a = BlockAddress(b) PROVE FALSE
      OBVIOUS
    <3>1. b \in Nat /\ b \in used /\ BlockSize \in Nat \ {0}
      BY Sizes, SizesAssumption DEF Inv, TypeOK, HeldIsMarked, Blocks
    <3>2. PageAligned(a) /\ BlockNumber(a) = b
      BY <3>1, DivOfMultiple DEF PageAligned, BlockNumber, BlockAddress
    <3> QED
      BY <2>1, <3>1, <3>2 DEF Accepted
  <2>3. Pool!GiveRejected
    BY <1>1, <2>1, <2>2 DEF Pool!GiveRejected, Pool!Reply, Reply, Pool!BlockAddress,
       BlockAddress, FreeBlocks
  <2> QED
    BY <2>3 DEF Pool!Next
<1>10. CASE UNCHANGED vars
  BY <1>10 DEF vars, PoolVars, FreeBlocks
<1> QED
  BY <1>4, <1>5, <1>6, <1>7, <1>8, <1>9, <1>10 DEF Next

\* The memory manager implements the abstract pool of blocks, for bitmaps,
\* blocks and kernels of every size and for every clean, word-aligned map.
THEOREM PhysMemImplementsPool == Spec => ImplementsPool
<1>1. Init => (CleanMap(mmap) /\ WordAligned(mmap) => Pool!Init)
  BY InitRefines
<1>2. Inv /\ [Next]_vars => [CleanMap(mmap) /\ WordAligned(mmap) => Pool!Next]_PoolVars
  BY NextRefines
<1> QED
  BY <1>1, <1>2, InitInv, NextInv, PTL DEF Spec, ImplementsPool
=============================================================================
