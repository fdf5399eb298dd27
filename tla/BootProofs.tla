------------------------------ MODULE BootProofs ------------------------------
(***************************************************************************)
(* The kernel that kmain's processor runs is KERNEL.BIN, for every disk,   *)
(* every table and whatever lay in memory before, and the words on its     *)
(* stack are the parameters of kmain, in their order.                      *)
(***************************************************************************)
EXTENDS Boot, WellFoundedInduction, TLAPS

-----------------------------------------------------------------------------
(* The chain of a file *)

\* Induction on the natural numbers, for a set.
LEMMA NatsBySteps ==
  ASSUME NEW S, 0 \in S, \A n \in Nat : n \in S => n + 1 \in S
  PROVE  \A n \in Nat : n \in S
<1> DEFINE R   == OpToRel(<, Nat)
           Bad == {n \in Nat : n \notin S}
<1>1. Bad = {} \/ \E m \in Bad : \A n \in Bad : <<n, m>> \notin R
  <2>1. IsWellFoundedOn(R, Nat) /\ Bad \subseteq Nat
    BY NatLessThanWellFounded
  <2> HIDE DEF R, Bad
  <2> QED
    BY <2>1, WFMin
<1>2. \A x, y \in Nat : y < x => <<y, x>> \in R
  BY DEF OpToRel
<1> HIDE DEF R
<1>3. ASSUME NEW m \in Bad, \A n \in Bad : <<n, m>> \notin R
      PROVE  FALSE
  <2>1. m \in Nat /\ m # 0
    OBVIOUS
  <2>2. m - 1 \in Nat /\ m - 1 < m /\ (m - 1) + 1 = m
    BY <2>1
  <2>3. m - 1 \notin Bad
    BY <1>2, <1>3, <2>1, <2>2
  <2>4. m - 1 \in S
    BY <2>2, <2>3
  <2>5. (m - 1) + 1 \in S
    BY <2>2, <2>4
  <2> QED
    BY <2>2, <2>5
<1> QED
  BY <1>1, <1>3

\* u holds a chain's clusters up to the n-th.
Chain(u, a, g, n) ==
  /\ u = [k \in 0 .. n |-> u[k]]
  /\ \A k \in 0 .. n : u[k] = IF k = 0 THEN a ELSE g[u[k - 1]]

\* What the LET of Followed defines exists.
LEMMA UpToExists ==
  ASSUME NEW a, NEW g, NEW n \in Nat
  PROVE  \E u : Chain(u, a, g, n)
<1> DEFINE Is(u, m) == /\ u = [k \in 0 .. m |-> u[k]]
                       /\ \A k \in 0 .. m : u[k] = IF k = 0 THEN a ELSE g[u[k - 1]]
           S == {m \in Nat : \E u : Is(u, m)}
<1>1. 0 \in S
  <2> DEFINE v == [k \in 0 .. 0 |-> a]
  <2>1. Is(v, 0)
    OBVIOUS
  <2> HIDE DEF Is, v
  <2> QED
    BY <2>1
<1>2. ASSUME NEW m \in Nat, m \in S
      PROVE  m + 1 \in S
  <2>1. PICK u : Is(u, m)
    BY <1>2
  <2> DEFINE v == [k \in 0 .. m + 1 |-> IF k = m + 1 THEN g[u[m]] ELSE u[k]]
  <2>2. \A k \in 0 .. m : v[k] = u[k]
    OBVIOUS
  <2>3. \A k \in 0 .. m : u[k] = IF k = 0 THEN a ELSE g[u[k - 1]]
    BY <2>1
  <2>4. ASSUME NEW k \in 0 .. m + 1
        PROVE  v[k] = IF k = 0 THEN a ELSE g[v[k - 1]]
    <3>1. CASE k = m + 1
      <4>1. v[k] = g[u[m]] /\ k - 1 = m /\ k # 0 /\ m \in 0 .. m
        BY <3>1
      <4> HIDE DEF v
      <4> QED
        BY <2>2, <4>1
    <3>2. CASE k # m + 1
      <4>1. k \in 0 .. m /\ (k # 0 => k - 1 \in 0 .. m)
        BY <3>2
      <4> HIDE DEF v
      <4> QED
        BY <2>2, <2>3, <4>1
    <3> QED
      BY <3>1, <3>2
  <2>5. v = [k \in 0 .. m + 1 |-> v[k]]
    OBVIOUS
  <2>6. Is(v, m + 1)
    <3> HIDE DEF v
    <3> QED
      BY <2>4, <2>5
  <2> HIDE DEF Is, v
  <2> QED
    BY <2>6
<1>3. n \in S
  <2> HIDE DEF S
  <2> QED
    BY <1>1, <1>2, NatsBySteps
<1> QED
  BY <1>3 DEF Chain

\* The clusters of a chain, one after the other.
LEMMA FollowedIs ==
  ASSUME NEW f, NEW n \in Nat
  PROVE  /\ Followed(f, 0) = disk.first[f]
         /\ Followed(f, n + 1) = disk.fat[Followed(f, n)]
<1> DEFINE a == disk.first[f]
           g == disk.fat
           Is(u, m) == u = [k \in 0 .. m |-> IF k = 0 THEN a ELSE g[u[k - 1]]]
           U(m) == CHOOSE u : Is(u, m)
<1>1. \A m \in Nat : Is(U(m), m)
  <2> TAKE m \in Nat
  <2>1. \E u : Is(u, m)
    <3> HIDE DEF a, g
    <3>1. PICK u : Chain(u, a, g, m)
      BY Zenon, UpToExists
    <3>2. Is(u, m)
      BY <3>1 DEF Chain
    <3> QED
      BY <3>2
  <2> HIDE DEF Is
  <2> QED
    BY <2>1
<1>2. \A m : Followed(f, m) = U(m)[m]
  BY Zenon DEF Followed
<1> HIDE DEF U
<1>3. \A m \in Nat : \A k \in 0 .. m : U(m)[k] = IF k = 0 THEN a ELSE g[U(m)[k - 1]]
  <2> TAKE m \in Nat
  <2>1. Is(U(m), m)
    BY <1>1
  <2> DEFINE u == U(m)
  <2>2. Is(u, m)
    BY <2>1
  <2> HIDE DEF u, a, g
  <2>3. \A k \in 0 .. m : u[k] = IF k = 0 THEN a ELSE g[u[k - 1]]
    BY <2>2
  <2> USE DEF u
  <2> QED
    BY <2>3
<1> DEFINE S == {k \in Nat : k <= n => U(n)[k] = U(n + 1)[k]}
<1> HIDE DEF a, g, Is
<1>4. 0 \in S
  BY <1>3
<1>5. ASSUME NEW k \in Nat, k \in S
      PROVE  k + 1 \in S
  <2> SUFFICES ASSUME k + 1 <= n
               PROVE  U(n)[k + 1] = U(n + 1)[k + 1]
    OBVIOUS
  <2>1. /\ k + 1 \in 0 .. n /\ k + 1 \in 0 .. n + 1 /\ n + 1 \in Nat /\ k <= n
        /\ k + 1 # 0 /\ (k + 1) - 1 = k
    OBVIOUS
  <2>2. U(n)[k] = U(n + 1)[k]
    BY <1>5, <2>1
  <2>3. U(n)[k + 1] = g[U(n)[k]] /\ U(n + 1)[k + 1] = g[U(n + 1)[k]]
    <3> HIDE DEF S
    <3> QED
      BY <1>3, <2>1
  <2> QED
    BY <2>2, <2>3
<1>6. n \in S
  <2> HIDE DEF S
  <2> QED
    BY <1>4, <1>5, NatsBySteps
<1>7. U(n)[n] = U(n + 1)[n]
  BY <1>6
<1>8. U(n + 1)[n + 1] = g[U(n + 1)[n]] /\ U(0)[0] = a
  <2>1. n + 1 \in 0 .. n + 1 /\ n + 1 # 0 /\ (n + 1) - 1 = n /\ n + 1 \in Nat /\ 0 \in 0 .. 0
    OBVIOUS
  <2> QED
    BY <1>3, <2>1
<1> QED
  BY <1>2, <1>7, <1>8 DEF a, g

-----------------------------------------------------------------------------
(* The table's entries, twelve bits each *)

LEMMA NibbleIs ==
  ASSUME NEW table, NEW c \in Nat, c \in DOMAIN table
  PROVE  /\ Nibble(table, 3 * c) = (table[c] \div 1) % 16
         /\ Nibble(table, 3 * c + 1) = (table[c] \div 16) % 16
         /\ Nibble(table, 3 * c + 2) = (table[c] \div 256) % 16
<1>1. /\ (3 * c) \div 3 = c /\ (3 * c) % 3 = 0
      /\ (3 * c + 1) \div 3 = c /\ (3 * c + 1) % 3 = 1
      /\ (3 * c + 2) \div 3 = c /\ (3 * c + 2) % 3 = 2
  OBVIOUS
<1>2. 16 ^ 0 = 1 /\ 16 ^ 1 = 16 /\ 16 ^ 2 = 256
  OBVIOUS
<1> QED
  BY <1>1, <1>2 DEF Nibble

LEMMA NibbleType ==
  ASSUME NEW table, \A c \in DOMAIN table : table[c] \in FatValues, NEW n \in Nat
  PROVE  Nibble(table, n) \in 0 .. 15
<1>1. n % 3 \in 0 .. 2
  OBVIOUS
<1>2. 16 ^ 0 = 1 /\ 16 ^ 1 = 16 /\ 16 ^ 2 = 256
  OBVIOUS
<1>3. ASSUME NEW v \in FatValues
      PROVE  (v \div 16 ^ (n % 3)) % 16 \in 0 .. 15
  BY <1>1, <1>2, <1>3 DEF FatValues, End
<1> QED
  BY <1>3 DEF Nibble

LEMMA Digits ==
  ASSUME NEW v \in 0 .. 4095
  PROVE  v = ((v \div 1) % 16) + 16 * ((v \div 16) % 16) + 256 * ((v \div 256) % 16)
  OBVIOUS

\* GetNextSector finds the entry, wherever the pair of bytes it is taken from begins.
LEMMA NextSectorIs ==
  ASSUME NEW table, \A k \in DOMAIN table : table[k] \in FatValues,
         NEW c \in Nat, c \in DOMAIN table
  PROVE  NextSector(table, c) = {table[c]}
<1> DEFINE v == table[c]
           w == Word(table, (c * 3) \div 2)
<1>1. v \in 0 .. 4095
  BY DEF FatValues, End
<1>2. /\ Nibble(table, 3 * c) = (v \div 1) % 16
      /\ Nibble(table, 3 * c + 1) = (v \div 16) % 16
      /\ Nibble(table, 3 * c + 2) = (v \div 256) % 16
  BY NibbleIs
<1>3. v = Nibble(table, 3 * c) + 16 * Nibble(table, 3 * c + 1) + 256 * Nibble(table, 3 * c + 2)
  <2> HIDE DEF v
  <2>1. v = ((v \div 1) % 16) + 16 * ((v \div 16) % 16) + 256 * ((v \div 256) % 16)
    BY <1>1, Digits
  <2> QED
    BY <1>2, <2>1
<1>4. \A n \in Nat : Nibble(table, n) \in 0 .. 15
  BY NibbleType
<1>5. CASE Odd(c)
  <2>1. 2 * ((c * 3) \div 2) = 3 * c - 1 /\ c # 0
    BY <1>5 DEF Odd
  <2>2. w = Nibble(table, 3 * c - 1) + 16 * Nibble(table, 3 * c)
              + 256 * Nibble(table, 3 * c + 1) + 4096 * Nibble(table, 3 * c + 2)
    <3>1. /\ 2 * ((c * 3) \div 2) + 1 = 3 * c /\ 2 * ((c * 3) \div 2) + 2 = 3 * c + 1
          /\ 2 * ((c * 3) \div 2) + 3 = 3 * c + 2
      BY <2>1
    <3> QED
      BY <2>1, <3>1 DEF Word
  <2>3. /\ Nibble(table, 3 * c - 1) \in 0 .. 15 /\ Nibble(table, 3 * c) \in 0 .. 15
        /\ Nibble(table, 3 * c + 1) \in 0 .. 15 /\ Nibble(table, 3 * c + 2) \in 0 .. 15
    <3>1. 3 * c - 1 \in Nat /\ 3 * c \in Nat /\ 3 * c + 1 \in Nat /\ 3 * c + 2 \in Nat
      BY <2>1
    <3> QED
      BY <1>4, <3>1
  <2>4. w \div 16 = v
    <3> HIDE DEF v, w
    <3>1. w = Nibble(table, 3 * c - 1) + 16 * v
      <4> DEFINE x == Nibble(table, 3 * c - 1)
                 n == Nibble(table, 3 * c)
                 o == Nibble(table, 3 * c + 1)
                 p == Nibble(table, 3 * c + 2)
      <4>1. /\ x \in 0 .. 15 /\ n \in 0 .. 15 /\ o \in 0 .. 15 /\ p \in 0 .. 15
            /\ w = x + 16 * n + 256 * o + 4096 * p /\ v = n + 16 * o + 256 * p
        BY <1>3, <2>2, <2>3
      <4> HIDE DEF x, n, o, p
      <4>2. w = x + 16 * v
        BY <4>1
      <4> QED
        BY <4>2 DEF x
    <3> QED
      BY <1>1, <2>3, <3>1
  <2> QED
    BY <1>5, <2>4 DEF NextSector
<1>6. CASE ~Odd(c)
  <2>1. 2 * ((c * 3) \div 2) = 3 * c
    BY <1>6 DEF Odd
  <2>2. w = Nibble(table, 3 * c) + 16 * Nibble(table, 3 * c + 1)
              + 256 * Nibble(table, 3 * c + 2) + 4096 * Nibble(table, 3 * c + 3)
    BY <2>1 DEF Word
  <2>3. Nibble(table, 3 * c + 3) \in 0 .. 15
    BY <1>4
  <2>4. w % 4096 = v
    <3> HIDE DEF v, w
    <3>1. w = v + 4096 * Nibble(table, 3 * c + 3)
      <4>1. /\ Nibble(table, 3 * c) \in 0 .. 15
            /\ Nibble(table, 3 * c + 1) \in 0 .. 15 /\ Nibble(table, 3 * c + 2) \in 0 .. 15
        BY <1>4
      <4> QED
        BY <1>3, <2>2, <2>3, <4>1
    <3> DEFINE x == Nibble(table, 3 * c + 3)
    <3>2. w = v + 4096 * x /\ x \in 0 .. 15 /\ v \in 0 .. 4095
      BY <1>1, <2>3, <3>1
    <3> HIDE DEF x
    <3>3. (v + 4096 * x) % 4096 = v
      BY <3>2
    <3> QED
      BY <3>2, <3>3
  <2> QED
    BY <1>6, <2>4 DEF NextSector
<1> QED
  BY <1>5, <1>6

-----------------------------------------------------------------------------
(* The sector the BIOS reads *)

LEMMA DivMod ==
  ASSUME NEW a \in Nat, NEW b \in Nat \ {0}
  PROVE  /\ a \div b \in Nat /\ a % b \in 0 .. b - 1
         /\ a = (a \div b) * b + (a % b)
  OBVIOUS

LEMMA DivBelow ==
  ASSUME NEW a \in Nat, NEW b \in Nat \ {0}, NEW m \in Nat, a < m * b
  PROVE  a \div b < m
<1>1. a \div b \in Nat /\ a % b \in Nat /\ a = (a \div b) * b + (a % b)
  BY DivMod
<1> DEFINE d == a \div b
           r == a % b
<1>2. d \in Nat /\ r \in Nat /\ a = d * b + r
  BY <1>1
<1> HIDE DEF d, r
<1>3. CASE d >= m
  <2>1. PICK e \in Nat : d = m + e
    BY <1>2, <1>3
  <2>2. d * b = m * b + e * b /\ e * b >= 0
    BY <2>1
  <2> QED
    BY <1>2, <2>2
<1> QED
  BY <1>2, <1>3 DEF d

\* LBA_to_CHS names the sector it was given, up to the last cylinder.
LEMMA SectorAtPlace ==
  ASSUME NEW lba \in Nameable
  PROVE  SectorAt(Place(lba)) = lba
<1>1. lba \in Nat /\ SectorsPerTrack \in Nat \ {0} /\ Heads \in Nat \ {0} /\ Cylinders \in Nat \ {0}
  BY DiskAssumption DEF Nameable
<1> DEFINE t == lba \div SectorsPerTrack
           s == lba % SectorsPerTrack
           h == t % Heads
           y == t \div Heads
<1>2. t \in Nat /\ s \in Nat /\ lba = t * SectorsPerTrack + s
  <2>1. /\ lba \div SectorsPerTrack \in Nat
        /\ lba % SectorsPerTrack \in 0 .. SectorsPerTrack - 1
        /\ lba = (lba \div SectorsPerTrack) * SectorsPerTrack + (lba % SectorsPerTrack)
    BY Zenon, <1>1, DivMod
  <2>2. t \in Nat /\ s \in 0 .. SectorsPerTrack - 1 /\ lba = t * SectorsPerTrack + s
    BY Zenon, <2>1
  <2> HIDE DEF t, s
  <2> QED
    BY <1>1, <2>2
<1>3. t < Cylinders * Heads
  <2>1. lba < (Cylinders * Heads) * SectorsPerTrack /\ Cylinders * Heads \in Nat
    BY <1>1 DEF Nameable
  <2> QED
    BY <1>1, <2>1, DivBelow
<1>4. y \in Nat /\ h \in Nat /\ t = y * Heads + h
  <2> HIDE DEF t
  <2>1. t \div Heads \in Nat /\ t % Heads \in 0 .. Heads - 1
        /\ t = (t \div Heads) * Heads + (t % Heads)
    BY Zenon, <1>1, <1>2, DivMod
  <2>2. y \in Nat /\ h \in 0 .. Heads - 1 /\ t = y * Heads + h
    BY Zenon, <2>1
  <2> HIDE DEF y, h
  <2> QED
    BY <1>1, <2>2
<1>5. y < Cylinders
  <2> HIDE DEF t
  <2> QED
    BY <1>1, <1>2, <1>3, DivBelow
<1>6. y % Cylinders = y
  <2> HIDE DEF y
  <2> QED
    BY <1>1, <1>4, <1>5
<1>7. Place(lba) = [sector |-> s + 1, head |-> h, cylinder |-> y % Cylinders]
  BY DEF Place
<1> HIDE DEF t, s, h, y
<1>8. SectorAt(Place(lba)) = (y * Heads + h) * SectorsPerTrack + (s + 1) - 1
  BY <1>6, <1>7 DEF SectorAt
<1> QED
  BY <1>1, <1>2, <1>4, <1>8

-----------------------------------------------------------------------------
(* The kernel is what the disk holds *)

\* The first k sectors are where they belong.
ReadUpTo(k) ==
  \A i \in 0 .. k - 1 : memory["KERNEL"][i] = Lba(Followed("KERNEL", i))

\* Where stage 1 and stage 2 are in a KERNEL.BIN of n sectors.
Along(n) ==
  /\ pc = "read" /\ file = "KERNEL" =>
       \E k \in 0 .. n :
         /\ count = k /\ cluster = Followed("KERNEL", k) /\ ReadUpTo(k)
         /\ k < SegmentSectors => at = k
  /\ pc \in {"end_of_stage", "enter_stage2", "start", "memory_map", "switch_to_pm",
            "protected", "transfer"} =>
       count = n /\ ReadUpTo(n)
  /\ pc \in {"enter", "kmain"} =>
       kernel = [i \in 0 .. n - 1 |-> Lba(Followed("KERNEL", i))]

\* The directory and the table in memory are the disk's, once they were read.
AsOnDisk ==
  /\ pc # "load_root" => root = disk.first
  /\ pc \notin {"load_root", "load_fat"} => fat = disk.fat

KernelInv ==
  /\ disk \in Disks /\ file \in Files /\ failed \in Nat
  /\ DOMAIN memory = Files /\ \A f \in Files : DOMAIN memory[f] = 0 .. SegmentSectors - 1
  /\ failed = 0 => AsOnDisk /\ \A n \in Lengths : Readable(n) => Along(n)

LEMMA DiskType ==
  ASSUME disk \in Disks
  PROVE  /\ Lengths \subseteq Nat \ {0}
         /\ DOMAIN disk.fat \subseteq Nat /\ End \notin DOMAIN disk.fat
         /\ \A c \in DOMAIN disk.fat : disk.fat[c] \in FatValues
<1>1. /\ DOMAIN disk.fat = 0 .. Cardinality(DOMAIN disk.fat) - 1
      /\ Cardinality(DOMAIN disk.fat) \in 2 .. End
      /\ \A c \in DOMAIN disk.fat : disk.fat[c] \in FatValues
  BY DiskAssumption
<1> DEFINE c == Cardinality(DOMAIN disk.fat)
<1>2. c \in 2 .. End
  BY Zenon, <1>1
<1>3. DOMAIN disk.fat = 0 .. c - 1
  BY Zenon, <1>1
<1>4. Lengths = 1 .. c
  BY Zenon DEF Lengths
<1> HIDE DEF c
<1>5. 1 .. c \subseteq Nat \ {0} /\ 0 .. c - 1 \subseteq Nat /\ End \notin 0 .. c - 1
  BY <1>2 DEF End
<1> QED
  BY <1>1, <1>3, <1>4, <1>5

\* The chain of a file that can be read, and that of its end.
LEMMA ReadableChain ==
  ASSUME disk \in Disks, NEW n \in Lengths, Readable(n)
  PROVE  /\ n \in Nat \ {0} /\ n <= SegmentSectors /\ n < CountSize
         /\ \A i \in 0 .. n - 1 : /\ Followed("KERNEL", i) \in DOMAIN disk.fat
                                  /\ Followed("KERNEL", i) # End
                                  /\ Lba(Followed("KERNEL", i)) \in Nameable
         /\ Followed("KERNEL", n) = End
<1>1. n \in Nat \ {0} /\ n <= SegmentSectors
  BY DiskType DEF Readable
<1>2. n < CountSize
  BY <1>1, DiskAssumption
<1>3. \A i \in 0 .. n - 1 : /\ Followed("KERNEL", i) \in DOMAIN disk.fat
                            /\ Lba(Followed("KERNEL", i)) \in Nameable
                            /\ (Followed("KERNEL", i + 1) = End <=> i = n - 1)
  BY DEF Readable, HasLength
<1>4. \A i \in 0 .. n - 1 : Followed("KERNEL", i) # End
  BY <1>3, DiskType
<1>5. Followed("KERNEL", n) = End
  <2>1. n - 1 \in 0 .. n - 1 /\ (n - 1) + 1 = n
    BY <1>1
  <2> QED
    BY <1>3, <2>1
<1> QED
  BY <1>1, <1>2, <1>3, <1>4, <1>5

LEMMA FollowedSame ==
  ASSUME disk' = disk, NEW f, NEW n
  PROVE  Followed(f, n)' = Followed(f, n)
  BY DEF Followed

LEMMA ReadableSame ==
  ASSUME disk' = disk, NEW n
  PROVE  (Lengths' = Lengths) /\ (Readable(n)' <=> Readable(n))
<1>1. HasLength("KERNEL", n)' <=> HasLength("KERNEL", n)
  BY FollowedSame DEF HasLength
<1> QED
  BY <1>1, FollowedSame DEF Readable, Lengths

LEMMA ReadUpToSame ==
  ASSUME disk' = disk, memory'["KERNEL"] = memory["KERNEL"], NEW k
  PROVE  ReadUpTo(k)' <=> ReadUpTo(k)
  BY FollowedSame DEF ReadUpTo

LEMMA KernelInvInit ==
  ASSUME Init
  PROVE  KernelInv
<1>1. \A n \in Lengths : Along(n)
  BY DEF Init, Along
<1> QED
  BY <1>1 DEF Init, KernelInv, AsOnDisk, Files

\* What is left to show of a step that leaves the disk alone.
LEMMA KernelInvStep ==
  ASSUME KernelInv, disk' = disk, file' \in Files, failed' \in Nat,
         DOMAIN memory' = Files, \A f \in Files : DOMAIN memory'[f] = 0 .. SegmentSectors - 1,
         failed' = 0 => AsOnDisk',
         \A n \in Lengths : failed' = 0 /\ Readable(n) => Along(n)'
  PROVE  KernelInv'
  BY ReadableSame DEF KernelInv

\* The directory and the table stay as they were read.
LEMMA AsOnDiskKept ==
  ASSUME KernelInv, disk' = disk, root' = root, fat' = fat,
         pc \notin {"load_root", "load_fat"}, failed' = 0 => failed = 0
  PROVE  failed' = 0 => AsOnDisk'
  BY DEF KernelInv, AsOnDisk

LEMMA LoadKernel ==
  ASSUME KernelInv, LoadRoot \/ LoadFAT
  PROVE  KernelInv'
<1>1. /\ disk' = disk /\ file' = file /\ memory' = memory /\ failed \in Nat /\ failed' \in Nat
      /\ pc' \in {"load_fat", "find"}
      /\ failed' = 0 => failed = 0
  BY DEF LoadRoot, LoadFAT, ReadFails, KernelInv, given
<1>2. failed' = 0 => AsOnDisk'
  <2>1. CASE LoadRoot
    BY <1>1, <2>1 DEF LoadRoot, ReadFails, AsOnDisk, KernelInv
  <2>2. CASE LoadFAT
    BY <1>1, <2>2 DEF LoadFAT, ReadFails, AsOnDisk, KernelInv
  <2> QED
    BY <2>1, <2>2
<1>3. ASSUME NEW n \in Lengths
      PROVE  Along(n)'
  BY <1>1 DEF Along
<1> QED
  BY <1>1, <1>2, <1>3, KernelInvStep DEF KernelInv

LEMMA FindfileKernel ==
  ASSUME KernelInv, Findfile
  PROVE  KernelInv'
<1> USE DEF Findfile, stage2, given, loaded
<1>1. ASSUME NEW n \in Lengths, Readable(n), failed' = 0
      PROVE  Along(n)'
  <2>1. 0 \in 0 .. n /\ 0 .. 0 - 1 = {}
    BY <1>1, ReadableChain DEF KernelInv
  <2>2. (ReadUpTo(0))'
    BY <2>1 DEF ReadUpTo
  <2>3. pc' = "read" /\ file' = "KERNEL" =>
          count' = 0 /\ at' = 0 /\ cluster' = Followed("KERNEL", 0)'
    <3>1. root = disk.first
      BY <1>1 DEF KernelInv, AsOnDisk
    <3> QED
      BY <3>1, FollowedIs, FollowedSame
  <2> HIDE DEF Findfile
  <2>4. pc' \in {"read", "not_found"}
    BY DEF Findfile
  <2> QED
    BY <2>1, <2>2, <2>3, <2>4 DEF Along
<1>2. failed' = 0 => AsOnDisk'
  BY AsOnDiskKept
<1> QED
  BY <1>1, <1>2, KernelInvStep DEF KernelInv

LEMMA ReadSectorKernel ==
  ASSUME KernelInv, ReadSector
  PROVE  KernelInv'
<1>1. /\ disk' = disk /\ file' = file /\ root' = root /\ fat' = fat /\ failed' \in Nat
      /\ pc = "read" /\ pc' \in {"read", "lost"}
      /\ failed' = 0 => failed = 0
      /\ DOMAIN memory' = Files
      /\ \A f \in Files : DOMAIN memory'[f] = 0 .. SegmentSectors - 1
  BY DEF ReadSector, ReadFails, KernelInv, given, loaded
<1>2. ASSUME NEW n \in Lengths, Readable(n), failed' = 0, file = "KERNEL"
      PROVE  Along(n)'
  <2>1. failed = 0 /\ memory' = [memory EXCEPT ![file][at] = SectorAt(Place(Lba(cluster)))]
    BY <1>2 DEF ReadSector, ReadFails, KernelInv
  <2>2. PICK k \in 0 .. n : /\ count = k /\ cluster = Followed("KERNEL", k) /\ ReadUpTo(k)
                            /\ k < SegmentSectors => at = k
    BY <1>1, <1>2, <2>1 DEF KernelInv, Along
  <2>3. /\ n \in Nat \ {0} /\ n <= SegmentSectors /\ n < CountSize
        /\ Followed("KERNEL", n) = End
        /\ SegmentSectors \in Nat \ {0} /\ CountSize \in Nat \ {0}
    BY <1>2, ReadableChain, DiskAssumption DEF KernelInv
  <2>4. k \in 0 .. n - 1 /\ k \in Nat
    BY <2>2, <2>3 DEF ReadSector
  <2>5. /\ cluster \in DOMAIN disk.fat /\ Lba(cluster) \in Nameable
    BY <1>2, <2>2, <2>4, ReadableChain DEF KernelInv
  <2>6. at = k /\ k \in 0 .. SegmentSectors - 1
    BY <2>2, <2>3, <2>4
  <2>7. memory'["KERNEL"] = [memory["KERNEL"] EXCEPT ![k] = Lba(cluster)]
    BY <1>2, <2>1, <2>5, <2>6, SectorAtPlace DEF KernelInv, Files
  <2>8. ReadUpTo(k + 1)'
    <3>1. ASSUME NEW i \in 0 .. (k + 1) - 1
          PROVE  memory'["KERNEL"][i] = Lba(Followed("KERNEL", i))
      <4>1. i \in 0 .. SegmentSectors - 1 /\ (i = k \/ i \in 0 .. k - 1)
        <5>1. k \in Nat /\ k < SegmentSectors /\ SegmentSectors \in Nat
          BY <2>3, <2>4, <2>6
        <5> QED
          BY <5>1
      <4>2. DOMAIN memory["KERNEL"] = 0 .. SegmentSectors - 1
        BY DEF KernelInv, Files
      <4>3. CASE i = k
        BY <2>2, <2>7, <4>1, <4>2, <4>3
      <4>4. CASE i # k
        BY <2>2, <2>7, <4>1, <4>2, <4>4 DEF ReadUpTo
      <4> QED
        BY <4>3, <4>4
    <3> QED
      BY <1>1, <3>1, FollowedSame DEF ReadUpTo
  <2>9. cluster' = Followed("KERNEL", k + 1)'
    <3>1. cluster' \in NextSector(disk.fat, cluster)
      <4>1. fat = disk.fat
        BY <1>1, <2>1 DEF KernelInv, AsOnDisk
      <4> QED
        BY <4>1 DEF ReadSector
    <3>2. /\ \A c \in DOMAIN disk.fat : disk.fat[c] \in FatValues
          /\ cluster \in Nat
      BY <2>5, DiskType DEF KernelInv
    <3>3. NextSector(disk.fat, cluster) = {disk.fat[cluster]}
      BY <2>5, <3>2, NextSectorIs
    <3>4. Followed("KERNEL", k + 1) = disk.fat[Followed("KERNEL", k)]
      BY <2>4, FollowedIs
    <3> QED
      BY <1>1, <2>2, <3>1, <3>3, <3>4, FollowedSame
  <2>10. count' = k + 1 /\ k + 1 \in 0 .. n
    <3>1. count' = (k + 1) % CountSize
      BY <2>2 DEF ReadSector
    <3> QED
      BY <2>3, <2>4, <3>1
  <2>11. k + 1 < SegmentSectors => at' = k + 1
    <3>1. at' = (k + 1) % SegmentSectors
      BY <2>6 DEF ReadSector
    <3> QED
      BY <2>3, <2>4, <3>1
  <2> QED
    BY <1>1, <2>8, <2>9, <2>10, <2>11 DEF Along
<1>3. ASSUME NEW n \in Lengths, file # "KERNEL"
      PROVE  Along(n)'
  BY <1>1, <1>3 DEF Along
<1>4. \A n \in Lengths : failed' = 0 /\ Readable(n) => Along(n)'
  BY <1>2, <1>3
<1>5. file' \in Files
  BY <1>1 DEF KernelInv
<1>6. failed' = 0 => AsOnDisk'
  BY <1>1, AsOnDiskKept
<1> QED
  BY <1>1, <1>4, <1>5, <1>6, KernelInvStep

LEMMA FileReadKernel ==
  ASSUME KernelInv, FileRead
  PROVE  KernelInv'
<1>1. /\ disk' = disk /\ failed' = failed /\ memory' = memory /\ count' = count
      /\ root' = root /\ fat' = fat /\ pc = "read" /\ cluster = End
      /\ \/ file = "STAGE2" /\ file' = "KERNEL" /\ pc' = "find"
         \/ file = "KERNEL" /\ file' = "KERNEL" /\ pc' = "end_of_stage"
  BY DEF FileRead, KernelInv, Files, given, loaded
<1>2. ASSUME NEW n \in Lengths, Readable(n), failed' = 0
      PROVE  Along(n)'
  <2>1. CASE file = "STAGE2"
    BY <1>1, <2>1 DEF Along
  <2>2. CASE file = "KERNEL"
    <3>1. PICK k \in 0 .. n : count = k /\ cluster = Followed("KERNEL", k) /\ ReadUpTo(k)
      BY <1>1, <1>2, <2>2 DEF KernelInv, Along
    <3>2. k = n
      BY <1>1, <1>2, <3>1, ReadableChain DEF KernelInv
    <3>3. ReadUpTo(n)' /\ count' = n
      BY <1>1, <3>1, <3>2, ReadUpToSame
    <3> QED
      BY <1>1, <2>2, <3>3 DEF Along
  <2> QED
    BY <1>1, <2>1, <2>2
<1>3. file' \in Files
  BY <1>1 DEF Files
<1>4. failed' = 0 => AsOnDisk'
  BY <1>1, AsOnDiskKept
<1> QED
  BY <1>1, <1>2, <1>3, <1>4, KernelInvStep DEF KernelInv

\* Stage 2 copies what was read, and touches it no more.
LEMMA Stage2Kernel ==
  ASSUME KernelInv,
         \/ EnterStage2 \/ KeyPressed \/ Start \/ GetMemoryMap \/ MemoryMapError
         \/ SwitchToPM \/ KernelTransfer \/ EnterKernel
  PROVE  KernelInv'
<1> USE DEF stage1, stage2, given, loaded
<1>1. /\ disk' = disk /\ failed' = failed /\ memory' = memory /\ count' = count /\ file' = file
      /\ root' = root /\ fat' = fat /\ pc \notin {"load_root", "load_fat"}
  BY DEF EnterStage2, KeyPressed, Awaiting, Start, GetMemoryMap, MemoryMapError, SwitchToPM,
         KernelTransfer, EnterKernel
<1>2. ASSUME NEW n \in Lengths, Readable(n), failed' = 0
      PROVE  Along(n)'
  <2>1. Along(n) /\ n \in Nat \ {0} /\ n <= SegmentSectors
    BY <1>1, <1>2, ReadableChain DEF KernelInv
  <2>2. ReadUpTo(n)' <=> ReadUpTo(n)
    BY <1>1, ReadUpToSame
  <2>3. CASE \/ EnterStage2 \/ KeyPressed \/ Start \/ GetMemoryMap \/ MemoryMapError
             \/ SwitchToPM
    <3>1. /\ pc \in {"end_of_stage", "enter_stage2", "start", "memory_map", "switch_to_pm",
                     "protected"}
          /\ pc' \in {"enter_stage2", "start", "memory_map", "switch_to_pm", "protected",
                      "reset", "transfer"}
      BY <2>3 DEF EnterStage2, KeyPressed, Awaiting, Start, GetMemoryMap, MemoryMapError,
                  SwitchToPM
    <3> QED
      BY <1>1, <2>1, <2>2, <3>1 DEF Along
  <2>4. CASE KernelTransfer
    <3>1. count = n /\ ReadUpTo(n)
      BY <2>1, <2>4 DEF KernelTransfer, Along
    <3>2. kernel' = [k \in 0 .. n - 1 |->
                       IF k < SegmentSectors THEN memory["KERNEL"][k] ELSE Unread]
      BY <2>4, <3>1 DEF KernelTransfer
    <3>3. \A k \in 0 .. n - 1 : k < SegmentSectors
      BY <2>1, DiskAssumption
    <3>4. kernel' = [k \in 0 .. n - 1 |-> Lba(Followed("KERNEL", k))]
      BY <3>1, <3>2, <3>3 DEF ReadUpTo
    <3>5. kernel' = [k \in 0 .. n - 1 |-> Lba(Followed("KERNEL", k)')]
      BY <1>1, <3>4, FollowedSame
    <3>6. pc' = "enter"
      BY <2>4 DEF KernelTransfer
    <3> QED
      BY <3>5, <3>6 DEF Along
  <2>5. CASE EnterKernel
    <3>1. pc = "enter" /\ pc' = "kmain" /\ kernel' = kernel
      BY <2>5 DEF EnterKernel
    <3>2. kernel = [k \in 0 .. n - 1 |-> Lba(Followed("KERNEL", k))]
      BY <2>1, <3>1 DEF Along
    <3>3. kernel' = [k \in 0 .. n - 1 |-> Lba(Followed("KERNEL", k)')]
      BY <1>1, <3>1, <3>2, FollowedSame
    <3> QED
      BY <3>1, <3>3 DEF Along
  <2> QED
    BY <2>3, <2>4, <2>5
<1>3. failed' = 0 => AsOnDisk'
  BY <1>1, AsOnDiskKept
<1> QED
  BY <1>1, <1>2, <1>3, KernelInvStep DEF KernelInv

\* A KERNEL.BIN that can be read is copied sector for sector, for every table, every
\* chain through it, every geometry of the disk and whatever lay in memory before.
THEOREM BootKernelIsTheFile == Spec => []KernelIsTheFile
<1>1. Init => KernelInv
  BY KernelInvInit
<1>2. KernelInv /\ [Next]_vars => KernelInv'
  <2> SUFFICES ASSUME KernelInv, [Next]_vars
               PROVE  KernelInv'
    OBVIOUS
  <2>1. CASE UNCHANGED vars
    <3>1. /\ disk' = disk /\ failed' = failed /\ memory' = memory /\ count' = count
          /\ file' = file /\ pc' = pc /\ cluster' = cluster /\ at' = at /\ kernel' = kernel
          /\ root' = root /\ fat' = fat
      BY <2>1 DEF vars, stage1, stage2, given, loaded
    <3>2. ASSUME NEW n \in Lengths, Along(n)
          PROVE  Along(n)'
      <4>1. kernel = [i \in 0 .. n - 1 |-> Lba(Followed("KERNEL", i))] =>
              kernel' = [i \in 0 .. n - 1 |-> Lba(Followed("KERNEL", i)')]
        BY <3>1, FollowedSame
      <4>2. \A k : ReadUpTo(k)' <=> ReadUpTo(k)
        BY <3>1, ReadUpToSame
      <4> QED
        BY <3>1, <3>2, <4>1, <4>2, FollowedSame DEF Along
    <3> QED
      BY <3>1, <3>2, KernelInvStep DEF KernelInv, AsOnDisk
  <2>2. CASE Next
    BY <2>2, LoadKernel, FindfileKernel, ReadSectorKernel, FileReadKernel, Stage2Kernel
       DEF Next, Machine
  <2> QED
    BY <2>1, <2>2
<1>3. KernelInv => KernelIsTheFile
  BY DEF KernelInv, Along, KernelIsTheFile
<1> QED
  BY <1>1, <1>2, <1>3, PTL DEF Spec

-----------------------------------------------------------------------------
(* The parameters of kmain *)

\* What GetMemoryMap has counted.
Counted ==
  /\ entries \in Nat
  /\ pc \in {"load_root", "load_fat", "find", "read", "not_found", "lost", "end_of_stage",
            "enter_stage2", "start", "memory_map"} => mapCount = entries
  /\ mapCount \in entries .. entries + 1

\* Where the numbers of the sectors are, between stage 1 and the kernel.
Carried ==
  /\ pc = "start" => stack = <<DataSector, RootSector, ReservedSectors>>
  /\ pc \in {"memory_map", "switch_to_pm", "protected", "reset", "transfer", "enter", "kmain"} =>
       layout = [data |-> DataSector, root |-> RootSector, fat |-> ReservedSectors]
  /\ pc = "kmain" => stack = <<mapCount, DataSector, RootSector, ReservedSectors>>

ParametersInv == Counted /\ Carried

\* kmain's parameters lie before it in their order, for every disk and every map of
\* the firmware's: nothing between the two pushes loses one or exchanges two.
THEOREM BootParametersHandedOn == Spec => []ParametersHandedOn
<1>1. Init => ParametersInv
  BY DEF Init, ParametersInv, Counted, Carried
<1>2. ParametersInv /\ [Next]_vars => ParametersInv'
  <2> SUFFICES ASSUME ParametersInv, [Next]_vars
               PROVE  ParametersInv'
    OBVIOUS
  <2> USE DEF ParametersInv, stage2
  <2>1. CASE LoadRoot \/ LoadFAT \/ Findfile \/ ReadSector \/ FileRead
    <3>1. /\ pc \in {"load_root", "load_fat", "find", "read"}
          /\ pc' \in {"load_fat", "find", "read", "not_found", "lost", "end_of_stage"}
          /\ entries' = entries /\ mapCount' = mapCount
      BY <2>1 DEF LoadRoot, LoadFAT, Findfile, ReadSector, FileRead
    <3> QED
      BY <3>1 DEF Counted, Carried
  <2>2. CASE EnterStage2
    BY <2>2 DEF EnterStage2, Handed, Counted, Carried
  <2>3. CASE KeyPressed
    BY <2>3 DEF KeyPressed, Awaiting, Counted, Carried
  <2>4. CASE Start
    BY <2>4 DEF Start, Counted, Carried
  <2>5. CASE GetMemoryMap
    BY <2>5 DEF GetMemoryMap, Counted, Carried
  <2>6. CASE MemoryMapError
    BY <2>6 DEF MemoryMapError, Counted, Carried
  <2>7. CASE SwitchToPM
    BY <2>7 DEF SwitchToPM, Counted, Carried
  <2>8. CASE KernelTransfer
    BY <2>8 DEF KernelTransfer, Counted, Carried
  <2>9. CASE EnterKernel
    BY <2>9 DEF EnterKernel, Counted, Carried
  <2>10. CASE UNCHANGED vars
    BY <2>10 DEF vars, Counted, Carried
  <2> QED
    BY <2>1, <2>2, <2>3, <2>4, <2>5, <2>6, <2>7, <2>8, <2>9, <2>10 DEF Next, Machine
<1>3. ParametersInv => ParametersHandedOn
  <2>1. ASSUME ParametersInv, pc = "kmain"
        PROVE  \E n \in entries .. entries + 1 :
                 stack = <<n, DataSector, RootSector, ReservedSectors>>
    <3>1. mapCount \in entries .. entries + 1
      BY <2>1 DEF ParametersInv, Counted
    <3>2. stack = <<mapCount, DataSector, RootSector, ReservedSectors>>
      BY <2>1 DEF ParametersInv, Carried
    <3> QED
      BY <3>1, <3>2
  <2> QED
    BY <2>1 DEF ParametersHandedOn
<1> QED
  BY <1>1, <1>2, <1>3, PTL DEF Spec
=============================================================================
