---------------------------- MODULE SchedSimProofs ----------------------------
(***************************************************************************)
(* For every workload and every number of processes, the simulator loses   *)
(* and duplicates no process, keeps to its degree of multiprogramming and  *)
(* to the quantum, and stays in a gridlock; while its clock runs, each     *)
(* time unit has gone to a process's work or to a turn begun with none     *)
(* left, so the run ends with the clock at the work it was given and with  *)
(* no turnaround shorter than the process's own work.                      *)
(***************************************************************************)
EXTENDS SchedSim, FiniteSetTheorems, SequenceTheorems, WellFoundedInduction, TLAPS

-----------------------------------------------------------------------------
(* Sequences that list a set: each of its elements once *)

Lists(q, S) ==
  /\ q \in Seq(S)
  /\ \A x \in S : \E j \in 1 .. Len(q) : q[j] = x
  /\ \A j, k \in 1 .. Len(q) : q[j] = q[k] => j = k

LEMMA LeastOfNats ==
  ASSUME NEW S, S \subseteq Nat, S # {}
  PROVE  \E x \in S : \A y \in S : x <= y
<1> DEFINE R == OpToRel(<, Nat)
<1>1. \E x \in S : \A y \in S : ~(<<y, x>> \in R)
  <2>1. IsWellFoundedOn(R, Nat)
    BY NatLessThanWellFounded
  <2> HIDE DEF R
  <2> QED
    BY <2>1, WFMin
<1>2. \A x, y \in Nat : y < x => <<y, x>> \in R
  BY DEF OpToRel
<1> HIDE DEF R
<1>3. PICK x \in S : \A y \in S : ~(<<y, x>> \in R)
  BY <1>1
<1>4. \A y \in S : x <= y
  <2> TAKE y \in S
  <2>1. x \in Nat /\ y \in Nat /\ ~(y < x)
    BY <1>2, <1>3
  <2> QED
    BY <2>1
<1> QED
  BY <1>4

LEMMA ListsLen ==
  ASSUME NEW q, NEW S, Lists(q, S)
  PROVE  /\ IsFiniteSet(S) /\ Len(q) = Cardinality(S) /\ Len(q) \in Nat
         /\ ToSet(q) = S
<1>1. /\ q \in [1 .. Len(q) -> S] /\ Len(q) \in Nat
      /\ \A x \in S : \E j \in 1 .. Len(q) : q[j] = x
      /\ \A j, k \in 1 .. Len(q) : q[j] = q[k] => j = k
  BY LenProperties DEF Lists
<1> DEFINE D == 1 .. Len(q)
<1>2. IsFiniteSet(D) /\ Cardinality(D) = Len(q)
  BY <1>1, FS_Interval
<1>3. ToSet(q) = S
  BY <1>1 DEF ToSet
<1>4. q \in Surjection(D, S) /\ q \in Injection(D, S)
  BY <1>1 DEF Surjection, Injection, IsInjective
<1> HIDE DEF D
<1> QED
  BY <1>1, <1>2, <1>3, <1>4, FS_Surjection

LEMMA ListsEmpty == Lists(<<>>, {})
BY DEF Lists

LEMMA ListsConcat ==
  ASSUME NEW q, NEW S, NEW r, NEW T, Lists(q, S), Lists(r, T), S \cap T = {}
  PROVE  Lists(q \o r, S \cup T) /\ Len(q \o r) = Len(q) + Len(r)
<1> DEFINE U == S \cup T
           b == q \o r
<1>1. q \in Seq(S) /\ r \in Seq(T) /\ Len(q) \in Nat /\ Len(r) \in Nat
  BY LenProperties DEF Lists
<1>2. q \in Seq(U) /\ r \in Seq(U)
  BY <1>1, SeqMonotonic
<1>3. /\ b \in Seq(U) /\ Len(b) = Len(q) + Len(r)
      /\ \A j \in 1 .. Len(q) + Len(r) : b[j] = IF j <= Len(q) THEN q[j] ELSE r[j - Len(q)]
  <2> HIDE DEF U
  <2> QED
    BY <1>2, ConcatProperties
<1> HIDE DEF b
<1>4. /\ \A j \in 1 .. Len(q) : q[j] \in S
      /\ \A j \in 1 .. Len(r) : r[j] \in T
  BY <1>1, ElementOfSeq
<1>5. /\ \A j \in 1 .. Len(q) : j \in 1 .. Len(b) /\ b[j] = q[j]
      /\ \A j \in 1 .. Len(r) : j + Len(q) \in 1 .. Len(b) /\ b[j + Len(q)] = r[j]
  <2>1. ASSUME NEW j \in 1 .. Len(q) PROVE j \in 1 .. Len(b) /\ b[j] = q[j]
    <3>1. j \in 1 .. Len(q) + Len(r) /\ j <= Len(q)
      BY <1>1
    <3> QED
      BY <1>3, <3>1
  <2>2. ASSUME NEW j \in 1 .. Len(r) PROVE j + Len(q) \in 1 .. Len(b) /\ b[j + Len(q)] = r[j]
    <3>1. j + Len(q) \in 1 .. Len(q) + Len(r) /\ ~(j + Len(q) <= Len(q)) /\ (j + Len(q)) - Len(q) = j
      BY <1>1
    <3> QED
      BY <1>3, <3>1
  <2> QED
    BY <2>1, <2>2
<1>6. ASSUME NEW x \in U PROVE \E j \in 1 .. Len(b) : b[j] = x
  <2>1. CASE x \in S
    BY <1>5, <2>1 DEF Lists
  <2>2. CASE x \in T
    <3>1. PICK j \in 1 .. Len(r) : r[j] = x
      BY <2>2 DEF Lists
    <3> QED
      BY <1>5, <3>1
  <2> QED
    BY <2>1, <2>2
<1>7. ASSUME NEW j \in 1 .. Len(b), NEW k \in 1 .. Len(b), b[j] = b[k] PROVE j = k
  <2>1. CASE j <= Len(q) /\ k <= Len(q)
    <3>1. j \in 1 .. Len(q) /\ k \in 1 .. Len(q)
      BY <1>1, <1>3, <2>1
    <3> QED
      BY <1>5, <1>7, <3>1 DEF Lists
  <2>2. CASE j > Len(q) /\ k > Len(q)
    <3>1. /\ j - Len(q) \in 1 .. Len(r) /\ k - Len(q) \in 1 .. Len(r)
          /\ r[j - Len(q)] = r[k - Len(q)]
      BY <1>1, <1>3, <1>7, <2>2
    <3>2. j - Len(q) = k - Len(q)
      BY <3>1 DEF Lists
    <3> QED
      BY <1>1, <1>3, <3>2
  <2>3. CASE j <= Len(q) /\ k > Len(q)
    <3>1. /\ j \in 1 .. Len(q) /\ k - Len(q) \in 1 .. Len(r)
          /\ q[j] = r[k - Len(q)]
      BY <1>1, <1>3, <1>7, <2>3
    <3> QED
      BY <1>4, <3>1
  <2>4. CASE j > Len(q) /\ k <= Len(q)
    <3>1. /\ k \in 1 .. Len(q) /\ j - Len(q) \in 1 .. Len(r)
          /\ q[k] = r[j - Len(q)]
      BY <1>1, <1>3, <1>7, <2>4
    <3> QED
      BY <1>4, <3>1
  <2> QED
    BY <1>1, <1>3, <2>1, <2>2, <2>3, <2>4
<1> QED
  BY <1>3, <1>6, <1>7 DEF Lists, b

LEMMA ListsSingle ==
  ASSUME NEW p
  PROVE  Lists(<<p>>, {p}) /\ Len(<<p>>) = 1
BY DEF Lists

LEMMA ListsAppend ==
  ASSUME NEW q, NEW S, NEW p, Lists(q, S), p \notin S
  PROVE  Lists(Append(q, p), S \cup {p}) /\ Len(Append(q, p)) = Len(q) + 1
<1>1. q \in Seq(S \cup {p})
  BY SeqMonotonic DEF Lists
<1>2. Append(q, p) = q \o <<p>>
  BY <1>1, AppendIsConcat
<1>3. Lists(q \o <<p>>, S \cup {p}) /\ Len(q \o <<p>>) = Len(q) + Len(<<p>>)
  <2> DEFINE P == {p}
             r == <<p>>
  <2>1. S \cap P = {} /\ Lists(r, P)
    BY ListsSingle
  <2> HIDE DEF P, r
  <2>2. Lists(q \o r, S \cup P) /\ Len(q \o r) = Len(q) + Len(r)
    BY <2>1, ListsConcat
  <2> QED
    BY <2>2 DEF P, r
<1>4. Len(<<p>>) = 1
  OBVIOUS
<1> QED
  BY <1>2, <1>3, <1>4

LEMMA ListsReverse ==
  ASSUME NEW q, NEW S, Lists(q, S)
  PROVE  Lists(Reverse(q), S) /\ Len(Reverse(q)) = Len(q)
<1> DEFINE r == Reverse(q)
<1>1. /\ q \in [1 .. Len(q) -> S] /\ Len(q) \in Nat
      /\ \A x \in S : \E j \in 1 .. Len(q) : q[j] = x
      /\ \A j, k \in 1 .. Len(q) : q[j] = q[k] => j = k
  BY LenProperties DEF Lists
<1>2. r = [j \in 1 .. Len(q) |-> q[(Len(q) - j) + 1]]
  BY DEF Reverse
<1> HIDE DEF r
<1>3. \A j \in 1 .. Len(q) : /\ (Len(q) - j) + 1 \in 1 .. Len(q)
                             /\ (Len(q) - ((Len(q) - j) + 1)) + 1 = j
  BY <1>1
<1>4. r \in Seq(S) /\ Len(r) = Len(q) /\ \A j \in 1 .. Len(q) : r[j] = q[(Len(q) - j) + 1]
  BY <1>1, <1>2, <1>3
<1>5. ASSUME NEW x \in S PROVE \E j \in 1 .. Len(r) : r[j] = x
  <2>1. PICK j \in 1 .. Len(q) : q[j] = x
    BY <1>1
  <2>2. r[(Len(q) - j) + 1] = x
    BY <1>3, <1>4, <2>1
  <2> QED
    BY <1>3, <1>4, <2>2
<1>6. ASSUME NEW j \in 1 .. Len(r), NEW k \in 1 .. Len(r), r[j] = r[k] PROVE j = k
  <2>1. q[(Len(q) - j) + 1] = q[(Len(q) - k) + 1]
    BY <1>4, <1>6
  <2>2. (Len(q) - j) + 1 = (Len(q) - k) + 1
    BY <1>1, <1>3, <1>4, <2>1
  <2> QED
    BY <1>1, <1>4, <2>2
<1> QED
  BY <1>4, <1>5, <1>6 DEF Lists, r

\* A part of a list, from its m-th to its n-th element.
LEMMA ListsPart ==
  ASSUME NEW q, NEW S, Lists(q, S), NEW m \in 1 .. Len(q) + 1, NEW n \in m - 1 .. Len(q)
  PROVE  /\ Lists(SubSeq(q, m, n), {q[j] : j \in m .. n})
         /\ Len(SubSeq(q, m, n)) = n - m + 1
<1> DEFINE T == {q[j] : j \in m .. n}
           r == SubSeq(q, m, n)
<1>1. q \in Seq(S) /\ Len(q) \in Nat /\ \A j, k \in 1 .. Len(q) : q[j] = q[k] => j = k
  BY LenProperties DEF Lists
<1>2. m \in Int /\ n \in Int /\ n >= m - 1 /\ m .. n \subseteq 1 .. Len(q)
  BY <1>1
<1>3. r \in Seq(T) /\ Len(r) = n - m + 1 /\ \A j \in 1 .. n - m + 1 : r[j] = q[m + j - 1]
  <2>1. \A j \in m .. n : q[j] \in T
    OBVIOUS
  <2>2. /\ r \in Seq(T) /\ Len(r) = IF m <= n THEN n - m + 1 ELSE 0
        /\ \A j \in 1 .. n - m + 1 : r[j] = q[m + j - 1]
    <3> HIDE DEF T
    <3> QED
      BY <1>2, <2>1, SubSeqProperties
  <2> HIDE DEF T, r
  <2> QED
    BY <1>2, <2>2
<1> HIDE DEF r
<1>4. ASSUME NEW x \in T PROVE \E j \in 1 .. Len(r) : r[j] = x
  <2>1. PICK k \in m .. n : q[k] = x
    OBVIOUS
  <2>2. k - m + 1 \in 1 .. n - m + 1 /\ m + (k - m + 1) - 1 = k
    BY <1>2
  <2>3. r[k - m + 1] = x
    BY <1>3, <2>1, <2>2
  <2> QED
    BY <1>3, <2>2, <2>3
<1>5. ASSUME NEW j \in 1 .. Len(r), NEW k \in 1 .. Len(r), r[j] = r[k] PROVE j = k
  <2>1. /\ m + j - 1 \in 1 .. Len(q) /\ m + k - 1 \in 1 .. Len(q)
        /\ q[m + j - 1] = q[m + k - 1]
    BY <1>1, <1>2, <1>3, <1>5
  <2>2. m + j - 1 = m + k - 1
    BY <1>1, <2>1
  <2> QED
    BY <1>2, <1>3, <2>2
<1> QED
  BY <1>3, <1>4, <1>5 DEF Lists, r

LEMMA ListsRemoveAt ==
  ASSUME NEW q, NEW S, Lists(q, S), NEW i \in 1 .. Len(q)
  PROVE  Lists(RemoveAt(q, i), S \ {q[i]}) /\ Len(RemoveAt(q, i)) = Len(q) - 1
<1> DEFINE A == {q[j] : j \in 1 .. i - 1}
           B == {q[j] : j \in i + 1 .. Len(q)}
           a == SubSeq(q, 1, i - 1)
           b == SubSeq(q, i + 1, Len(q))
<1>1. /\ q \in Seq(S) /\ Len(q) \in Nat
      /\ \A x \in S : \E j \in 1 .. Len(q) : q[j] = x
      /\ \A j, k \in 1 .. Len(q) : q[j] = q[k] => j = k
  BY LenProperties DEF Lists
<1>2. Lists(a, A) /\ Len(a) = i - 1
  <2> DEFINE m == 1
             n == i - 1
  <2>1. m \in 1 .. Len(q) + 1 /\ n \in m - 1 .. Len(q)
    BY <1>1
  <2> HIDE DEF m, n
  <2>2. Lists(SubSeq(q, m, n), {q[j] : j \in m .. n}) /\ Len(SubSeq(q, m, n)) = n - m + 1
    BY <2>1, ListsPart
  <2> QED
    BY <2>2 DEF m, n
<1>3. Lists(b, B) /\ Len(b) = Len(q) - i
  <2> DEFINE m == i + 1
             n == Len(q)
  <2>1. m \in 1 .. Len(q) + 1 /\ n \in m - 1 .. Len(q)
    BY <1>1
  <2> HIDE DEF m, n
  <2>2. Lists(SubSeq(q, m, n), {q[j] : j \in m .. n}) /\ Len(SubSeq(q, m, n)) = n - m + 1
    BY <2>1, ListsPart
  <2> QED
    BY <1>1, <2>2 DEF m, n
<1>4. A \cap B = {}
  <2> SUFFICES ASSUME NEW x \in A \cap B
               PROVE  FALSE
    OBVIOUS
  <2>1. PICK j \in 1 .. i - 1 : q[j] = x
    OBVIOUS
  <2>2. PICK l \in i + 1 .. Len(q) : q[l] = x
    OBVIOUS
  <2> HIDE DEF A, B
  <2>3. j \in 1 .. Len(q) /\ l \in 1 .. Len(q) /\ j # l
    BY <1>1
  <2> QED
    BY <1>1, <2>1, <2>2, <2>3
<1>5. A \cup B = S \ {q[i]}
  <2>1. ASSUME NEW x \in S, x # q[i] PROVE x \in A \cup B
    <3>1. PICK j \in 1 .. Len(q) : q[j] = x
      BY <1>1
    <3>2. j # i
      BY <2>1, <3>1
    <3>3. j \in 1 .. i - 1 \/ j \in i + 1 .. Len(q)
      <4> HIDE DEF A, B
      <4> QED
        BY <1>1, <3>2
    <3> QED
      BY <3>1, <3>3
  <2>2. ASSUME NEW x \in A \cup B PROVE x \in S /\ x # q[i]
    <3>1. PICK j \in (1 .. i - 1) \cup (i + 1 .. Len(q)) : q[j] = x
      OBVIOUS
    <3>2. j \in 1 .. Len(q) /\ j # i
      <4> HIDE DEF A, B
      <4> QED
        BY <1>1
    <3> HIDE DEF A, B
    <3>3. q[j] \in S
      BY <1>1, <3>2, ElementOfSeq
    <3> QED
      BY <1>1, <3>1, <3>2, <3>3
  <2> QED
    BY <2>1, <2>2
<1>6. RemoveAt(q, i) = a \o b
  BY DEF RemoveAt
<1> HIDE DEF A, B, a, b
<1>7. Lists(a \o b, A \cup B) /\ Len(a \o b) = Len(a) + Len(b)
  BY <1>2, <1>3, <1>4, ListsConcat
<1>8. Len(a) + Len(b) = Len(q) - 1
  BY <1>1, <1>2, <1>3
<1> QED
  BY Zenon, <1>5, <1>6, <1>7, <1>8

-----------------------------------------------------------------------------
(* What Among computes *)

\* The function Among is defined by exists, and is its definition.
LEMMA AmongIs ==
  ASSUME NEW X, NEW q \in Seq(X), NEW S
  PROVE  \E f : /\ f = [n \in 0 .. Len(q) |->
                         IF n = 0 THEN <<>>
                         ELSE IF q[n] \in S THEN Append(f[n - 1], q[n]) ELSE f[n - 1]]
               /\ Among(q, S) = f[Len(q)]
<1> DEFINE Body(f, n) == IF n = 0 THEN <<>>
                         ELSE IF q[n] \in S THEN Append(f[n - 1], q[n]) ELSE f[n - 1]
           Good(f, n) == f = [k \in 0 .. n |-> f[k]] /\ \A k \in 0 .. n : f[k] = Body(f, k)
           Bad == {n \in Nat : ~ \E f : Good(f, n)}
<1>1. Len(q) \in Nat
  BY LenProperties
<1>2. Bad = {}
  <2> SUFFICES ASSUME Bad # {}
               PROVE  FALSE
    OBVIOUS
  <2>1. PICK m \in Bad : \A n \in Bad : m <= n
    <3>1. Bad \subseteq Nat
      OBVIOUS
    <3> HIDE DEF Bad
    <3> QED
      BY <3>1, LeastOfNats
  <2>2. m \in Nat /\ ~ \E f : Good(f, m)
    OBVIOUS
  <2>3. CASE m = 0
    <3> DEFINE g == [k \in 0 .. 0 |-> <<>>]
    <3>1. Good(g, 0)
      OBVIOUS
    <3> HIDE DEF Good
    <3> QED
      BY <2>2, <2>3, <3>1
  <2>4. CASE m # 0
    <3>1. m - 1 \in Nat /\ ~(m <= m - 1)
      BY <2>2, <2>4
    <3>2. m - 1 \notin Bad
      BY <2>1, <3>1
    <3>3. PICK f : Good(f, m - 1)
      BY <3>1, <3>2
    <3> DEFINE g == [k \in 0 .. m |-> IF k = m THEN Body(f, m) ELSE f[k]]
    <3>4. \A k \in 0 .. m - 1 : g[k] = f[k]
      BY <2>2
    <3>5. ASSUME NEW k \in 0 .. m PROVE g[k] = Body(g, k)
      <4>1. CASE k = 0
        BY <2>2, <2>4, <3>3, <3>4, <4>1
      <4>2. CASE k # 0
        <5>1. k - 1 \in 0 .. m - 1
          BY <2>2, <4>2
        <5>2. g[k - 1] = f[k - 1]
          BY <3>4, <5>1
        <5>3. Body(g, k) = Body(f, k)
          BY <4>2, <5>2
        <5>4. CASE k = m
          BY <5>3, <5>4
        <5>5. CASE k # m
          <6>1. k \in 0 .. m - 1
            BY <2>2, <5>5
          <6> QED
            BY <3>3, <3>4, <5>3, <6>1
        <5> QED
          BY <5>4, <5>5
      <4> QED
        BY <4>1, <4>2
    <3>6. Good(g, m)
      <4>1. g = [k \in 0 .. m |-> g[k]]
        OBVIOUS
      <4> HIDE DEF g, Body
      <4> QED
        BY <3>5, <4>1
    <3> HIDE DEF g, Good
    <3> QED
      BY <2>2, <3>6
  <2> QED
    BY <2>3, <2>4
<1>3. PICK f : Good(f, Len(q))
  BY <1>1, <1>2
<1> DEFINE Eq(g) == g = [n \in 0 .. Len(q) |-> Body(g, n)]
           h == CHOOSE g : Eq(g)
<1>4. \E g : Eq(g)
  <2>1. f = [n \in 0 .. Len(q) |-> f[n]]
    BY <1>3
  <2>2. Eq(f)
    BY <1>3, <2>1
  <2> HIDE DEF Eq
  <2> QED
    BY <2>2
<1>5. Eq(h)
  <2> HIDE DEF Eq
  <2> QED
    BY <1>4
<1>6. Among(q, S) = h[Len(q)]
  BY Zenon DEF Among
<1> HIDE DEF h
<1> QED
  BY <1>5, <1>6

\* Of a list of X, Among lists what is in S.
LEMMA AmongLists ==
  ASSUME NEW q, NEW X, NEW S, Lists(q, X)
  PROVE  Lists(Among(q, S), X \cap S)
<1>1. /\ q \in Seq(X) /\ Len(q) \in Nat
      /\ \A x \in X : \E j \in 1 .. Len(q) : q[j] = x
      /\ \A j, k \in 1 .. Len(q) : q[j] = q[k] => j = k
      /\ \A j \in 1 .. Len(q) : q[j] \in X
  BY LenProperties, ElementOfSeq DEF Lists
<1>2. PICK f : /\ f = [n \in 0 .. Len(q) |->
                       IF n = 0 THEN <<>>
                       ELSE IF q[n] \in S THEN Append(f[n - 1], q[n]) ELSE f[n - 1]]
               /\ Among(q, S) = f[Len(q)]
  BY <1>1, AmongIs
<1>3. /\ f[0] = <<>>
      /\ \A n \in 1 .. Len(q) :
           f[n] = IF q[n] \in S THEN Append(f[n - 1], q[n]) ELSE f[n - 1]
  <2>1. \A n \in 0 .. Len(q) : f[n] = IF n = 0 THEN <<>>
                       ELSE IF q[n] \in S THEN Append(f[n - 1], q[n]) ELSE f[n - 1]
    BY <1>2, Zenon
  <2> QED
    BY <1>1, <2>1
<1> DEFINE To(n) == {q[j] : j \in 1 .. n} \cap S
           Bad == {n \in 0 .. Len(q) : ~Lists(f[n], To(n))}
<1>4. Bad = {}
  <2> SUFFICES ASSUME Bad # {}
               PROVE  FALSE
    OBVIOUS
  <2>1. PICK m \in Bad : \A n \in Bad : m <= n
    <3>1. Bad \subseteq Nat
      OBVIOUS
    <3> HIDE DEF Bad
    <3> QED
      BY <3>1, LeastOfNats
  <2>2. m \in 0 .. Len(q) /\ ~Lists(f[m], To(m))
    OBVIOUS
  <2>3. CASE m = 0
    <3>1. To(0) = {}
      OBVIOUS
    <3> HIDE DEF To
    <3> QED
      BY <1>3, <2>2, <2>3, <3>1, ListsEmpty
  <2>4. CASE m # 0
    <3> DEFINE l == m - 1
    <3>1. l \in 0 .. Len(q) /\ ~(m <= l) /\ m \in 1 .. Len(q) /\ 1 .. m = (1 .. l) \cup {m}
          /\ m \notin 1 .. l /\ 1 .. l \subseteq 1 .. Len(q)
      BY <1>1, <2>2, <2>4
    <3>2. Lists(f[l], To(l))
      <4>1. l \notin Bad
        BY <2>1, <3>1
      <4> HIDE DEF To
      <4> QED
        BY <3>1, <4>1
    <3>3. f[m] = IF q[m] \in S THEN Append(f[l], q[m]) ELSE f[l]
      BY <1>3, <3>1
    <3>4. To(m) = IF q[m] \in S THEN To(l) \cup {q[m]} ELSE To(l)
      <4> HIDE DEF l
      <4> QED
        BY <3>1
    <3>5. q[m] \notin To(l)
      <4> SUFFICES ASSUME NEW j \in 1 .. l, q[j] = q[m]
                   PROVE  FALSE
        OBVIOUS
      <4>1. j \in 1 .. Len(q) /\ j # m
        BY <3>1
      <4> QED
        BY <1>1, <3>1, <4>1
    <3> HIDE DEF To, l
    <3>6. CASE q[m] \in S
      BY <2>2, <3>2, <3>3, <3>4, <3>5, <3>6, ListsAppend
    <3>7. CASE q[m] \notin S
      BY <2>2, <3>2, <3>3, <3>4, <3>7
    <3> QED
      BY <3>6, <3>7
  <2> QED
    BY <2>3, <2>4
<1>5. Lists(f[Len(q)], To(Len(q)))
  <2> HIDE DEF To
  <2> QED
    BY <1>1, <1>4
<1>6. To(Len(q)) = X \cap S
  <2>1. \A x : x \in To(Len(q)) <=> x \in X /\ x \in S
    BY <1>1
  <2> QED
    BY <2>1
<1> QED
  BY <1>2, <1>5, <1>6

\* What the loops from the end move, and what they leave.
LEMMA MovedLists ==
  ASSUME NEW q, NEW X, NEW S, Lists(q, X), X \subseteq Procs
  PROVE  /\ Lists(FromTheEnd(q, S), X \cap S)
         /\ Lists(Staying(q, S), X \ S)
         /\ Len(FromTheEnd(q, S)) + Len(Staying(q, S)) = Len(q)
<1> DEFINE a == FromTheEnd(q, S)
           b == Staying(q, S)
           A == X \cap S
           B == X \ S
<1>1. Lists(a, A)
  BY AmongLists, ListsReverse DEF FromTheEnd
<1>2. Lists(b, B)
  <2>1. X \cap (Procs \ S) = B
    OBVIOUS
  <2>2. Lists(b, X \cap (Procs \ S))
    BY AmongLists DEF Staying
  <2> QED
    BY <2>1, <2>2
<1>3. A \cup B = X /\ A \cap B = {}
  OBVIOUS
<1> HIDE DEF a, b, A, B
<1>4. /\ Lists(a \o b, X) /\ Len(a \o b) = Len(a) + Len(b)
  BY <1>1, <1>2, <1>3, ListsConcat
<1>5. Len(a \o b) = Len(q)
  BY <1>4, ListsLen
<1> QED
  BY <1>1, <1>2, <1>4, <1>5 DEF a, b, A, B

\* What FCFS moves of a queue, as often as there is room, and what it leaves.
LEMMA AdmittedLists ==
  ASSUME NEW q, NEW X, Lists(q, X), Room \in Nat
  PROVE  /\ Lists(Admitted(q), ToSet(Admitted(q))) /\ Lists(Left(q), ToSet(Left(q)))
         /\ ToSet(Admitted(q)) \cap ToSet(Left(q)) = {}
         /\ ToSet(Admitted(q)) \cup ToSet(Left(q)) = X
         /\ Len(Admitted(q)) <= Room
         /\ Room = 0 => Left(q) = q /\ Admitted(q) = <<>>
<1> DEFINE k == Min({Room, Len(q)})
           A == {q[j] : j \in 1 .. k}
           B == {q[j] : j \in k + 1 .. Len(q)}
<1>1. /\ q \in Seq(X) /\ Len(q) \in Nat
      /\ \A x \in X : \E j \in 1 .. Len(q) : q[j] = x
      /\ \A j, k1 \in 1 .. Len(q) : q[j] = q[k1] => j = k1
      /\ \A j \in 1 .. Len(q) : q[j] \in X
  BY LenProperties, ElementOfSeq DEF Lists
<1>2. k \in 0 .. Len(q) /\ k <= Room /\ (Room = 0 => k = 0)
  <2> DEFINE P == {Room, Len(q)}
  <2>1. \E x \in P : \A y \in P : x <= y
    BY <1>1
  <2>2. Min(P) \in P /\ \A y \in P : Min(P) <= y
    <3> HIDE DEF P
    <3> QED
      BY <2>1 DEF Min
  <2> QED
    BY <1>1, <2>2
<1>3. Admitted(q) = SubSeq(q, 1, k) /\ Left(q) = SubSeq(q, k + 1, Len(q))
  BY DEF Admitted, Left
<1> HIDE DEF k
<1>4. Lists(SubSeq(q, 1, k), A) /\ Len(SubSeq(q, 1, k)) = k
  <2> DEFINE m == 1
  <2>1. m \in 1 .. Len(q) + 1 /\ k \in m - 1 .. Len(q)
    BY <1>1, <1>2
  <2> HIDE DEF m
  <2>2. Lists(SubSeq(q, m, k), {q[j] : j \in m .. k}) /\ Len(SubSeq(q, m, k)) = k - m + 1
    BY <2>1, ListsPart
  <2> QED
    BY <1>2, <2>2 DEF m
<1>5. Lists(SubSeq(q, k + 1, Len(q)), B)
  <2> DEFINE m == k + 1
             n == Len(q)
  <2>1. m \in 1 .. Len(q) + 1 /\ n \in m - 1 .. Len(q)
    BY <1>1, <1>2
  <2> HIDE DEF m, n
  <2>2. Lists(SubSeq(q, m, n), {q[j] : j \in m .. n})
    BY <2>1, ListsPart
  <2> QED
    BY <2>2 DEF m, n
<1>6. A \cap B = {} /\ A \cup B = X
  <2>1. 1 .. Len(q) = (1 .. k) \cup (k + 1 .. Len(q)) /\ (1 .. k) \cap (k + 1 .. Len(q)) = {}
    BY <1>1, <1>2
  <2>2. ASSUME NEW x \in A \cap B PROVE FALSE
    <3>1. PICK j \in 1 .. k : q[j] = x
      OBVIOUS
    <3>2. PICK l \in k + 1 .. Len(q) : q[l] = x
      OBVIOUS
    <3>3. j \in 1 .. Len(q) /\ l \in 1 .. Len(q) /\ j # l
      <4>1. k \in Nat /\ k <= Len(q) /\ j \in Nat /\ l \in Nat
        BY <1>1, <1>2
      <4> HIDE DEF A, B
      <4> QED
        BY <1>1, <4>1
    <3> QED
      BY <1>1, <3>1, <3>2, <3>3
  <2>3. ASSUME NEW x \in X PROVE x \in A \cup B
    <3>1. PICK j \in 1 .. Len(q) : q[j] = x
      BY <1>1
    <3> QED
      BY <2>1, <3>1
  <2>4. ASSUME NEW x \in A \cup B PROVE x \in X
    <3>1. PICK j \in 1 .. Len(q) : q[j] = x
      BY <2>1
    <3> QED
      BY <1>1, <3>1
  <2> QED
    BY <2>2, <2>3, <2>4
<1>7. Room = 0 => SubSeq(q, k + 1, Len(q)) = q /\ SubSeq(q, 1, k) = <<>>
  <2> SUFFICES ASSUME k = 0
               PROVE  SubSeq(q, k + 1, Len(q)) = q /\ SubSeq(q, 1, k) = <<>>
    BY <1>2
  <2>1. SubSeq(q, 1, Len(q)) = q
    BY <1>1, SubSeqFull
  <2>2. SubSeq(q, 1, 0) = <<>>
    BY SubSeqEmpty
  <2> QED
    BY <2>1, <2>2
<1>8. ToSet(Admitted(q)) = A /\ ToSet(Left(q)) = B
  <2> HIDE DEF A, B
  <2> QED
    BY <1>3, <1>4, <1>5, ListsLen
<1> HIDE DEF A, B
<1> QED
  BY <1>2, <1>3, <1>4, <1>5, <1>6, <1>7, <1>8

-----------------------------------------------------------------------------
(* The invariant *)

\* The sets of processes that are in the seven vectors and that have finished
\* split the started ones.
Split(I, W, R, N, B, RS, BS, F, U) ==
  /\ I \cup W \cup R \cup N \cup B \cup RS \cup BS \cup F = U
  /\ I \cap (W \cup R \cup N \cup B \cup RS \cup BS \cup F) = {}
  /\ W \cap (R \cup N \cup B \cup RS \cup BS \cup F) = {}
  /\ R \cap (N \cup B \cup RS \cup BS \cup F) = {}
  /\ N \cap (B \cup RS \cup BS \cup F) = {}
  /\ B \cap (RS \cup BS \cup F) = {}
  /\ RS \cap (BS \cup F) = {}
  /\ BS \cap F = {}

Placed ==
  \E I, W, R, N, B, RS, BS :
    /\ Lists(incoming, I) /\ Lists(waiting, W) /\ Lists(ready, R) /\ Lists(running, N)
    /\ Lists(blocked, B) /\ Lists(readySusp, RS) /\ Lists(blockedSusp, BS)
    /\ Split(I, W, R, N, B, RS, BS, Finished, 1 .. started)

Steps == {"start", "loop", "admit", "blocked", "readysusp", "running", "dispatch",
          "clock", "done"}

Types ==
  /\ workload \in Workloads /\ max \in MaxMultiprogramming /\ algorithm \in Algorithms
  /\ pc \in Steps
  /\ started \in 0 .. Len(workload)
  /\ remaining \in [Procs -> Nat] /\ blockTime \in [Procs -> Nat]
  /\ submission \in [Procs -> Nat] /\ response \in [Procs -> Int]
  /\ quantum \in Nat /\ cpuIdle \in BOOLEAN
  /\ slice \in Nat /\ suspended \subseteq Procs

Clock ==
  IF pc = "done" THEN elapsed \in -1 .. TimeLimit /\ idleTime \in -1 .. TimeLimit
                 ELSE elapsed \in 0 .. TimeLimit /\ idleTime \in 0 .. elapsed

\* What the running process has had and may still have is within the quota; it
\* may be all of it only before the clock counts the tick.
Sliced ==
  /\ quantum <= Quota
  /\ running # <<>> =>
       /\ slice < Quota
       /\ IF pc \in {"dispatch", "clock"} THEN slice + quantum <= Quota
                                        ELSE slice + quantum < Quota

IInv == Types /\ Clock /\ Placed /\ MultiprogrammingBound /\ Sliced

\* A workload is a sequence of tasks, and at least one place is in the system.
LEMMA Scenario ==
  ASSUME Types
  PROVE  /\ workload \in Seq(Task) /\ Len(workload) \in Nat /\ Procs = 1 .. Len(workload)
         /\ \A p \in Procs : workload[p] \in Task
         /\ max \in Nat /\ max > 0
         /\ algorithm \in {"RR", "HRRN", "PRIORITY", "LOTTERY", "SD", "FEEDBACK"}
         /\ Quota \in Nat /\ Quota > 0
<1>1. workload \in Seq(Task)
  BY BoundsAssumption DEF Types
<1>2. Len(workload) \in Nat /\ Procs = 1 .. Len(workload)
  BY <1>1, LenProperties DEF Procs
<1>3. max \in Nat /\ max > 0 /\ LongQuantum \in Nat /\ LongQuantum > 0
      /\ algorithm \in {"RR", "HRRN", "PRIORITY", "LOTTERY", "SD", "FEEDBACK"}
  BY BoundsAssumption DEF Types
<1>4. Quota \in Nat /\ Quota > 0
  BY <1>3 DEF Quota
<1> QED
  BY <1>1, <1>2, <1>3, <1>4, ElementOfSeq

\* How much room the system has.
LEMMA RoomIs ==
  ASSUME IInv
  PROVE  /\ Len(running) \in Nat /\ Len(ready) \in Nat /\ Len(blocked) \in Nat
         /\ InSystem = Len(running) + Len(ready) + Len(blocked) /\ InSystem <= max
         /\ Room = max - InSystem /\ Room \in Nat
         /\ IsSysFull <=> InSystem = max
<1>1. Len(running) \in Nat /\ Len(ready) \in Nat /\ Len(blocked) \in Nat
  BY ListsLen DEF IInv, Placed
<1>2. InSystem = Len(running) + Len(ready) + Len(blocked) /\ InSystem <= max
  BY DEF IInv, MultiprogrammingBound, InSystem
<1>3. max \in Nat
  BY Scenario DEF IInv
<1>4. IsSysFull <=> InSystem = max
  BY <1>1, <1>2, <1>3 DEF IsSysFull
<1>5. Room = max - InSystem /\ Room \in Nat
  BY <1>1, <1>2, <1>3, <1>4 DEF Room
<1> QED
  BY <1>1, <1>2, <1>4, <1>5

LEMMA InitIInv ==
  ASSUME Init
  PROVE  IInv
<1>1. workload \in Seq(Task) /\ Len(workload) \in Nat /\ Procs = 1 .. Len(workload)
      /\ \A p \in Procs : workload[p] \in Task
  BY BoundsAssumption, LenProperties, ElementOfSeq DEF Init, Procs
<1>2. \A p \in Procs : /\ workload[p].exec \in Nat /\ workload[p].block \in Nat
                       /\ workload[p].sub \in Nat
  BY <1>1 DEF Task
<1>3. Types
  <2>1. /\ workload \in Workloads /\ max \in MaxMultiprogramming /\ algorithm \in Algorithms
        /\ pc = "start" /\ started = 0 /\ quantum = 0 /\ cpuIdle = TRUE /\ slice = 0
        /\ suspended = {}
    BY DEF Init
  <2>2. /\ remaining \in [Procs -> Nat] /\ blockTime \in [Procs -> Nat]
        /\ submission \in [Procs -> Nat] /\ response \in [Procs -> Int]
    BY <1>2 DEF Init
  <2> QED
    BY <1>1, <2>1, <2>2 DEF Types, Steps
<1>4. Clock
  BY BoundsAssumption DEF Init, Clock
<1>5. Placed
  <2>1. Split({}, {}, {}, {}, {}, {}, {}, Finished, 1 .. started)
    BY DEF Init, Split, Finished
  <2>2. /\ incoming = <<>> /\ waiting = <<>> /\ ready = <<>> /\ running = <<>>
        /\ blocked = <<>> /\ readySusp = <<>> /\ blockedSusp = <<>>
    BY DEF Init
  <2> QED
    BY Zenon, <2>1, <2>2, ListsEmpty DEF Placed
<1>6. MultiprogrammingBound /\ Sliced
  BY <1>3, Scenario DEF Init, MultiprogrammingBound, Sliced
<1> QED
  BY <1>3, <1>4, <1>5, <1>6 DEF IInv

-----------------------------------------------------------------------------
(* Each process is in one place, and the system holds no more than it may *)

Kept == Placed /\ MultiprogrammingBound

LEMMA StartKeeps ==
  ASSUME IInv, StartProcess
  PROVE  Kept'
<1> DEFINE p == started + 1
<1>1. PICK I, W, R, N, B, RS, BS :
        /\ Lists(incoming, I) /\ Lists(waiting, W) /\ Lists(ready, R) /\ Lists(running, N)
        /\ Lists(blocked, B) /\ Lists(readySusp, RS) /\ Lists(blockedSusp, BS)
        /\ Split(I, W, R, N, B, RS, BS, Finished, 1 .. started)
  BY DEF IInv, Placed
<1>2. started \in Nat /\ p \notin 1 .. started /\ 1 .. p = (1 .. started) \cup {p}
  BY Scenario DEF IInv, Types
<1>3. /\ started' = p /\ Finished' = Finished
      /\ running' = running /\ blocked' = blocked /\ readySusp' = readySusp
      /\ blockedSusp' = blockedSusp /\ max' = max
      /\ \/ ready' = Append(ready, p) /\ ~IsSysFull /\ UNCHANGED <<waiting, incoming>>
         \/ waiting' = Append(waiting, p) /\ UNCHANGED <<ready, incoming>>
         \/ incoming' = Append(incoming, p) /\ UNCHANGED <<ready, waiting>>
  BY DEF StartProcess, scenario, Finished
<1> HIDE DEF p
<1>4. p \notin I /\ p \notin W /\ p \notin R
  BY <1>1, <1>2 DEF Split
<1>5. CASE ready' = Append(ready, p) /\ ~IsSysFull /\ UNCHANGED <<waiting, incoming>>
  <2>1. Lists(Append(ready, p), R \cup {p}) /\ Len(Append(ready, p)) = Len(ready) + 1
    BY <1>1, <1>4, ListsAppend
  <2>2. Split(I, W, R \cup {p}, N, B, RS, BS, Finished, (1 .. started) \cup {p})
    BY <1>1, <1>2 DEF Split
  <2>3. Placed'
    <3>1. /\ Lists(ready', R \cup {p}) /\ Lists(incoming', I) /\ Lists(waiting', W)
          /\ Lists(running', N) /\ Lists(blocked', B) /\ Lists(readySusp', RS)
          /\ Lists(blockedSusp', BS)
      BY <1>1, <1>3, <1>5, <2>1
    <3>2. Split(I, W, R \cup {p}, N, B, RS, BS, Finished', 1 .. started')
      BY <1>2, <1>3, <2>2
    <3> QED
      BY <3>1, <3>2 DEF Placed
  <2>4. MultiprogrammingBound'
    <3>1. Len(running) + (Len(ready) + 1) + Len(blocked) <= max
      BY RoomIs, Scenario, <1>5 DEF IInv
    <3> QED
      BY <1>3, <1>5, <2>1, <3>1 DEF IInv, MultiprogrammingBound
  <2> QED
    BY <2>3, <2>4 DEF Kept
<1>6. CASE waiting' = Append(waiting, p) /\ UNCHANGED <<ready, incoming>>
  <2>1. Lists(Append(waiting, p), W \cup {p})
    BY <1>1, <1>4, ListsAppend
  <2>2. Split(I, W \cup {p}, R, N, B, RS, BS, Finished, (1 .. started) \cup {p})
    BY <1>1, <1>2 DEF Split
  <2>3. Placed'
    <3>1. Split(I, W \cup {p}, R, N, B, RS, BS, Finished', 1 .. started')
      BY <1>2, <1>3, <2>2
    <3> QED
      BY <1>1, <1>3, <1>6, <2>1, <3>1 DEF Placed
  <2> QED
    BY <1>3, <1>6, <2>3 DEF Kept, IInv, MultiprogrammingBound
<1>7. CASE incoming' = Append(incoming, p) /\ UNCHANGED <<ready, waiting>>
  <2>1. Lists(Append(incoming, p), I \cup {p})
    BY <1>1, <1>4, ListsAppend
  <2>2. Split(I \cup {p}, W, R, N, B, RS, BS, Finished, (1 .. started) \cup {p})
    BY <1>1, <1>2 DEF Split
  <2>3. Placed'
    <3>1. Split(I \cup {p}, W, R, N, B, RS, BS, Finished', 1 .. started')
      BY <1>2, <1>3, <2>2
    <3> QED
      BY <1>1, <1>3, <1>7, <2>1, <3>1 DEF Placed
  <2> QED
    BY <1>3, <1>7, <2>3 DEF Kept, IInv, MultiprogrammingBound
<1> QED
  BY <1>3, <1>5, <1>6, <1>7

LEMMA IncomingKeeps ==
  ASSUME IInv, CheckIncomingQueue
  PROVE  Kept'
<1> DEFINE S == {p \in Procs : submission[p] - elapsed <= 0}
           a == FromTheEnd(incoming, S)
           b == Staying(incoming, S)
<1>1. PICK I, W, R, N, B, RS, BS :
        /\ Lists(incoming, I) /\ Lists(waiting, W) /\ Lists(ready, R) /\ Lists(running, N)
        /\ Lists(blocked, B) /\ Lists(readySusp, RS) /\ Lists(blockedSusp, BS)
        /\ Split(I, W, R, N, B, RS, BS, Finished, 1 .. started)
  BY DEF IInv, Placed
<1>2. I \subseteq Procs
  BY <1>1, Scenario DEF IInv, Types, Split
<1>3. /\ waiting' = waiting \o a /\ incoming' = b
      /\ started' = started /\ Finished' = Finished /\ max' = max
      /\ UNCHANGED <<ready, running, blocked, readySusp, blockedSusp>>
  BY DEF CheckIncomingQueue, scenario, Finished
<1>4. Lists(a, I \cap S) /\ Lists(b, I \ S)
  <2> HIDE DEF S
  <2> QED
    BY <1>1, <1>2, MovedLists
<1> HIDE DEF S, a, b
<1>5. Lists(waiting \o a, W \cup (I \cap S))
  <2> DEFINE M == I \cap S
  <2>1. W \cap M = {} /\ Lists(a, M)
    BY <1>1, <1>4 DEF Split
  <2> HIDE DEF M
  <2>2. Lists(waiting \o a, W \cup M)
    BY <1>1, <2>1, ListsConcat
  <2> QED
    BY <2>2 DEF M
<1>6. Split(I \ S, W \cup (I \cap S), R, N, B, RS, BS, Finished, 1 .. started)
  BY <1>1 DEF Split
<1>7. Placed'
  BY <1>1, <1>3, <1>4, <1>5, <1>6 DEF Placed
<1> QED
  BY <1>3, <1>7 DEF Kept, IInv, MultiprogrammingBound

LEMMA AdmitKeeps ==
  ASSUME IInv, Admit
  PROVE  Kept'
<1> DEFINE a == Admitted(waiting)
           b == Left(waiting)
           A == ToSet(a)
           L == ToSet(b)
<1>1. PICK I, W, R, N, B, RS, BS :
        /\ Lists(incoming, I) /\ Lists(waiting, W) /\ Lists(ready, R) /\ Lists(running, N)
        /\ Lists(blocked, B) /\ Lists(readySusp, RS) /\ Lists(blockedSusp, BS)
        /\ Split(I, W, R, N, B, RS, BS, Finished, 1 .. started)
  BY DEF IInv, Placed
<1>2. Lists(a, A) /\ Lists(b, L) /\ A \cap L = {} /\ A \cup L = W /\ Len(a) <= Room
  BY <1>1, RoomIs, AdmittedLists
<1>3. /\ ready' = ready \o a /\ waiting' = b
      /\ started' = started /\ Finished' = Finished /\ max' = max
      /\ UNCHANGED <<incoming, running, blocked, readySusp, blockedSusp>>
  BY DEF Admit, scenario, Finished
<1> HIDE DEF a, b, A, L
<1>4. Lists(ready \o a, R \cup A) /\ Len(ready \o a) = Len(ready) + Len(a)
  <2>1. R \cap A = {}
    BY <1>1, <1>2 DEF Split
  <2> QED
    BY <1>1, <1>2, <2>1, ListsConcat
<1>5. Split(I, L, R \cup A, N, B, RS, BS, Finished, 1 .. started)
  BY <1>1, <1>2 DEF Split
<1>6. Placed'
  BY <1>1, <1>2, <1>3, <1>4, <1>5 DEF Placed
<1>7. Len(running) + (Len(ready) + Len(a)) + Len(blocked) <= max
  BY <1>2, RoomIs, Scenario, ListsLen DEF IInv
<1> QED
  BY <1>3, <1>4, <1>6, <1>7 DEF Kept, IInv, MultiprogrammingBound

LEMMA ReadySuspKeeps ==
  ASSUME IInv, CheckReadySuspensedQueue
  PROVE  Kept'
<1> DEFINE a == Admitted(readySusp)
           b == Left(readySusp)
           A == ToSet(a)
           L == ToSet(b)
<1>1. PICK I, W, R, N, B, RS, BS :
        /\ Lists(incoming, I) /\ Lists(waiting, W) /\ Lists(ready, R) /\ Lists(running, N)
        /\ Lists(blocked, B) /\ Lists(readySusp, RS) /\ Lists(blockedSusp, BS)
        /\ Split(I, W, R, N, B, RS, BS, Finished, 1 .. started)
  BY DEF IInv, Placed
<1>2. Lists(a, A) /\ Lists(b, L) /\ A \cap L = {} /\ A \cup L = RS /\ Len(a) <= Room
  BY <1>1, RoomIs, AdmittedLists
<1>3. /\ \/ ready' = ready \o a /\ readySusp' = b
         \/ UNCHANGED <<ready, readySusp>>
      /\ started' = started /\ Finished' = Finished /\ max' = max
      /\ UNCHANGED <<incoming, waiting, running, blocked, blockedSusp>>
  BY DEF CheckReadySuspensedQueue, scenario, Finished
<1> HIDE DEF a, b, A, L
<1>4. CASE UNCHANGED <<ready, readySusp>>
  BY <1>1, <1>3, <1>4 DEF Kept, IInv, Placed, MultiprogrammingBound
<1>5. CASE ready' = ready \o a /\ readySusp' = b
  <2>1. Lists(ready \o a, R \cup A) /\ Len(ready \o a) = Len(ready) + Len(a)
    <3>1. R \cap A = {}
      BY <1>1, <1>2 DEF Split
    <3> QED
      BY <1>1, <1>2, <3>1, ListsConcat
  <2>2. Split(I, W, R \cup A, N, B, L, BS, Finished, 1 .. started)
    BY <1>1, <1>2 DEF Split
  <2>3. Placed'
    BY <1>1, <1>2, <1>3, <1>5, <2>1, <2>2 DEF Placed
  <2>4. Len(running) + (Len(ready) + Len(a)) + Len(blocked) <= max
    BY <1>2, RoomIs, Scenario, ListsLen DEF IInv
  <2> QED
    BY <1>3, <1>5, <2>1, <2>3, <2>4 DEF Kept, IInv, MultiprogrammingBound
<1> QED
  BY <1>3, <1>4, <1>5

LEMMA BlockedKeeps ==
  ASSUME IInv, CheckBlockedQueue
  PROVE  Kept'
<1> DEFINE Over    == {p \in Procs : blockTime'[p] <= 0}
           Returns == IF NobodyWaits THEN Over ELSE {}
           a == FromTheEnd(blocked, Returns)
           b == Staying(blocked, Returns)
           c == FromTheEnd(blockedSusp, Over)
           d == Staying(blockedSusp, Over)
<1>1. PICK I, W, R, N, B, RS, BS :
        /\ Lists(incoming, I) /\ Lists(waiting, W) /\ Lists(ready, R) /\ Lists(running, N)
        /\ Lists(blocked, B) /\ Lists(readySusp, RS) /\ Lists(blockedSusp, BS)
        /\ Split(I, W, R, N, B, RS, BS, Finished, 1 .. started)
  BY DEF IInv, Placed
<1>2. B \subseteq Procs /\ BS \subseteq Procs
  BY <1>1, Scenario DEF IInv, Types, Split
<1>3. /\ ready' = ready \o a /\ blocked' = b /\ readySusp' = readySusp \o c /\ blockedSusp' = d
      /\ started' = started /\ Finished' = Finished /\ max' = max
      /\ UNCHANGED <<incoming, waiting, running>>
  BY DEF CheckBlockedQueue, scenario, Finished
<1>4. /\ Lists(a, B \cap Returns) /\ Lists(b, B \ Returns)
      /\ Len(a) + Len(b) = Len(blocked)
      /\ Lists(c, BS \cap Over) /\ Lists(d, BS \ Over)
  <2> HIDE DEF Over, Returns
  <2> QED
    BY <1>1, <1>2, MovedLists
<1> HIDE DEF Over, Returns, a, b, c, d
<1>5. Lists(ready \o a, R \cup (B \cap Returns)) /\ Len(ready \o a) = Len(ready) + Len(a)
  <2> DEFINE M == B \cap Returns
  <2>1. R \cap M = {} /\ Lists(a, M)
    BY <1>1, <1>4 DEF Split
  <2> HIDE DEF M
  <2>2. Lists(ready \o a, R \cup M) /\ Len(ready \o a) = Len(ready) + Len(a)
    BY <1>1, <2>1, ListsConcat
  <2> QED
    BY <2>2 DEF M
<1>6. Lists(readySusp \o c, RS \cup (BS \cap Over))
  <2> DEFINE M == BS \cap Over
  <2>1. RS \cap M = {} /\ Lists(c, M)
    BY <1>1, <1>4 DEF Split
  <2> HIDE DEF M
  <2>2. Lists(readySusp \o c, RS \cup M)
    BY <1>1, <2>1, ListsConcat
  <2> QED
    BY <2>2 DEF M
<1>7. Split(I, W, R \cup (B \cap Returns), N, B \ Returns, RS \cup (BS \cap Over), BS \ Over,
            Finished, 1 .. started)
  BY <1>1 DEF Split
<1>8. Placed'
  BY <1>1, <1>3, <1>4, <1>5, <1>6, <1>7 DEF Placed
<1>9. Len(running) + (Len(ready) + Len(a)) + Len(b) <= max
  <2>1. Len(a) \in Nat /\ Len(b) \in Nat
    BY <1>4, ListsLen
  <2> QED
    BY <1>4, <2>1, RoomIs, Scenario DEF IInv
<1> QED
  BY <1>3, <1>5, <1>8, <1>9 DEF Kept, IInv, MultiprogrammingBound

\* The running process is one and in no other place.
LEMMA RunningIs ==
  ASSUME IInv, running # <<>>
  PROVE  \E p \in 1 .. started : running = <<p>> /\ Lists(running, {p})
<1>1. PICK I, W, R, N, B, RS, BS :
        /\ Lists(running, N) /\ Split(I, W, R, N, B, RS, BS, Finished, 1 .. started)
  BY DEF IInv, Placed
<1>2. running \in Seq(N) /\ Len(running) \in Nat /\ Len(running) <= 1
  BY <1>1, LenProperties DEF Lists, IInv, MultiprogrammingBound
<1>3. Len(running) = 1
  <2>1. \A q \in Seq(N) : q # <<>> => Len(q) \in Nat \ {0}
    BY EmptySeq
  <2>2. Len(running) \in Nat \ {0}
    BY <1>2, <2>1
  <2>3. \A n \in Nat \ {0} : n <= 1 => n = 1
    OBVIOUS
  <2> QED
    BY Zenon, <1>2, <2>2, <2>3
<1>4. running = <<running[1]>> /\ running[1] \in N
  BY <1>2, <1>3
<1>5. running[1] \in 1 .. started
  BY <1>1, <1>4 DEF Split
<1>6. Lists(running, {running[1]})
  BY <1>4, ListsSingle
<1> QED
  BY <1>4, <1>5, <1>6

\* A process that stops running moves to one of three queues, or is finished.
LEMMA RunningKeeps ==
  ASSUME IInv, CheckRunningProcess
  PROVE  Kept'
<1>1. PICK I, W, R, N, B, RS, BS :
        /\ Lists(incoming, I) /\ Lists(waiting, W) /\ Lists(ready, R) /\ Lists(running, N)
        /\ Lists(blocked, B) /\ Lists(readySusp, RS) /\ Lists(blockedSusp, BS)
        /\ Split(I, W, R, N, B, RS, BS, Finished, 1 .. started)
  BY DEF IInv, Placed
<1>2. CASE NothingRuns
  BY <1>1, <1>2 DEF NothingRuns, queues, scenario, Kept, IInv, Placed, MultiprogrammingBound, Finished
<1>3. ASSUME NEW p \in Procs, Work(p) PROVE /\ running = <<p>> /\ N = {p} /\ Len(running) = 1
                                          /\ UNCHANGED <<max, started, incoming, waiting, readySusp>>
  <2>1. running = <<p>> /\ UNCHANGED <<max, started, incoming, waiting, readySusp>>
    BY <1>3 DEF Work, scenario
  <2>2. ToSet(running) = N /\ ToSet(running) = {p} /\ Len(running) = 1
    BY <1>1, <2>1, ListsLen, ListsSingle
  <2> QED
    BY <2>1, <2>2
<1>4. /\ Len(running) \in Nat /\ Len(ready) \in Nat /\ Len(blocked) \in Nat /\ max \in Nat
      /\ Len(running) + Len(ready) + Len(blocked) <= max
  BY RoomIs, Scenario DEF IInv
<1>5. ASSUME NEW p \in Procs, Block(p) PROVE Kept'
  <2>1. Work(p)
    BY <1>5 DEF Block
  <2>2. /\ N = {p} /\ Len(running) = 1
        /\ UNCHANGED <<max, started, incoming, waiting, readySusp>>
    BY <1>3, <2>1
  <2>3. /\ running' = <<>> /\ ready' = ready /\ Finished' = Finished
        /\ \/ blockedSusp' = Append(blockedSusp, p) /\ blocked' = blocked
           \/ blocked' = Append(blocked, p) /\ blockedSusp' = blockedSusp
    BY <1>5 DEF Block, Finished
  <2>4. p \notin B /\ p \notin BS
    BY <1>1, <2>2 DEF Split
  <2>5. CASE blockedSusp' = Append(blockedSusp, p) /\ blocked' = blocked
    <3>1. Lists(Append(blockedSusp, p), BS \cup {p})
      BY <1>1, <2>4, ListsAppend
    <3>2. Split(I, W, R, {}, B, RS, BS \cup {p}, Finished', 1 .. started')
      BY <1>1, <2>2, <2>3 DEF Split
    <3>3. Placed'
      BY <1>1, <2>2, <2>3, <2>5, <3>1, <3>2, ListsEmpty DEF Placed
    <3> QED
      BY <1>4, <2>2, <2>3, <2>5, <3>3 DEF Kept, MultiprogrammingBound
  <2>6. CASE blocked' = Append(blocked, p) /\ blockedSusp' = blockedSusp
    <3>1. Lists(Append(blocked, p), B \cup {p}) /\ Len(Append(blocked, p)) = Len(blocked) + 1
      BY <1>1, <2>4, ListsAppend
    <3>2. Split(I, W, R, {}, B \cup {p}, RS, BS, Finished', 1 .. started')
      BY <1>1, <2>2, <2>3 DEF Split
    <3>3. Placed'
      BY <1>1, <2>2, <2>3, <2>6, <3>1, <3>2, ListsEmpty DEF Placed
    <3> QED
      BY <1>4, <2>2, <2>3, <2>6, <3>1, <3>3 DEF Kept, MultiprogrammingBound
  <2> QED
    BY <2>3, <2>5, <2>6
<1>6. ASSUME NEW p \in Procs, Terminate(p) PROVE Kept'
  <2>1. Work(p)
    BY <1>6 DEF Terminate
  <2>2. /\ N = {p} /\ Len(running) = 1
        /\ UNCHANGED <<max, started, incoming, waiting, readySusp>>
    BY <1>3, <2>1
  <2>3. /\ running' = <<>> /\ ready' = ready /\ blocked' = blocked /\ blockedSusp' = blockedSusp
        /\ Finished' = Finished \cup {p}
    BY <1>6 DEF Terminate, Finished
  <2>4. Split(I, W, R, {}, B, RS, BS, Finished', 1 .. started')
    BY <1>1, <2>2, <2>3 DEF Split
  <2>5. Placed'
    BY <1>1, <2>2, <2>3, <2>4, ListsEmpty DEF Placed
  <2> QED
    BY <1>4, <2>2, <2>3, <2>5 DEF Kept, MultiprogrammingBound
<1>7. ASSUME NEW p \in Procs, Preempt(p) PROVE Kept'
  <2>1. Work(p)
    BY <1>7 DEF Preempt
  <2>2. /\ N = {p} /\ Len(running) = 1
        /\ UNCHANGED <<max, started, incoming, waiting, readySusp>>
    BY <1>3, <2>1
  <2>3. /\ running' = <<>> /\ ready' = Append(ready, p) /\ Finished' = Finished
        /\ blocked' = blocked /\ blockedSusp' = blockedSusp
    BY <1>7 DEF Preempt, Finished
  <2>4. p \notin R
    BY <1>1, <2>2 DEF Split
  <2>5. Lists(Append(ready, p), R \cup {p}) /\ Len(Append(ready, p)) = Len(ready) + 1
    BY <1>1, <2>4, ListsAppend
  <2>6. Split(I, W, R \cup {p}, {}, B, RS, BS, Finished', 1 .. started')
    BY <1>1, <2>2, <2>3 DEF Split
  <2>7. Placed'
    BY <1>1, <2>2, <2>3, <2>5, <2>6, ListsEmpty DEF Placed
  <2> QED
    BY <1>4, <2>2, <2>3, <2>5, <2>7 DEF Kept, MultiprogrammingBound
<1>8. ASSUME NEW p \in Procs, Continue(p) PROVE Kept'
  <2>1. /\ UNCHANGED <<max, started, incoming, waiting, readySusp>>
        /\ UNCHANGED <<ready, running, blocked, blockedSusp>> /\ Finished' = Finished
    BY <1>3, <1>8 DEF Continue, Finished
  <2> QED
    BY <1>1, <2>1 DEF Kept, IInv, Placed, MultiprogrammingBound
<1> QED
  BY <1>2, <1>5, <1>6, <1>7, <1>8 DEF CheckRunningProcess

\* Some place has the highest priority, and some the lowest.
LEMMA PrioritiesEnd ==
  ASSUME NEW n \in Nat, NEW f, \A j \in 1 .. n : f[j] \in Nat, n > 0
  PROVE  /\ \E k \in 1 .. n : \A j \in 1 .. n : f[k] >= f[j]
         /\ \E k \in 1 .. n : \A j \in 1 .. n : f[k] <= f[j]
<1>1. \E k \in 1 .. n : \A j \in 1 .. n : f[k] >= f[j]
  <2> DEFINE Bad == {m \in 1 .. n : \A k \in 1 .. m : \E j \in 1 .. m : ~(f[k] >= f[j])}
  <2>1. Bad = {}
    <3> SUFFICES ASSUME Bad # {}
                 PROVE  FALSE
      OBVIOUS
    <3>1. PICK m \in Bad : \A x \in Bad : m <= x
      <4>1. Bad \subseteq Nat
        OBVIOUS
      <4> HIDE DEF Bad
      <4> QED
        BY <4>1, LeastOfNats
    <3>2. m \in 1 .. n /\ \A k \in 1 .. m : \E j \in 1 .. m : ~(f[k] >= f[j])
      OBVIOUS
    <3>3. m # 1
      <4> SUFFICES ASSUME m = 1
                   PROVE  FALSE
        OBVIOUS
      <4>1. PICK j \in 1 .. 1 : ~(f[1] >= f[j])
        BY <3>2
      <4>2. j = 1 /\ f[1] \in Nat
        BY <3>2
      <4> QED
        BY <4>1, <4>2
    <3>4. m - 1 \in 1 .. n /\ ~(m <= m - 1)
      BY <3>2, <3>3
    <3>5. PICK k \in 1 .. m - 1 : \A j \in 1 .. m - 1 : f[k] >= f[j]
      BY <3>1, <3>4
    <3> HIDE DEF Bad
    <3>6. 1 .. m = (1 .. m - 1) \cup {m} /\ k \in 1 .. m /\ m \in 1 .. m /\ 1 .. m \subseteq 1 .. n
      <4>1. m \in Nat /\ m <= n /\ m >= 1
        BY <3>2
      <4>2. 1 .. m = (1 .. m - 1) \cup {m}
        BY <4>1
      <4>3. k \in 1 .. m
        BY <4>1
      <4>4. m \in 1 .. m /\ 1 .. m \subseteq 1 .. n
        BY <4>1
      <4> QED
        BY <4>2, <4>3, <4>4
    <3>7. CASE f[k] >= f[m]
      <4>1. \A j \in 1 .. m : f[k] >= f[j]
        BY <3>5, <3>6, <3>7
      <4> QED
        BY <3>2, <3>6, <4>1
    <3>8. CASE ~(f[k] >= f[m])
      <4>1. ASSUME NEW j \in 1 .. m PROVE f[m] >= f[j]
        <5>1. f[j] \in Nat /\ f[m] \in Nat /\ f[k] \in Nat
          BY <3>6
        <5>2. f[k] >= f[j] \/ j = m
          BY <3>5, <3>6
        <5> QED
          BY <3>8, <5>1, <5>2
      <4> QED
        BY <3>2, <3>6, <4>1
    <3> QED
      BY <3>7, <3>8
  <2>2. n \in 1 .. n
    OBVIOUS
  <2>3. n \notin Bad
    <3> HIDE DEF Bad
    <3> QED
      BY <2>1
  <2> QED
    BY <2>2, <2>3
<1>2. \E k \in 1 .. n : \A j \in 1 .. n : f[k] <= f[j]
  <2> DEFINE V == {f[j] : j \in 1 .. n}
  <2>1. V \subseteq Nat /\ f[1] \in V
    OBVIOUS
  <2>2. PICK v \in V : \A x \in V : v <= x
    <3> HIDE DEF V
    <3> QED
      BY <2>1, LeastOfNats
  <2>3. PICK k \in 1 .. n : v = f[k]
    OBVIOUS
  <2> QED
    BY <2>2, <2>3
<1> QED
  BY <1>1, <1>2

\* Every algorithm takes the next process from the ready queue.
LEMMA DispatchedIsReady ==
  ASSUME IInv, ready # <<>>
  PROVE  /\ Choice \subseteq Places /\ Len(ready) \in Nat /\ Len(ready) > 0
         /\ \A i \in Places : ready[i] \in Procs /\ Prio(i) \in Nat
<1>1. PICK I, W, R, N, B, RS, BS :
        Lists(ready, R) /\ Split(I, W, R, N, B, RS, BS, Finished, 1 .. started)
  BY DEF IInv, Placed
<1>2. Len(ready) \in Nat /\ Len(ready) > 0
  <2>1. ready \in Seq(R)
    BY <1>1 DEF Lists
  <2>2. \A q \in Seq(R) : q # <<>> => Len(q) \in Nat \ {0}
    BY EmptySeq
  <2>3. Len(ready) \in Nat \ {0}
    BY <2>1, <2>2
  <2> QED
    BY <2>3
<1>3. 1 \in Places /\ Places \subseteq Nat
  BY <1>2 DEF Places
<1>4. \A S : S \subseteq Places /\ S # {} => First(S) \subseteq Places
  <2> SUFFICES ASSUME NEW S, S \subseteq Places, S # {}
               PROVE  Min(S) \in Places
    BY DEF First
  <2>1. \E x \in S : \A y \in S : x <= y
    BY <1>3, LeastOfNats
  <2> QED
    BY <2>1 DEF Min
<1>5. HighestRatio \subseteq Places
  <2> DEFINE rated == {i \in Places : Positive(i)}
             best  == {i \in rated : \A j \in rated : ~Higher(j, i)}
  <2>1. HighestRatio = IF best = {} THEN {1} ELSE First(best)
    BY DEF HighestRatio
  <2>2. best \subseteq Places
    OBVIOUS
  <2> HIDE DEF best
  <2> QED
    BY <1>3, <1>4, <2>1, <2>2
<1>6. \A i \in Places : ready[i] \in Procs /\ Prio(i) \in Nat
  <2> TAKE i \in Places
  <2>1. ready[i] \in R
    BY <1>1, ElementOfSeq DEF Places, Lists
  <2>2. ready[i] \in Procs
    BY <1>1, <2>1, Scenario DEF Split, IInv, Types
  <2>3. workload[ready[i]] \in Task
    BY <2>2, Scenario DEF IInv
  <2> QED
    BY <2>2, <2>3 DEF Prio, Task
<1> DEFINE Top == {i \in Places : \A j \in Places : Prio(i) >= Prio(j)}
           Low == {i \in Places : \A j \in Places : Prio(i) <= Prio(j)}
<1>7. Top # {} /\ Low # {}
  <2> DEFINE f == [j \in 1 .. Len(ready) |-> Prio(j)]
             n == Len(ready)
  <2>1. n \in Nat /\ n > 0 /\ \A j \in 1 .. n : f[j] \in Nat /\ f[j] = Prio(j)
    BY <1>2, <1>6 DEF Places
  <2>2. Places = 1 .. n
    BY DEF Places
  <2> HIDE DEF f, n
  <2>3. /\ \E k \in 1 .. n : \A j \in 1 .. n : f[k] >= f[j]
        /\ \E k \in 1 .. n : \A j \in 1 .. n : f[k] <= f[j]
    BY <2>1, PrioritiesEnd
  <2>4. PICK k \in 1 .. n : \A j \in 1 .. n : f[k] >= f[j]
    BY <2>3
  <2>5. PICK l \in 1 .. n : \A j \in 1 .. n : f[l] <= f[j]
    BY <2>3
  <2>6. k \in Places /\ \A j \in Places : Prio(k) >= Prio(j)
    <3>1. \A j \in 1 .. n : Prio(k) >= Prio(j)
      BY <2>1, <2>4
    <3> QED
      BY <2>2, <3>1
  <2>7. l \in Places /\ \A j \in Places : Prio(l) <= Prio(j)
    <3>1. \A j \in 1 .. n : Prio(l) <= Prio(j)
      BY <2>1, <2>5
    <3> QED
      BY <2>2, <3>1
  <2> QED
    BY <2>6, <2>7
<1>8. First(Top) \subseteq Places /\ First(Low) \subseteq Places
  <2>1. Top \subseteq Places /\ Low \subseteq Places
    OBVIOUS
  <2> HIDE DEF Top, Low
  <2> QED
    BY <1>4, <1>7, <2>1
<1>9. Choice \subseteq Places
  <2>1. algorithm \in {"RR", "HRRN", "PRIORITY", "LOTTERY", "SD", "FEEDBACK"}
    BY Scenario DEF IInv
  <2> HIDE DEF Top, Low
  <2>2. /\ algorithm \in {"RR", "SD"} => Choice = {1}
        /\ algorithm = "HRRN" => Choice = HighestRatio
        /\ algorithm = "PRIORITY" => Choice = First(Top)
        /\ algorithm = "FEEDBACK" => Choice = First(Low)
        /\ algorithm = "LOTTERY" => Choice = Places
    BY DEF Choice, Top, Low
  <2> QED
    BY <1>3, <1>5, <1>8, <2>1, <2>2
<1> QED
  BY <1>2, <1>6, <1>9

LEMMA DispatchKeeps ==
  ASSUME IInv, Dispatch
  PROVE  Kept'
<1>1. PICK I, W, R, N, B, RS, BS :
        /\ Lists(incoming, I) /\ Lists(waiting, W) /\ Lists(ready, R) /\ Lists(running, N)
        /\ Lists(blocked, B) /\ Lists(readySusp, RS) /\ Lists(blockedSusp, BS)
        /\ Split(I, W, R, N, B, RS, BS, Finished, 1 .. started)
  BY DEF IInv, Placed
<1>2. PICK i \in Choice : running' = <<ready[i]>> /\ ready' = RemoveAt(ready, i)
  BY DEF Dispatch
<1>3. /\ running = <<>> /\ Finished' = Finished
      /\ UNCHANGED <<max, started, incoming, waiting, blocked, readySusp, blockedSusp>>
  BY DEF Dispatch, scenario, Finished
<1>4. i \in 1 .. Len(ready) /\ ready[i] \in R
  <2>1. ready # <<>>
    BY DEF Dispatch
  <2>2. i \in Places
    BY <2>1, DispatchedIsReady
  <2> QED
    BY <1>1, <2>2, ElementOfSeq DEF Places, Lists
<1> DEFINE p == ready[i]
<1>5. Lists(RemoveAt(ready, i), R \ {p}) /\ Len(RemoveAt(ready, i)) = Len(ready) - 1
  BY <1>1, <1>4, ListsRemoveAt
<1>6. Lists(<<p>>, {p}) /\ Len(<<p>>) = 1
  BY ListsSingle
<1>7. N = {}
  BY <1>1, <1>3, ListsLen, FS_EmptySet
<1>8. /\ Len(running) \in Nat /\ Len(ready) \in Nat /\ Len(blocked) \in Nat /\ max \in Nat
      /\ Len(running) + Len(ready) + Len(blocked) <= max
  BY RoomIs, Scenario DEF IInv
<1>9. running' = <<p>>
  BY <1>2
<1> HIDE DEF p
<1>10. p \in R
  BY <1>4 DEF p
<1>11. Split(I, W, R \ {p}, {p}, B, RS, BS, Finished', 1 .. started')
  BY <1>1, <1>3, <1>7, <1>10 DEF Split
<1>12. Placed'
  BY <1>1, <1>2, <1>3, <1>5, <1>6, <1>9, <1>11 DEF Placed
<1>13. MultiprogrammingBound'
  <2>1. Len(running') = 1 /\ Len(ready') = Len(ready) - 1 /\ Len(blocked') = Len(blocked)
    BY <1>2, <1>3, <1>5, <1>6, <1>9
  <2>2. 1 + (Len(ready) - 1) + Len(blocked) <= max
    BY <1>3, <1>8
  <2> QED
    BY <1>3, <2>1, <2>2 DEF MultiprogrammingBound
<1> QED
  BY <1>12, <1>13 DEF Kept

LEMMA NextKeeps ==
  ASSUME IInv, [Next]_vars
  PROVE  Kept'
<1>1. CASE UNCHANGED vars
  BY <1>1 DEF vars, queues, scenario, Kept, IInv, Placed, MultiprogrammingBound, Finished
<1>2. CASE EnterLoop \/ NothingToDispatch \/ Tick \/ CalcStatistics
  <2>1. UNCHANGED <<queues, max, started, results>>
    BY <1>2 DEF EnterLoop, NothingToDispatch, Tick, CalcStatistics, scenario
  <2> QED
    BY <2>1 DEF queues, Kept, IInv, Placed, MultiprogrammingBound, Finished
<1> QED
  BY <1>1, <1>2, StartKeeps, IncomingKeeps, AdmitKeeps, BlockedKeeps, ReadySuspKeeps,
     RunningKeeps, DispatchKeeps DEF Next

-----------------------------------------------------------------------------
(* The types, the clock and the quantum *)

LEMMA SubmittedNowIs ==
  ASSUME NEW q, submission \in [Procs -> Nat], elapsed \in Nat
  PROVE  SubmittedNow(q) \in [Procs -> Nat]
BY DEF SubmittedNow

\* A quantum is within its algorithm's quota.
LEMMA QuantumIs ==
  ASSUME IInv, ready # <<>>, NEW i \in Places
  PROVE  Quantum(i) \in Nat /\ Quantum(i) <= Quota
<1>1. /\ max \in Nat /\ LongQuantum \in Nat /\ quantum \in Nat /\ quantum <= Quota
      /\ Len(ready) \in Nat /\ Len(ready) > 0 /\ Prio(i) \in Nat
      /\ algorithm \in {"RR", "HRRN", "PRIORITY", "LOTTERY", "SD", "FEEDBACK"}
  BY Scenario, DispatchedIsReady, BoundsAssumption DEF IInv, Types, Sliced
<1>2. CASE algorithm \in {"RR", "LOTTERY"}
  BY <1>2 DEF Quantum, Quota
<1>3. CASE algorithm \in {"HRRN", "PRIORITY"}
  BY <1>1, <1>3 DEF Quantum, Quota
<1>4. CASE algorithm = "SD"
  <2>1. max \div Len(ready) \in Nat /\ max \div Len(ready) <= max
    <3> DEFINE l == Len(ready)
    <3>1. l \in Nat /\ l > 0 /\ max \in Nat
      BY <1>1
    <3> HIDE DEF l
    <3>2. max \div l \in Nat /\ max \div l <= max
      BY <3>1
    <3> QED
      BY <3>2 DEF l
  <2>2. Quantum(i) = max \div Len(ready) /\ Quota = max
    BY <1>4 DEF Quantum, Quota
  <2> QED
    BY <2>1, <2>2
<1>5. CASE algorithm = "FEEDBACK"
  <2>1. Quota = 8 /\ Quantum(i) = IF Prio(i) > 3 THEN quantum ELSE 2 ^ Prio(i)
    BY <1>5 DEF Quantum, Quota
  <2>2. CASE Prio(i) > 3
    BY <1>1, <2>1, <2>2
  <2>3. CASE ~(Prio(i) > 3)
    <3>1. Prio(i) \in {0, 1, 2, 3}
      BY <1>1, <2>3
    <3>2. 2 ^ 0 = 1 /\ 2 ^ 1 = 2 /\ 2 ^ 2 = 4 /\ 2 ^ 3 = 8
      OBVIOUS
    <3>3. 2 ^ Prio(i) \in {1, 2, 4, 8}
      BY Zenon, <3>1, <3>2
    <3> QED
      BY <2>1, <2>3, <3>3
  <2> QED
    BY <2>2, <2>3
<1> QED
  BY <1>1, <1>2, <1>3, <1>4, <1>5

LEMMA RunningTypes ==
  ASSUME IInv, CheckRunningProcess
  PROVE  Types' /\ Clock' /\ Sliced'
<1>1. CASE NothingRuns
  BY <1>1 DEF NothingRuns, scenario, queues, counters, clock, history, IInv, Types, Clock,
              Sliced, Steps, Procs, Quota
<1>2. ASSUME NEW p \in Procs, Work(p)
      PROVE  /\ pc = "running" /\ pc' = "dispatch" /\ running = <<p>> /\ running # <<>>
             /\ slice' = slice + 1
             /\ UNCHANGED <<workload, max, algorithm, started, blockTime, submission, response,
                            quantum, cpuIdle, elapsed, idleTime>>
             /\ remaining' \in [Procs -> Nat]
  <2>1. remaining' = [remaining EXCEPT ![p] = IF @ > 0 THEN @ - 1 ELSE @]
    BY <1>2 DEF Work, DecrementExecutionTime
  <2>2. remaining \in [Procs -> Nat]
    BY DEF IInv, Types
  <2>3. remaining' \in [Procs -> Nat]
    BY <2>1, <2>2
  <2>4. /\ pc = "running" /\ pc' = "dispatch" /\ running = <<p>> /\ slice' = slice + 1
        /\ UNCHANGED <<workload, max, algorithm, started, blockTime, submission, response,
                       quantum, cpuIdle, elapsed, idleTime>>
    BY <1>2 DEF Work, scenario, clock
  <2>5. <<p>> # <<>>
    OBVIOUS
  <2> QED
    BY <2>3, <2>4, <2>5
<1>3. ASSUME NEW p \in Procs, Block(p) \/ Terminate(p) \/ Preempt(p) \/ Continue(p)
      PROVE  Types' /\ Clock' /\ Sliced'
  <2>1. Work(p)
    BY <1>3 DEF Block, Terminate, Preempt, Continue
  <2>2. suspended' \subseteq Procs
    BY <1>3 DEF Block, Terminate, Preempt, Continue, IInv, Types
  <2>3. running' = <<>> \/ (running' = running /\ quantum >= 1)
    BY <1>3 DEF Block, Terminate, Preempt, Continue
  <2>4. Types' /\ Clock'
    BY <1>2, <2>1, <2>2 DEF IInv, Types, Clock, Procs, Steps
  <2>5. /\ quantum \in Nat /\ slice \in Nat /\ Quota \in Nat /\ Quota' = Quota
        /\ slice + quantum < Quota
    BY <1>2, <2>1, Scenario DEF IInv, Types, Sliced, Quota
  <2>6. quantum' <= Quota'
    BY <1>2, <2>1 DEF IInv, Sliced, Quota
  <2>7. CASE running' = <<>>
    BY Zenon, <2>4, <2>6, <2>7 DEF Sliced
  <2>8. CASE quantum >= 1
    <3>1. slice + 1 < Quota /\ (slice + 1) + quantum <= Quota
      BY <2>5, <2>8
    <3>2. pc' = "dispatch" /\ slice' = slice + 1 /\ quantum' = quantum
      BY <1>2, <2>1
    <3>3. slice' < Quota' /\ slice' + quantum' <= Quota'
      BY <2>5, <3>1, <3>2
    <3> QED
      BY Zenon, <2>4, <2>6, <3>2, <3>3 DEF Sliced
  <2> QED
    BY <2>3, <2>4, <2>7, <2>8
<1> QED
  BY <1>1, <1>3 DEF CheckRunningProcess

LEMMA DispatchTypes ==
  ASSUME IInv, Dispatch
  PROVE  Types' /\ Clock' /\ Sliced'
<1>1. ready # <<>>
  BY DEF Dispatch
<1>2. PICK i \in Choice : /\ quantum' = Quantum(i)
                          /\ response' = IF response[ready[i]] = -1
                               THEN [response EXCEPT ![ready[i]] = elapsed - submission[ready[i]]]
                               ELSE response
  BY DEF Dispatch
<1>3. i \in Places /\ ready[i] \in Procs
  BY <1>1, DispatchedIsReady
<1>4. Quantum(i) \in Nat /\ Quantum(i) <= Quota
  BY <1>1, <1>3, QuantumIs
<1>5. /\ pc = "dispatch" /\ pc' = "clock" /\ slice' = 0 /\ cpuIdle' = FALSE
      /\ UNCHANGED <<workload, max, algorithm, started, remaining, blockTime, submission,
                     elapsed, idleTime, suspended>>
  BY DEF Dispatch, scenario
<1>6. Quota' = Quota /\ Quota \in Nat /\ Quota > 0
  BY <1>5, Scenario DEF Quota, IInv
<1>7. response' \in [Procs -> Int]
  <2> DEFINE p == ready[i]
             t == elapsed - submission[p]
  <2>1. elapsed \in Nat /\ submission[p] \in Nat /\ response \in [Procs -> Int]
    BY <1>3, <1>5 DEF IInv, Types, Clock
  <2>2. t \in Int
    BY <2>1
  <2> HIDE DEF p, t
  <2> QED
    BY <1>2, <2>1, <2>2 DEF p, t
<1>8. Types' /\ Clock'
  BY <1>2, <1>4, <1>5, <1>7 DEF IInv, Types, Clock, Procs, Steps
<1>9. Sliced'
  BY <1>2, <1>4, <1>5, <1>6 DEF Sliced
<1> QED
  BY <1>8, <1>9

LEMMA TickTypes ==
  ASSUME IInv, Tick
  PROVE  Types' /\ Clock' /\ Sliced'
<1>1. /\ pc = "clock" /\ pc' = "loop" /\ quantum' = IF quantum > 0 THEN quantum - 1 ELSE 0
      /\ UNCHANGED <<workload, max, algorithm, started, running, remaining, blockTime,
                     submission, response, cpuIdle, slice, suspended>>
  BY DEF Tick, scenario, queues, counters, history, DecrementQuantum
<1>2. PICK step \in {0, 1} : /\ step = IF elapsed < TimeLimit THEN 1 ELSE 0
                             /\ elapsed' = elapsed + step
                             /\ idleTime' \in {idleTime, idleTime + step}
  BY DEF Tick
<1>3. /\ elapsed \in 0 .. TimeLimit /\ idleTime \in 0 .. elapsed /\ TimeLimit \in Nat
      /\ quantum \in Nat /\ slice \in Nat /\ Quota \in Nat /\ quantum <= Quota
      /\ (running # <<>> => slice < Quota /\ slice + quantum <= Quota)
  BY <1>1, Scenario, BoundsAssumption DEF IInv, Types, Clock, Sliced
<1>4. Types'
  <2>1. quantum' \in Nat
    BY <1>1, <1>3
  <2> QED
    BY <1>1, <2>1 DEF IInv, Types, Procs, Steps
<1>5. Clock'
  <2>1. elapsed' \in 0 .. TimeLimit /\ idleTime' \in 0 .. elapsed'
    BY <1>2, <1>3
  <2> QED
    BY <1>1, <2>1 DEF Clock
<1>6. Sliced'
  <2>1. Quota' = Quota
    BY <1>1 DEF Quota
  <2>2. quantum' <= Quota
    BY <1>1, <1>3
  <2>3. running # <<>> => slice < Quota /\ slice + quantum' < Quota
    BY <1>1, <1>3
  <2> QED
    BY <1>1, <2>1, <2>2, <2>3 DEF Sliced
<1> QED
  BY <1>4, <1>5, <1>6

LEMMA NextTypes ==
  ASSUME IInv, [Next]_vars
  PROVE  Types' /\ Clock' /\ Sliced'
<1>1. CASE UNCHANGED vars
  BY <1>1 DEF vars, scenario, queues, counters, clock, history, IInv, Types, Clock, Sliced,
              Procs, Quota
<1>2. CASE StartProcess
  <2>1. started' = started + 1 /\ started < Len(workload) /\ pc = "start"
        /\ UNCHANGED <<scenario, pc, running, counters, clock, history>>
    BY <1>2 DEF StartProcess
  <2>2. started' \in 0 .. Len(workload)
    BY <2>1, Scenario DEF IInv, Types
  <2> QED
    BY <2>1, <2>2 DEF scenario, counters, clock, history, IInv, Types, Clock, Sliced, Procs, Quota
<1>3. CASE EnterLoop \/ CheckIncomingQueue \/ CheckReadySuspensedQueue \/ Admit
           \/ CheckBlockedQueue \/ NothingToDispatch
  <2>1. /\ UNCHANGED <<workload, max, algorithm, started, running, remaining, response,
                       quantum, elapsed, idleTime, slice, suspended>>
        /\ pc \in Steps \ {"done"} /\ pc' \in Steps \ {"done"}
        /\ pc \in {"dispatch", "clock"} <=> pc' \in {"dispatch", "clock"}
    BY <1>3 DEF EnterLoop, CheckIncomingQueue, CheckReadySuspensedQueue, Admit, CheckBlockedQueue,
         NothingToDispatch, scenario, queues, counters, clock, history, Steps
  <2>2. cpuIdle' \in BOOLEAN
    BY <1>3 DEF EnterLoop, CheckIncomingQueue, CheckReadySuspensedQueue, Admit, CheckBlockedQueue,
         NothingToDispatch, IdleAfter, clock, IInv, Types
  <2>3. blockTime' \in [Procs -> Nat]
    <3>1. blockTime \in [Procs -> Nat]
      BY DEF IInv, Types
    <3>2. CASE CheckBlockedQueue
      BY <3>1, <3>2 DEF CheckBlockedQueue
    <3>3. CASE ~CheckBlockedQueue
      BY <1>3, <3>1, <3>3 DEF EnterLoop, CheckIncomingQueue, CheckReadySuspensedQueue, Admit,
           NothingToDispatch, counters
    <3> QED
      BY <3>2, <3>3
  <2>4. submission' \in [Procs -> Nat]
    <3>1. submission \in [Procs -> Nat] /\ elapsed \in Nat
      BY <2>1 DEF IInv, Types, Clock
    <3>2. submission' = submission \/ \E q : submission' = SubmittedNow(q)
      BY <1>3 DEF EnterLoop, CheckIncomingQueue, CheckReadySuspensedQueue, Admit,
           CheckBlockedQueue, NothingToDispatch, counters
    <3> QED
      BY <3>1, <3>2, SubmittedNowIs
  <2>5. Types' /\ Clock'
    BY <2>1, <2>2, <2>3, <2>4 DEF IInv, Types, Clock, Procs
  <2>6. Sliced'
    BY <2>1 DEF IInv, Sliced, Quota
  <2> QED
    BY <2>5, <2>6
<1>4. CASE CalcStatistics
  <2>1. /\ pc = "loop" /\ pc' = "done" /\ elapsed' = elapsed - 1 /\ idleTime' = idleTime - 1
        /\ UNCHANGED <<workload, max, algorithm, started, running, remaining, blockTime,
                       submission, response, quantum, cpuIdle, slice, suspended>>
    BY <1>4 DEF CalcStatistics, scenario, queues, counters, history
  <2>2. elapsed' \in -1 .. TimeLimit /\ idleTime' \in -1 .. TimeLimit
    BY <2>1, BoundsAssumption DEF IInv, Clock
  <2> QED
    BY <2>1, <2>2 DEF IInv, Types, Clock, Sliced, Procs, Steps, Quota
<1> QED
  BY <1>1, <1>2, <1>3, <1>4, RunningTypes, DispatchTypes, TickTypes DEF Next

-----------------------------------------------------------------------------
(* The theorems *)

LEMMA Invariant == Spec => []IInv
<1>1. Init => IInv
  BY InitIInv
<1>2. IInv /\ [Next]_vars => IInv'
  BY NextKeeps, NextTypes DEF IInv, Kept
<1> QED
  BY <1>1, <1>2, PTL DEF Spec

LEMMA Typed ==
  ASSUME IInv
  PROVE  TypeOK
<1>1. PICK I, W, R, N, B, RS, BS :
        /\ Lists(incoming, I) /\ Lists(waiting, W) /\ Lists(ready, R) /\ Lists(running, N)
        /\ Lists(blocked, B) /\ Lists(readySusp, RS) /\ Lists(blockedSusp, BS)
        /\ Split(I, W, R, N, B, RS, BS, Finished, 1 .. started)
  BY DEF IInv, Placed
<1>2. \A q, X : Lists(q, X) /\ X \subseteq 1 .. started => q \in Seq(1 .. started)
  BY SeqMonotonic DEF Lists
<1>3. /\ I \subseteq 1 .. started /\ W \subseteq 1 .. started /\ R \subseteq 1 .. started
      /\ N \subseteq 1 .. started /\ B \subseteq 1 .. started /\ RS \subseteq 1 .. started
      /\ BS \subseteq 1 .. started /\ DOMAIN results \subseteq 1 .. started
  BY <1>1 DEF Split, Finished
<1>4. \A q \in {incoming, waiting, ready, running, blocked, readySusp, blockedSusp} :
        q \in Seq(1 .. started)
  BY <1>1, <1>2, <1>3
<1>5. elapsed \in -1 .. TimeLimit /\ idleTime \in -1 .. TimeLimit
  <2>1. TimeLimit \in Nat
    BY BoundsAssumption
  <2> QED
    BY <2>1 DEF IInv, Clock
<1> QED
  BY <1>3, <1>4, <1>5 DEF TypeOK, IInv, Types, Steps

LEMMA OnePlace ==
  ASSUME IInv
  PROVE  OnePlaceEach
<1>1. PICK I, W, R, N, B, RS, BS :
        /\ Lists(incoming, I) /\ Lists(waiting, W) /\ Lists(ready, R) /\ Lists(running, N)
        /\ Lists(blocked, B) /\ Lists(readySusp, RS) /\ Lists(blockedSusp, BS)
        /\ Split(I, W, R, N, B, RS, BS, Finished, 1 .. started)
  BY DEF IInv, Placed
<1> DEFINE q2 == incoming \o waiting
           q3 == q2 \o ready
           q4 == q3 \o running
           q5 == q4 \o blocked
           q6 == q5 \o readySusp
           X == I \cup W \cup R \cup N \cup B \cup RS \cup BS
<1>2. Lists(q2, I \cup W)
  <2>1. I \cap W = {}
    BY <1>1 DEF Split
  <2> QED
    BY <1>1, <2>1, ListsConcat
<1> HIDE DEF q2
<1>3. Lists(q3, I \cup W \cup R)
  <2>1. (I \cup W) \cap R = {}
    BY <1>1 DEF Split
  <2> QED
    BY <1>1, <1>2, <2>1, ListsConcat
<1> HIDE DEF q3
<1>4. Lists(q4, I \cup W \cup R \cup N)
  <2>1. (I \cup W \cup R) \cap N = {}
    BY <1>1 DEF Split
  <2> QED
    BY <1>1, <1>3, <2>1, ListsConcat
<1> HIDE DEF q4
<1>5. Lists(q5, I \cup W \cup R \cup N \cup B)
  <2>1. (I \cup W \cup R \cup N) \cap B = {}
    BY <1>1 DEF Split
  <2> QED
    BY <1>1, <1>4, <2>1, ListsConcat
<1> HIDE DEF q5
<1>6. Lists(q6, I \cup W \cup R \cup N \cup B \cup RS)
  <2>1. (I \cup W \cup R \cup N \cup B) \cap RS = {}
    BY <1>1 DEF Split
  <2> QED
    BY <1>1, <1>5, <2>1, ListsConcat
<1> HIDE DEF q6
<1>7. Lists(q6 \o blockedSusp, X)
  <2>1. (I \cup W \cup R \cup N \cup B \cup RS) \cap BS = {}
    BY <1>1 DEF Split
  <2> QED
    BY <1>1, <1>6, <2>1, ListsConcat
<1>8. Everywhere = q6 \o blockedSusp
  BY DEF Everywhere, q2, q3, q4, q5, q6
<1>9. Len(Everywhere) = Cardinality(X) /\ ToSet(Everywhere) = X
  BY <1>7, <1>8, ListsLen
<1>10. X \cap Finished = {} /\ X \cup Finished = 1 .. started
  BY <1>1 DEF Split
<1> QED
  BY <1>9, <1>10 DEF OnePlaceEach

\* Every variable keeps its type and the clock its bounds, for every workload,
\* degree of multiprogramming and algorithm.
THEOREM SchedSimTypeOK == Spec => []TypeOK
<1>1. IInv => TypeOK
  BY Typed
<1> QED
  BY <1>1, Invariant, PTL

\* Through every hand-over between the vectors of Simulate.cpp, with the
\* suspensions and the returns from them, each started process is in exactly
\* one place of one vector or has terminated.
THEOREM SchedSimOnePlaceEach == Spec => []OnePlaceEach
<1>1. IInv => OnePlaceEach
  BY OnePlace
<1> QED
  BY <1>1, Invariant, PTL

\* None of the functions that fill readyQueue, runningProcess and blockedQueue
\* brings their sum above maxProcessMultiprogramming, so that the unsigned
\* difference of isSysFull never wraps.
THEOREM SchedSimMultiprogrammingBound == Spec => []MultiprogrammingBound
<1>1. IInv => MultiprogrammingBound
  BY DEF IInv
<1> QED
  BY <1>1, Invariant, PTL

\* CheckRunningProcess lets no process run on when it has had the quantum its
\* algorithm gives.
THEOREM SchedSimSliceBound == Spec => []SliceBound
<1>1. IInv => SliceBound
  BY DEF IInv, Sliced, SliceBound
<1> QED
  BY <1>1, Invariant, PTL

LEMMA Gridlocked ==
  ASSUME IInv, Gridlock, [Next]_vars
  PROVE  Gridlock'
<1>1. PICK I, W, R, N, B, RS, BS :
        /\ Lists(incoming, I) /\ Lists(waiting, W) /\ Lists(ready, R) /\ Lists(running, N)
        /\ Lists(blocked, B) /\ Lists(readySusp, RS) /\ Lists(blockedSusp, BS)
        /\ Split(I, W, R, N, B, RS, BS, Finished, 1 .. started)
  BY DEF IInv, Placed
<1>2. /\ Len(blocked) = max /\ waiting # <<>> /\ running = <<>> /\ ready = <<>>
      /\ waiting \in Seq(W)
  BY <1>1 DEF Gridlock, Lists
<1>3. IsSysFull /\ Room = 0 /\ Room \in Nat
  <2>1. Len(running) = 0 /\ Len(ready) = 0
    BY <1>2
  <2>2. max \in Nat
    BY Scenario DEF IInv
  <2>3. InSystem = max
    BY <1>2, <2>1, <2>2, RoomIs
  <2> QED
    BY <2>2, <2>3, RoomIs
<1>4. \A X, Y : \A q \in Seq(X), r \in Seq(Y) : q # <<>> => q \o r # <<>>
  <2> SUFFICES ASSUME NEW X, NEW Y, NEW q \in Seq(X), NEW r \in Seq(Y), q # <<>>
               PROVE  q \o r # <<>>
    OBVIOUS
  <2>1. Len(q) \in Nat /\ Len(r) \in Nat /\ Len(q) # 0 /\ Len(q \o r) = Len(q) + Len(r)
    BY EmptySeq, LenProperties
  <2>2. Len(q \o r) # 0
    BY <2>1
  <2>3. Len(<<>>) = 0
    OBVIOUS
  <2> QED
    BY <2>2, <2>3
<1>5. CASE UNCHANGED <<max, waiting, ready, running, blocked>>
  BY <1>2, <1>5 DEF Gridlock
<1>6. CASE StartProcess
  <2>1. /\ UNCHANGED <<max, ready, running, blocked>>
        /\ waiting' = waiting \/ waiting' = Append(waiting, started + 1)
    BY <1>3, <1>6 DEF StartProcess, scenario
  <2>2. Append(waiting, started + 1) # <<>>
    <3> DEFINE p == started + 1
    <3>1. waiting \in Seq(W \cup {p}) /\ p \in W \cup {p}
      BY <1>2, SeqMonotonic
    <3> HIDE DEF p
    <3>2. Append(waiting, p) # <<>>
      BY <3>1, AppendProperties
    <3> QED
      BY <3>2 DEF p
  <2> QED
    BY <1>2, <2>1, <2>2 DEF Gridlock
<1>7. CASE CheckIncomingQueue
  <2> DEFINE Submitted == {p \in Procs : submission[p] - elapsed <= 0}
             a == FromTheEnd(incoming, Submitted)
  <2>1. UNCHANGED <<max, ready, running, blocked>> /\ waiting' = waiting \o a
    BY <1>7 DEF CheckIncomingQueue, scenario
  <2> HIDE DEF Submitted
  <2>2. Lists(a, I \cap Submitted)
    <3>1. I \subseteq Procs
      BY <1>1, Scenario DEF Split, IInv, Types
    <3> QED
      BY <1>1, <3>1, MovedLists
  <2> HIDE DEF a
  <2>3. a \in Seq(I \cap Submitted)
    BY <2>2 DEF Lists
  <2>4. waiting \o a # <<>>
    BY <1>2, <1>4, <2>3
  <2> QED
    BY <1>2, <2>1, <2>4 DEF Gridlock
<1>8. CASE Admit
  <2>1. Left(waiting) = waiting /\ Admitted(waiting) = <<>>
    BY <1>1, <1>3, AdmittedLists
  <2>2. /\ UNCHANGED <<max, running, blocked>> /\ waiting' = Left(waiting)
        /\ ready' = ready \o Admitted(waiting)
    BY <1>8 DEF Admit, scenario
  <2>3. ready' = <<>>
    BY <1>2, <2>1, <2>2
  <2> QED
    BY <1>2, <2>1, <2>2, <2>3 DEF Gridlock
<1>9. CASE CheckBlockedQueue
  <2> DEFINE a == FromTheEnd(blocked, {})
             b == Staying(blocked, {})
  <2>1. /\ UNCHANGED <<max, waiting, running>>
        /\ ready' = ready \o a /\ blocked' = b
    BY <1>2, <1>9 DEF CheckBlockedQueue, NobodyWaits, scenario
  <2>2. Lists(a, {}) /\ Len(a) + Len(b) = Len(blocked) /\ Len(b) \in Nat
    <3>1. B \subseteq Procs /\ B \cap {} = {}
      BY <1>1, Scenario DEF Split, IInv, Types
    <3>2. Lists(a, B \cap {}) /\ Lists(b, B \ {}) /\ Len(a) + Len(b) = Len(blocked)
      BY <1>1, <3>1, MovedLists
    <3> HIDE DEF a, b
    <3> QED
      BY <3>1, <3>2, ListsLen
  <2> HIDE DEF a, b
  <2>3. a = <<>>
    BY <2>2, EmptySeq DEF Lists
  <2>4. Len(b) = Len(blocked)
    BY <2>2, <2>3
  <2> QED
    BY <1>2, <2>1, <2>3, <2>4 DEF Gridlock
<1>10. CASE CheckReadySuspensedQueue
  BY <1>2, <1>5, <1>10 DEF CheckReadySuspensedQueue, NobodyWaits, scenario
<1>11. CASE CheckRunningProcess
  <2>1. ASSUME NEW p \in Procs, Block(p) \/ Terminate(p) \/ Preempt(p) \/ Continue(p)
        PROVE  FALSE
    <3>1. running = <<p>>
      BY <2>1 DEF Block, Terminate, Preempt, Continue, Work
    <3>2. <<p>> # <<>>
      OBVIOUS
    <3> QED
      BY <1>2, <3>1, <3>2
  <2> QED
    BY <1>5, <1>11, <2>1 DEF CheckRunningProcess, NothingRuns, queues, scenario
<1>12. CASE Dispatch
  BY <1>2, <1>12 DEF Dispatch
<1>13. CASE EnterLoop \/ NothingToDispatch \/ Tick \/ CalcStatistics \/ UNCHANGED vars
  BY <1>5, <1>13 DEF EnterLoop, NothingToDispatch, Tick, CalcStatistics, vars, queues, scenario
<1> QED
  BY <1>6, <1>7, <1>8, <1>9, <1>10, <1>11, <1>12, <1>13 DEF Next

\* When blocked processes hold every place while others wait, isSysFull lets
\* nobody in and CheckBlockedQueue nobody out: the loop of StartSimulation goes
\* on so, whatever arrives meanwhile.
THEOREM SchedSimGridlockIsForever == Spec => GridlockIsForever
<1>1. IInv /\ [Next]_vars => (Gridlock => Gridlock')
  BY Gridlocked
<1>2. IInv /\ [Next]_vars => [Gridlock => Gridlock']_vars
  BY <1>1
<1> QED
  BY <1>2, Invariant, PTL DEF Spec, GridlockIsForever

-----------------------------------------------------------------------------
(* Sums *)

\* Induction on the natural numbers, for a set.
LEMMA NatsBySteps ==
  ASSUME NEW S, 0 \in S, \A n \in Nat : n \in S => n + 1 \in S
  PROVE  \A n \in Nat : n \in S
<1> DEFINE Bad == {n \in Nat : n \notin S}
<1>1. ASSUME Bad # {}
      PROVE  FALSE
  <2>1. PICK m \in Bad : \A n \in Bad : m <= n
    <3>1. Bad \subseteq Nat
      OBVIOUS
    <3> HIDE DEF Bad
    <3> QED
      BY <1>1, <3>1, LeastOfNats
  <2>2. m \in Nat /\ m # 0
    OBVIOUS
  <2>3. m - 1 \in Nat /\ ~(m <= m - 1) /\ (m - 1) + 1 = m
    BY <2>2
  <2>4. m - 1 \in S
    BY <2>1, <2>3
  <2>5. (m - 1) + 1 \in S
    BY <2>3, <2>4
  <2> QED
    BY <2>3, <2>5
<1> QED
  BY <1>1

\* u holds the sums of f up to the n-th.
Sums(u, f, n) ==
  /\ u = [k \in 0 .. n |-> u[k]]
  /\ \A k \in 0 .. n : u[k] = IF k = 0 THEN 0 ELSE u[k - 1] + f[k]

LEMMA SumsExist ==
  ASSUME NEW f, NEW n \in Nat
  PROVE  \E u : Sums(u, f, n)
<1> DEFINE S == {m \in Nat : \E u : Sums(u, f, m)}
<1>1. 0 \in S
  <2> DEFINE v == [k \in 0 .. 0 |-> 0]
  <2>1. Sums(v, f, 0)
    BY DEF Sums
  <2> HIDE DEF v
  <2> QED
    BY <2>1
<1>2. ASSUME NEW m \in Nat, m \in S
      PROVE  m + 1 \in S
  <2>1. PICK u : Sums(u, f, m)
    BY <1>2
  <2> DEFINE v == [k \in 0 .. m + 1 |-> IF k = m + 1 THEN u[m] + f[k] ELSE u[k]]
  <2>2. \A k \in 0 .. m : v[k] = u[k]
    OBVIOUS
  <2>3. \A k \in 0 .. m : u[k] = IF k = 0 THEN 0 ELSE u[k - 1] + f[k]
    BY <2>1 DEF Sums
  <2>4. ASSUME NEW k \in 0 .. m + 1
        PROVE  v[k] = IF k = 0 THEN 0 ELSE v[k - 1] + f[k]
    <3>1. CASE k = m + 1
      <4>1. v[k] = u[m] + f[k] /\ k - 1 = m /\ k # 0 /\ m \in 0 .. m
        BY <3>1
      <4> HIDE DEF v
      <4> QED
        BY <2>2, <4>1
    <3>2. CASE k # m + 1
      <4>1. k \in 0 .. m /\ (k # 0 => k - 1 \in 0 .. m)
        BY <3>2
      <4> HIDE DEF v
      <4> QED
        BY <2>2, <2>3, <4>1
    <3> QED
      BY <3>1, <3>2
  <2>5. v = [k \in 0 .. m + 1 |-> v[k]]
    OBVIOUS
  <2>6. Sums(v, f, m + 1)
    <3> HIDE DEF v
    <3> QED
      BY <2>4, <2>5 DEF Sums
  <2> HIDE DEF v
  <2> QED
    BY <2>6
<1>3. n \in S
  <2> HIDE DEF S
  <2> QED
    BY <1>1, <1>2, NatsBySteps
<1> QED
  BY <1>3

LEMMA TotalIs ==
  ASSUME NEW f, NEW n \in Nat
  PROVE  \E u : /\ Total(f, n) = u[n] /\ u[0] = 0
                /\ \A k \in 0 .. n - 1 : u[k + 1] = u[k] + f[k + 1]
<1> DEFINE Is(u) == u = [k \in 0 .. n |-> IF k = 0 THEN 0 ELSE u[k - 1] + f[k]]
           U == CHOOSE u : Is(u)
<1>1. \E u : Is(u)
  <2>1. PICK u : Sums(u, f, n)
    BY Zenon, SumsExist
  <2>2. Is(u)
    BY <2>1 DEF Sums
  <2> QED
    BY <2>2
<1>2. Is(U)
  <2> HIDE DEF Is
  <2> QED
    BY <1>1
<1>3. Total(f, n) = U[n]
  BY Zenon DEF Total
<1> HIDE DEF U
<1>4. \A k \in 0 .. n : U[k] = IF k = 0 THEN 0 ELSE U[k - 1] + f[k]
  BY <1>2
<1> HIDE DEF Is
<1>5. U[0] = 0
  BY <1>4
<1>6. ASSUME NEW k \in 0 .. n - 1
      PROVE  U[k + 1] = U[k] + f[k + 1]
  <2>1. k + 1 \in 0 .. n /\ k + 1 # 0 /\ (k + 1) - 1 = k
    OBVIOUS
  <2> QED
    BY <1>4, <2>1
<1> QED
  BY <1>3, <1>5, <1>6

\* The sum of naught is naught.
LEMMA TotalZero ==
  ASSUME NEW f, NEW n \in Nat, \A k \in 1 .. n : f[k] = 0
  PROVE  Total(f, n) = 0
<1>1. PICK u : /\ Total(f, n) = u[n] /\ u[0] = 0
               /\ \A k \in 0 .. n - 1 : u[k + 1] = u[k] + f[k + 1]
  BY TotalIs
<1> DEFINE S == {k \in Nat : k <= n => u[k] = 0}
<1>2. 0 \in S
  BY <1>1
<1>3. ASSUME NEW k \in Nat, k \in S
      PROVE  k + 1 \in S
  <2> SUFFICES ASSUME k + 1 <= n
               PROVE  u[k + 1] = 0
    OBVIOUS
  <2>1. k \in 0 .. n - 1 /\ k <= n /\ k + 1 \in 1 .. n
    OBVIOUS
  <2> QED
    BY <1>1, <1>3, <2>1
<1>4. n \in S
  <2> HIDE DEF S
  <2> QED
    BY <1>2, <1>3, NatsBySteps
<1> QED
  BY <1>1, <1>4

\* Each of n numbers from 1 on makes the sum no less than n.
LEMMA TotalAtLeast ==
  ASSUME NEW f, NEW n \in Nat, \A k \in 1 .. n : f[k] \in Nat /\ f[k] >= 1
  PROVE  Total(f, n) >= n
<1>1. PICK u : /\ Total(f, n) = u[n] /\ u[0] = 0
               /\ \A k \in 0 .. n - 1 : u[k + 1] = u[k] + f[k + 1]
  BY TotalIs
<1> DEFINE S == {k \in Nat : k <= n => u[k] \in Nat /\ u[k] >= k}
<1>2. 0 \in S
  BY <1>1
<1>3. ASSUME NEW k \in Nat, k \in S
      PROVE  k + 1 \in S
  <2> SUFFICES ASSUME k + 1 <= n
               PROVE  u[k + 1] \in Nat /\ u[k + 1] >= k + 1
    OBVIOUS
  <2>1. k \in 0 .. n - 1 /\ k <= n /\ k + 1 \in 1 .. n
    OBVIOUS
  <2>2. u[k] \in Nat /\ u[k] >= k /\ f[k + 1] \in Nat /\ f[k + 1] >= 1
    BY <1>3, <2>1
  <2> QED
    BY <1>1, <2>1, <2>2
<1>4. n \in S
  <2> HIDE DEF S
  <2> QED
    BY <1>2, <1>3, NatsBySteps
<1> QED
  BY <1>1, <1>4

\* One number that grows by d makes the sum grow by d.
LEMMA TotalChange ==
  ASSUME NEW f, NEW g, NEW n \in Nat, NEW p \in 1 .. n, NEW d \in Int,
         \A k \in 1 .. n : f[k] \in Int,
         \A k \in 1 .. n : g[k] = IF k = p THEN f[k] + d ELSE f[k]
  PROVE  Total(f, n) \in Int /\ Total(g, n) = Total(f, n) + d
<1>1. PICK u : /\ Total(f, n) = u[n] /\ u[0] = 0
               /\ \A k \in 0 .. n - 1 : u[k + 1] = u[k] + f[k + 1]
  BY TotalIs
<1>2. PICK v : /\ Total(g, n) = v[n] /\ v[0] = 0
               /\ \A k \in 0 .. n - 1 : v[k + 1] = v[k] + g[k + 1]
  BY TotalIs
<1> DEFINE S == {k \in Nat : k <= n => /\ u[k] \in Int
                                       /\ v[k] = IF k < p THEN u[k] ELSE u[k] + d}
<1>3. 0 \in S
  BY <1>1, <1>2
<1>4. ASSUME NEW k \in Nat, k \in S
      PROVE  k + 1 \in S
  <2> SUFFICES ASSUME k + 1 <= n
               PROVE  /\ u[k + 1] \in Int
                      /\ v[k + 1] = IF k + 1 < p THEN u[k + 1] ELSE u[k + 1] + d
    OBVIOUS
  <2>1. k \in 0 .. n - 1 /\ k <= n /\ k + 1 \in 1 .. n
    OBVIOUS
  <2>2. u[k] \in Int /\ f[k + 1] \in Int /\ v[k] = IF k < p THEN u[k] ELSE u[k] + d
    BY <1>4, <2>1
  <2>3. u[k + 1] = u[k] + f[k + 1] /\ v[k + 1] = v[k] + g[k + 1]
    BY <1>1, <1>2, <2>1
  <2>4. g[k + 1] = IF k + 1 = p THEN f[k + 1] + d ELSE f[k + 1]
    BY <2>1
  <2> HIDE DEF S
  <2> QED
    BY <2>2, <2>3, <2>4
<1>5. n \in S
  <2> HIDE DEF S
  <2> QED
    BY <1>3, <1>4, NatsBySteps
<1> QED
  BY <1>1, <1>2, <1>5

-----------------------------------------------------------------------------
(* Which processes a step moves *)

\* The processes nothing has happened to yet.
Fresh == (Procs \ 1 .. started) \cup ToSet(incoming) \cup ToSet(waiting)

LEMMA ToSetSingle == \A x : ToSet(<<x>>) = {x}
BY DEF ToSet

LEMMA ToSetEmpty == ToSet(<<>>) = {}
BY DEF ToSet

LEMMA ToSetAppend ==
  ASSUME NEW q, NEW S, Lists(q, S), NEW x
  PROVE  ToSet(Append(q, x)) = S \cup {x}
<1>1. /\ q \in Seq(S) /\ Len(q) \in Nat
      /\ \A y \in S : \E j \in 1 .. Len(q) : q[j] = y
      /\ \A j \in 1 .. Len(q) : q[j] \in S
  BY LenProperties, ElementOfSeq DEF Lists
<1> DEFINE r == Append(q, x)
<1>2. /\ DOMAIN r = 1 .. Len(q) + 1 /\ r[Len(q) + 1] = x
      /\ \A j \in 1 .. Len(q) : r[j] = q[j]
  <2>1. q \in Seq(S \cup {x}) /\ x \in S \cup {x}
    BY <1>1, SeqMonotonic
  <2> QED
    BY <2>1, <1>1, AppendProperties
<1> HIDE DEF r
<1>3. \A j \in 1 .. Len(q) + 1 : j = Len(q) + 1 \/ j \in 1 .. Len(q)
  BY <1>1
<1>4. 1 .. Len(q) \subseteq 1 .. Len(q) + 1 /\ Len(q) + 1 \in 1 .. Len(q) + 1
  BY <1>1
<1>5. ToSet(r) = {r[j] : j \in 1 .. Len(q) + 1}
  BY <1>2 DEF ToSet
<1>6. ASSUME NEW y \in ToSet(r) PROVE y \in S \cup {x}
  <2>1. PICK j \in 1 .. Len(q) + 1 : y = r[j]
    BY <1>5
  <2> QED
    BY <1>1, <1>2, <1>3, <2>1
<1>7. ASSUME NEW y \in S PROVE y \in ToSet(r)
  <2>1. PICK j \in 1 .. Len(q) : q[j] = y
    BY <1>1
  <2>2. r[j] = y /\ j \in 1 .. Len(q) + 1
    BY <1>2, <1>4, <2>1
  <2> QED
    BY <1>5, <2>2
<1>8. x \in ToSet(r)
  BY <1>2, <1>4, <1>5
<1> QED
  BY <1>6, <1>7, <1>8 DEF r

\* The vectors and the finished processes are apart.
LEMMA Apart ==
  ASSUME IInv
  PROVE  /\ Split(ToSet(incoming), ToSet(waiting), ToSet(ready), ToSet(running),
                  ToSet(blocked), ToSet(readySusp), ToSet(blockedSusp), Finished, 1 .. started)
         /\ Lists(incoming, ToSet(incoming)) /\ Lists(waiting, ToSet(waiting))
         /\ Lists(ready, ToSet(ready)) /\ Lists(running, ToSet(running))
         /\ Lists(blocked, ToSet(blocked)) /\ Lists(readySusp, ToSet(readySusp))
         /\ Lists(blockedSusp, ToSet(blockedSusp))
         /\ 1 .. started \subseteq Procs
<1>1. PICK I, W, R, N, B, RS, BS :
        /\ Lists(incoming, I) /\ Lists(waiting, W) /\ Lists(ready, R) /\ Lists(running, N)
        /\ Lists(blocked, B) /\ Lists(readySusp, RS) /\ Lists(blockedSusp, BS)
        /\ Split(I, W, R, N, B, RS, BS, Finished, 1 .. started)
  BY DEF IInv, Placed
<1>2. /\ ToSet(incoming) = I /\ ToSet(waiting) = W /\ ToSet(ready) = R /\ ToSet(running) = N
      /\ ToSet(blocked) = B /\ ToSet(readySusp) = RS /\ ToSet(blockedSusp) = BS
  BY <1>1, ListsLen
<1>3. 1 .. started \subseteq Procs
  BY Scenario DEF IInv, Types
<1> QED
  BY Zenon, <1>1, <1>2, <1>3

\* What leaves the processes in their places, for the proofs below.
LEMMA UnmovedSets ==
  ASSUME UNCHANGED queues
  PROVE  /\ UNCHANGED <<incoming, waiting, ready, running, blocked, readySusp, blockedSusp>>
         /\ ToSet(incoming)' = ToSet(incoming) /\ ToSet(waiting)' = ToSet(waiting)
         /\ ToSet(ready)' = ToSet(ready) /\ ToSet(running)' = ToSet(running)
         /\ ToSet(blocked)' = ToSet(blocked) /\ ToSet(readySusp)' = ToSet(readySusp)
         /\ ToSet(blockedSusp)' = ToSet(blockedSusp)
<1>1. UNCHANGED <<incoming, waiting, ready, running, blocked, readySusp, blockedSusp>>
  BY DEF queues
<1> QED
  BY <1>1

LEMMA StartMoves ==
  ASSUME IInv, StartProcess
  PROVE  \E p \in Procs :
           /\ p \in Fresh /\ p \notin 1 .. started /\ started' = p /\ Fresh' \subseteq Fresh
           /\ ToSet(ready)' \subseteq ToSet(ready) \cup {p}
           /\ p \in ToSet(ready)' => submission[p] = 0
<1> DEFINE p == started + 1
<1>1. p \in Procs /\ p \notin 1 .. started /\ 1 .. p = (1 .. started) \cup {p}
  BY Scenario DEF IInv, Types, StartProcess
<1>2. /\ started' = p /\ workload' = workload
      /\ \/ ready' = Append(ready, p) /\ submission[p] = 0 /\ UNCHANGED <<waiting, incoming>>
         \/ waiting' = Append(waiting, p) /\ UNCHANGED <<ready, incoming>>
         \/ incoming' = Append(incoming, p) /\ UNCHANGED <<ready, waiting>>
  BY DEF StartProcess, scenario
<1> HIDE DEF p
<1>3. /\ ToSet(Append(ready, p)) = ToSet(ready) \cup {p}
      /\ ToSet(Append(waiting, p)) = ToSet(waiting) \cup {p}
      /\ ToSet(Append(incoming, p)) = ToSet(incoming) \cup {p}
  BY Apart, ToSetAppend
<1>4. p \notin ToSet(ready)
  BY <1>1, Apart DEF Split
<1>5. Procs' = Procs
  BY <1>2 DEF Procs
<1> QED
  BY <1>1, <1>2, <1>3, <1>4, <1>5 DEF Fresh

LEMMA IncomingMoves ==
  ASSUME IInv, CheckIncomingQueue
  PROVE  Fresh' \subseteq Fresh
<1> DEFINE S == {p \in Procs : submission[p] - elapsed <= 0}
           a == FromTheEnd(incoming, S)
           b == Staying(incoming, S)
<1>1. /\ waiting' = waiting \o a /\ incoming' = b /\ started' = started /\ workload' = workload
  BY DEF CheckIncomingQueue, scenario
<1>2. /\ Lists(a, ToSet(incoming) \cap S) /\ Lists(b, ToSet(incoming) \ S)
  <2> HIDE DEF S
  <2>1. ToSet(incoming) \subseteq Procs /\ Lists(incoming, ToSet(incoming))
    BY Apart DEF Split
  <2> QED
    BY <2>1, MovedLists
<1> HIDE DEF S, a, b
<1>3. ToSet(waiting \o a) = ToSet(waiting) \cup (ToSet(incoming) \cap S)
  <2> DEFINE M == ToSet(incoming) \cap S
             W == ToSet(waiting)
  <2>1. W \cap M = {} /\ Lists(a, M) /\ Lists(waiting, W)
    BY <1>2, Apart DEF Split
  <2> HIDE DEF M, W
  <2>2. Lists(waiting \o a, W \cup M)
    BY <2>1, ListsConcat
  <2>3. ToSet(waiting \o a) = W \cup M
    BY <2>2, ListsLen
  <2> QED
    BY <2>3 DEF M, W
<1>4. ToSet(b) = ToSet(incoming) \ S
  BY <1>2, ListsLen
<1>5. Procs' = Procs
  BY <1>1 DEF Procs
<1> QED
  BY <1>1, <1>3, <1>4, <1>5 DEF Fresh

\* What FCFS moves into the ready queue.
LEMMA AdmittedMoves ==
  ASSUME IInv, NEW q, Lists(q, ToSet(q)), ToSet(q) \cap ToSet(ready) = {}
  PROVE  /\ ToSet(ready \o Admitted(q)) = ToSet(ready) \cup ToSet(Admitted(q))
         /\ ToSet(Admitted(q)) \subseteq ToSet(q) /\ ToSet(Left(q)) \subseteq ToSet(q)
         /\ ToSet(Admitted(q)) \cap ToSet(Left(q)) = {}
<1> DEFINE a == Admitted(q)
           A == ToSet(a)
           R == ToSet(ready)
<1>1. /\ Lists(a, A) /\ A \subseteq ToSet(q) /\ ToSet(Left(q)) \subseteq ToSet(q)
      /\ A \cap ToSet(Left(q)) = {}
  <2> DEFINE X == ToSet(q)
             L == ToSet(Left(q))
  <2>1. Lists(q, X) /\ Room \in Nat
    BY RoomIs
  <2> HIDE DEF X
  <2>2. Lists(a, A) /\ A \cap L = {} /\ A \cup L = X
    BY <2>1, AdmittedLists
  <2> HIDE DEF A, L
  <2>3. A \subseteq X /\ L \subseteq X
    BY <2>2
  <2> QED
    BY Zenon, <2>2, <2>3 DEF X, L, A
<1>2. Lists(ready, R)
  BY Apart
<1>3. A \cap R = {}
  BY <1>1
<1> HIDE DEF a, A, R
<1>4. Lists(ready \o a, R \cup A)
  BY <1>1, <1>2, <1>3, ListsConcat
<1>5. ToSet(ready \o a) = R \cup A
  BY <1>4, ListsLen
<1> QED
  BY <1>1, <1>5 DEF a, A, R

LEMMA AdmitMoves ==
  ASSUME IInv, Admit
  PROVE  /\ Fresh' \subseteq Fresh
         /\ ToSet(ready)' = ToSet(ready) \cup ToSet(Admitted(waiting))
         /\ ToSet(Admitted(waiting)) \subseteq Fresh
<1>1. /\ waiting' = Left(waiting) /\ ready' = ready \o Admitted(waiting)
      /\ incoming' = incoming /\ started' = started /\ workload' = workload
  BY DEF Admit, scenario
<1>2. Lists(waiting, ToSet(waiting)) /\ ToSet(waiting) \cap ToSet(ready) = {}
  BY Apart DEF Split
<1>3. /\ ToSet(ready \o Admitted(waiting)) = ToSet(ready) \cup ToSet(Admitted(waiting))
      /\ ToSet(Admitted(waiting)) \subseteq ToSet(waiting)
      /\ ToSet(Left(waiting)) \subseteq ToSet(waiting)
  BY <1>2, AdmittedMoves
<1>4. Procs' = Procs
  BY <1>1 DEF Procs
<1> QED
  BY <1>1, <1>3, <1>4 DEF Fresh

LEMMA ReadySuspMoves ==
  ASSUME IInv, CheckReadySuspensedQueue
  PROVE  /\ \/ /\ ToSet(ready)' = ToSet(ready) \cup ToSet(Admitted(readySusp))
               /\ submission' = SubmittedNow(readySusp)
            \/ ToSet(ready)' = ToSet(ready) /\ submission' = submission
         /\ ToSet(Admitted(readySusp)) \subseteq ToSet(readySusp)
         /\ ToSet(readySusp)' \subseteq ToSet(readySusp)
<1>1. Lists(readySusp, ToSet(readySusp)) /\ ToSet(readySusp) \cap ToSet(ready) = {}
  BY Apart DEF Split
<1>2. /\ ToSet(ready \o Admitted(readySusp)) = ToSet(ready) \cup ToSet(Admitted(readySusp))
      /\ ToSet(Admitted(readySusp)) \subseteq ToSet(readySusp)
      /\ ToSet(Left(readySusp)) \subseteq ToSet(readySusp)
  BY <1>1, AdmittedMoves
<1> QED
  BY <1>2 DEF CheckReadySuspensedQueue

LEMMA StayingSet ==
  ASSUME NEW r, NEW S, NEW R, Lists(r, R), R \subseteq Procs
  PROVE  ToSet(Staying(r, S)) = R \ S
<1>1. Lists(Staying(r, S), R \ S)
  BY MovedLists
<1> QED
  BY <1>1, ListsLen

LEMMA MovedSet ==
  ASSUME NEW q, NEW r, NEW S, NEW Q, NEW R, Lists(q, Q), Lists(r, R),
         Q \cap R = {}, R \subseteq Procs
  PROVE  ToSet(q \o FromTheEnd(r, S)) = Q \cup (R \cap S)
<1> DEFINE M == R \cap S
           a == FromTheEnd(r, S)
<1>1. Lists(a, M) /\ Q \cap M = {}
  BY MovedLists
<1> HIDE DEF M, a
<1>2. Lists(q \o a, Q \cup M)
  BY <1>1, ListsConcat
<1>3. ToSet(q \o a) = Q \cup M
  BY <1>2, ListsLen
<1> QED
  BY <1>3 DEF M, a

LEMMA BlockedMoves ==
  ASSUME IInv, CheckBlockedQueue
  PROVE  \E Over, Returns \in SUBSET Procs :
           /\ Returns \subseteq Over /\ Over = {p \in Procs : blockTime'[p] <= 0}
           /\ ToSet(ready)' = ToSet(ready) \cup (ToSet(blocked) \cap Returns)
           /\ ToSet(blocked)' = ToSet(blocked) \ Returns
           /\ ToSet(readySusp)' = ToSet(readySusp) \cup (ToSet(blockedSusp) \cap Over)
           /\ ToSet(blockedSusp)' = ToSet(blockedSusp) \ Over
<1> DEFINE Over == {p \in Procs : blockTime'[p] <= 0}
           Returns == IF NobodyWaits THEN Over ELSE {}
<1>1. /\ ready' = ready \o FromTheEnd(blocked, Returns)
      /\ blocked' = Staying(blocked, Returns)
      /\ readySusp' = readySusp \o FromTheEnd(blockedSusp, Over)
      /\ blockedSusp' = Staying(blockedSusp, Over)
  BY DEF CheckBlockedQueue
<1>2. Returns \subseteq Over /\ Over \in SUBSET Procs /\ Returns \in SUBSET Procs
  OBVIOUS
<1>3. Over = {p \in Procs : blockTime'[p] <= 0}
  OBVIOUS
<1> HIDE DEF Over, Returns
<1>5. /\ ToSet(ready) \cap ToSet(blocked) = {} /\ ToSet(blocked) \subseteq Procs
      /\ ToSet(readySusp) \cap ToSet(blockedSusp) = {} /\ ToSet(blockedSusp) \subseteq Procs
  BY Apart DEF Split
<1>6. /\ ToSet(ready \o FromTheEnd(blocked, Returns)) = ToSet(ready) \cup (ToSet(blocked) \cap Returns)
      /\ ToSet(Staying(blocked, Returns)) = ToSet(blocked) \ Returns
  <2> DEFINE Q == ToSet(ready)
             R == ToSet(blocked)
  <2>1. Lists(ready, Q) /\ Lists(blocked, R) /\ Q \cap R = {} /\ R \subseteq Procs
    BY <1>5, Apart
  <2> HIDE DEF Q, R
  <2>2. ToSet(ready \o FromTheEnd(blocked, Returns)) = Q \cup (R \cap Returns)
    BY <2>1, MovedSet
  <2>3. ToSet(Staying(blocked, Returns)) = R \ Returns
    BY <2>1, StayingSet
  <2> QED
    BY <2>2, <2>3 DEF Q, R
<1>7. /\ ToSet(readySusp \o FromTheEnd(blockedSusp, Over)) = ToSet(readySusp) \cup (ToSet(blockedSusp) \cap Over)
      /\ ToSet(Staying(blockedSusp, Over)) = ToSet(blockedSusp) \ Over
  <2> DEFINE Q == ToSet(readySusp)
             R == ToSet(blockedSusp)
  <2>1. Lists(readySusp, Q) /\ Lists(blockedSusp, R) /\ Q \cap R = {} /\ R \subseteq Procs
    BY <1>5, Apart
  <2> HIDE DEF Q, R
  <2>2. ToSet(readySusp \o FromTheEnd(blockedSusp, Over)) = Q \cup (R \cap Over)
    BY <2>1, MovedSet
  <2>3. ToSet(Staying(blockedSusp, Over)) = R \ Over
    BY <2>1, StayingSet
  <2> QED
    BY <2>2, <2>3 DEF Q, R
<1> QED
  BY <1>1, <1>2, <1>3, <1>6, <1>7

LEMMA WorkMoves ==
  ASSUME IInv, NEW p \in Procs, Work(p)
  PROVE  /\ ToSet(running) = {p} /\ Len(running) = 1 /\ pc = "running" /\ pc' = "dispatch"
         /\ UNCHANGED <<workload, started, incoming, waiting, readySusp, blockTime, submission,
                        response, cpuIdle, elapsed, idleTime>>
         /\ remaining' = [remaining EXCEPT ![p] = IF @ > 0 THEN @ - 1 ELSE @]
<1>1. running = <<p>>
  BY DEF Work
<1> QED
  BY <1>1, ToSetSingle DEF Work, scenario, clock, DecrementExecutionTime

LEMMA BlockMoves ==
  ASSUME IInv, NEW p \in Procs, Block(p)
  PROVE  /\ Work(p) /\ remaining'[p] < 1 /\ blockTime[p] > 0
         /\ running' = <<>> /\ ready' = ready /\ results' = results
         /\ ToSet(running)' = {}
         /\ \/ /\ ToSet(blockedSusp)' = ToSet(blockedSusp) \cup {p} /\ blocked' = blocked
               /\ suspended' = suspended \cup {p}
            \/ /\ ToSet(blocked)' = ToSet(blocked) \cup {p} /\ blockedSusp' = blockedSusp
               /\ suspended' = suspended
<1>1. /\ ToSet(Append(blocked, p)) = ToSet(blocked) \cup {p}
      /\ ToSet(Append(blockedSusp, p)) = ToSet(blockedSusp) \cup {p}
  BY Apart, ToSetAppend
<1> QED
  BY <1>1, ToSetEmpty DEF Block

LEMMA TerminateMoves ==
  ASSUME IInv, NEW p \in Procs, Terminate(p)
  PROVE  /\ Work(p) /\ remaining'[p] < 1 /\ blockTime[p] <= 0
         /\ running' = <<>> /\ ready' = ready /\ blocked' = blocked /\ blockedSusp' = blockedSusp
         /\ suspended' = suspended /\ ToSet(running)' = {}
         /\ Finished' = Finished \cup {p}
         /\ results'[p] = [turnaround |-> elapsed - submission[p],
                           wait |-> WaitingTime(p), resp |-> response[p]]
         /\ \A q \in Finished : q # p => results'[q] = results[q]
BY ToSetEmpty DEF Terminate, Finished, Turnaround

LEMMA PreemptMoves ==
  ASSUME IInv, NEW p \in Procs, Preempt(p)
  PROVE  /\ Work(p) /\ remaining'[p] >= 1 /\ running' = <<>> /\ ToSet(running)' = {}
         /\ ToSet(ready)' = ToSet(ready) \cup {p}
         /\ UNCHANGED <<blocked, blockedSusp, suspended, results>>
<1>1. ToSet(Append(ready, p)) = ToSet(ready) \cup {p}
  BY Apart, ToSetAppend
<1> QED
  BY <1>1, ToSetEmpty DEF Preempt

LEMMA DispatchMoves ==
  ASSUME IInv, Dispatch
  PROVE  \E p \in Procs :
           /\ p \in ToSet(ready) /\ ToSet(ready)' = ToSet(ready) \ {p}
           /\ running' = <<p>> /\ ToSet(running)' = {p} /\ Len(running') = 1 /\ running = <<>>
           /\ response' = IF response[p] = -1
                          THEN [response EXCEPT ![p] = elapsed - submission[p]]
                          ELSE response
<1>1. PICK i \in Choice :
        /\ running' = <<ready[i]>> /\ ready' = RemoveAt(ready, i)
        /\ response' = IF response[ready[i]] = -1
                       THEN [response EXCEPT ![ready[i]] = elapsed - submission[ready[i]]]
                       ELSE response
  BY DEF Dispatch
<1>2. i \in 1 .. Len(ready) /\ ready[i] \in Procs /\ running = <<>>
  <2>1. ready # <<>> /\ running = <<>>
    BY DEF Dispatch
  <2> QED
    BY <2>1, DispatchedIsReady DEF Places
<1>3. Lists(ready, ToSet(ready)) /\ Lists(RemoveAt(ready, i), ToSet(ready) \ {ready[i]})
  BY <1>2, Apart, ListsRemoveAt
<1>4. ready[i] \in ToSet(ready)
  BY <1>2, <1>3, ElementOfSeq DEF Lists
<1>5. ToSet(RemoveAt(ready, i)) = ToSet(ready) \ {ready[i]}
  BY <1>3, ListsLen
<1> DEFINE p == ready[i]
<1>6. ToSet(<<p>>) = {p} /\ Len(<<p>>) = 1
  BY ToSetSingle
<1> QED
  BY <1>1, <1>2, <1>4, <1>5, <1>6

-----------------------------------------------------------------------------
(* What a process has left to do, by where it is *)

Standing(p) ==
  /\ p \in Fresh => /\ remaining[p] = workload[p].exec /\ blockTime[p] = workload[p].block
                    /\ response[p] = -1
  /\ p \in ToSet(ready) \cup ToSet(running) =>
       \/ remaining[p] >= 1 /\ blockTime[p] = workload[p].block
       \/ remaining[p] = 0 /\ blockTime[p] = 0 /\ workload[p].block > 0
  /\ p \in ToSet(blocked) \cup ToSet(blockedSusp) => remaining[p] = 0 /\ workload[p].block > 0
  /\ p \in ToSet(readySusp) => remaining[p] = 0 /\ blockTime[p] = 0 /\ workload[p].block > 0
  /\ p \in Finished => remaining[p] = 0

Progress ==
  /\ \A p \in Procs : Standing(p)
  /\ ToSet(readySusp) \cup ToSet(blockedSusp) \subseteq suspended

\* A process in one place is in no other.
LEMMA Elsewhere ==
  ASSUME IInv, NEW p
  PROVE  /\ p \in ToSet(running) => /\ p \notin Fresh /\ p \notin ToSet(ready)
                                    /\ p \notin ToSet(blocked) /\ p \notin ToSet(blockedSusp)
                                    /\ p \notin ToSet(readySusp) /\ p \notin Finished
         /\ p \in ToSet(blocked) => /\ p \notin Fresh /\ p \notin ToSet(ready)
                                    /\ p \notin ToSet(blockedSusp)
                                    /\ p \notin ToSet(readySusp) /\ p \notin Finished
         /\ p \in ToSet(blockedSusp) => /\ p \notin Fresh /\ p \notin ToSet(ready)
                                        /\ p \notin ToSet(readySusp) /\ p \notin Finished
         /\ p \in ToSet(ready) => p \notin Fresh /\ p \notin Finished
         /\ p \in Fresh => p \notin ToSet(readySusp) /\ p \notin Finished
<1>1. Split(ToSet(incoming), ToSet(waiting), ToSet(ready), ToSet(running),
            ToSet(blocked), ToSet(readySusp), ToSet(blockedSusp), Finished, 1 .. started)
  BY Apart
<1> QED
  BY <1>1 DEF Split, Fresh

LEMMA TaskOf ==
  ASSUME IInv, NEW p \in Procs
  PROVE  /\ remaining[p] \in Nat /\ blockTime[p] \in Nat /\ submission[p] \in Nat
         /\ response[p] \in Int
         /\ workload[p].exec \in Nat /\ workload[p].exec >= 1 /\ workload[p].block \in Nat
<1>1. workload[p] \in Task
  BY Scenario DEF IInv
<1> QED
  BY <1>1 DEF IInv, Types, Task

LEMMA ProgressInit ==
  ASSUME Init
  PROVE  Progress
<1>1. IInv
  BY InitIInv
<1>2. /\ ready = <<>> /\ running = <<>> /\ blocked = <<>> /\ readySusp = <<>> /\ blockedSusp = <<>>
      /\ Finished = {}
      /\ \A p \in Procs : /\ remaining[p] = workload[p].exec /\ blockTime[p] = workload[p].block
                          /\ response[p] = -1
  BY DEF Init, Finished
<1> QED
  BY <1>2, ToSetEmpty DEF Progress, Standing

LEMMA StartProgress ==
  ASSUME IInv, Progress, StartProcess
  PROVE  Progress'
<1>1. PICK p \in Procs : /\ p \in Fresh /\ p \notin 1 .. started /\ Fresh' \subseteq Fresh
                         /\ ToSet(ready)' \subseteq ToSet(ready) \cup {p}
  BY StartMoves
<1>2. /\ UNCHANGED <<workload, running, blocked, readySusp, blockedSusp, remaining, blockTime,
                     response, results, suspended>>
      /\ Procs' = Procs /\ Finished' = Finished
  BY DEF StartProcess, scenario, counters, history, Procs, Finished
<1>3. remaining[p] = workload[p].exec /\ workload[p].exec >= 1 /\ blockTime[p] = workload[p].block
  BY <1>1, TaskOf DEF Progress, Standing
<1>4. \A q \in Procs : Standing(q)'
  <2> TAKE q \in Procs
  <2>1. Standing(q)
    BY DEF Progress
  <2> QED
    BY <1>1, <1>2, <1>3, <2>1 DEF Standing
<1> QED
  BY <1>2, <1>4 DEF Progress

LEMMA IncomingProgress ==
  ASSUME IInv, Progress, CheckIncomingQueue
  PROVE  Progress'
<1>1. /\ UNCHANGED <<workload, ready, running, blocked, readySusp, blockedSusp, remaining,
                     blockTime, response, results, suspended>>
      /\ Procs' = Procs /\ Finished' = Finished
  BY DEF CheckIncomingQueue, scenario, counters, history, Procs, Finished
<1>2. \A q \in Procs : Standing(q)'
  <2> TAKE q \in Procs
  <2>1. Standing(q)
    BY DEF Progress
  <2> QED
    BY <1>1, <2>1, IncomingMoves DEF Standing
<1> QED
  BY <1>1, <1>2 DEF Progress

LEMMA AdmitProgress ==
  ASSUME IInv, Progress, Admit
  PROVE  Progress'
<1>1. /\ UNCHANGED <<workload, running, blocked, readySusp, blockedSusp, remaining,
                     blockTime, response, results, suspended>>
      /\ Procs' = Procs /\ Finished' = Finished
  BY DEF Admit, scenario, history, Procs, Finished
<1>2. /\ Fresh' \subseteq Fresh
      /\ ToSet(ready)' \subseteq ToSet(ready) \cup Fresh
  BY AdmitMoves
<1>3. \A q \in Procs : Standing(q)'
  <2> TAKE q \in Procs
  <2>1. Standing(q) /\ workload[q].exec >= 1
    BY TaskOf DEF Progress
  <2> QED
    BY <1>1, <1>2, <2>1 DEF Standing
<1> QED
  BY <1>1, <1>3 DEF Progress

LEMMA ReadySuspProgress ==
  ASSUME IInv, Progress, CheckReadySuspensedQueue
  PROVE  Progress'
<1>1. /\ UNCHANGED <<workload, started, incoming, waiting, running, blocked, blockedSusp, remaining,
                     blockTime, response, results, suspended>>
      /\ Procs' = Procs /\ Finished' = Finished
  BY DEF CheckReadySuspensedQueue, scenario, history, Procs, Finished
<1>2. Fresh' = Fresh
  BY <1>1 DEF Fresh
<1>3. /\ ToSet(ready)' \subseteq ToSet(ready) \cup ToSet(readySusp)
      /\ ToSet(readySusp)' \subseteq ToSet(readySusp)
  BY ReadySuspMoves
<1>4. \A q \in Procs : Standing(q)'
  <2> TAKE q \in Procs
  <2>1. Standing(q)
    BY DEF Progress
  <2> QED
    BY <1>1, <1>2, <1>3, <2>1 DEF Standing
<1> QED
  BY <1>1, <1>3, <1>4 DEF Progress

\* Who waits, waits one tick less, and no one else.
LEMMA BlockTimeIs ==
  ASSUME IInv, CheckBlockedQueue, NEW p \in Procs
  PROVE  /\ blockTime'[p] \in Nat
         /\ blockTime'[p] = blockTime[p] \/ blockTime'[p] = blockTime[p] - 1
         /\ p \notin ToSet(blocked) \cup ToSet(blockedSusp) => blockTime'[p] = blockTime[p]
<1>1. blockTime'[p] = IF p \in ToSet(blocked \o blockedSusp) /\ blockTime[p] > 0
                      THEN blockTime[p] - 1 ELSE blockTime[p]
  BY DEF CheckBlockedQueue
<1>2. ToSet(blocked \o blockedSusp) = ToSet(blocked) \cup ToSet(blockedSusp)
  <2> DEFINE B == ToSet(blocked)
             C == ToSet(blockedSusp)
  <2>1. Lists(blocked, B) /\ Lists(blockedSusp, C) /\ B \cap C = {}
    BY Apart DEF Split
  <2> HIDE DEF B, C
  <2>2. Lists(blocked \o blockedSusp, B \cup C)
    BY <2>1, ListsConcat
  <2>3. ToSet(blocked \o blockedSusp) = B \cup C
    BY <2>2, ListsLen
  <2> QED
    BY <2>3 DEF B, C
<1>3. blockTime[p] \in Nat
  BY TaskOf
<1> QED
  BY <1>1, <1>2, <1>3

LEMMA BlockedProgress ==
  ASSUME IInv, Progress, CheckBlockedQueue
  PROVE  Progress'
<1>1. /\ UNCHANGED <<workload, started, incoming, waiting, running, remaining,
                     response, results, suspended>>
      /\ Procs' = Procs /\ Finished' = Finished
  BY DEF CheckBlockedQueue, scenario, history, Procs, Finished
<1>2. Fresh' = Fresh
  BY <1>1 DEF Fresh
<1>3. PICK Over, Returns \in SUBSET Procs :
           /\ Returns \subseteq Over /\ Over = {p \in Procs : blockTime'[p] <= 0}
           /\ ToSet(ready)' = ToSet(ready) \cup (ToSet(blocked) \cap Returns)
           /\ ToSet(blocked)' = ToSet(blocked) \ Returns
           /\ ToSet(readySusp)' = ToSet(readySusp) \cup (ToSet(blockedSusp) \cap Over)
           /\ ToSet(blockedSusp)' = ToSet(blockedSusp) \ Over
  BY BlockedMoves
<1>4. \A q \in Over : blockTime'[q] = 0
  BY <1>3, BlockTimeIs
<1>5. \A q \in Procs : Standing(q)'
  <2> TAKE q \in Procs
  <2>1. Standing(q)
    BY DEF Progress
  <2>2. q \in ToSet(blocked) \cup ToSet(blockedSusp) \/ blockTime'[q] = blockTime[q]
    BY BlockTimeIs
  <2>3. q \in ToSet(blocked) \cup ToSet(blockedSusp) =>
          /\ q \notin Fresh /\ q \notin ToSet(ready) /\ q \notin ToSet(running)
          /\ q \notin ToSet(readySusp) /\ q \notin Finished
    BY Elsewhere
  <2>4. CASE q \in ToSet(blocked) \cup ToSet(blockedSusp)
    BY <1>1, <1>2, <1>3, <1>4, <2>1, <2>3, <2>4 DEF Standing
  <2>5. CASE q \notin ToSet(blocked) \cup ToSet(blockedSusp)
    BY <1>1, <1>2, <1>3, <2>1, <2>2, <2>5 DEF Standing
  <2> QED
    BY <2>4, <2>5
<1> QED
  BY <1>1, <1>3, <1>5 DEF Progress

LEMMA DispatchProgress ==
  ASSUME IInv, Progress, Dispatch
  PROVE  Progress'
<1>1. PICK p \in Procs :
           /\ p \in ToSet(ready) /\ ToSet(ready)' = ToSet(ready) \ {p}
           /\ ToSet(running)' = {p}
           /\ response' = IF response[p] = -1
                          THEN [response EXCEPT ![p] = elapsed - submission[p]]
                          ELSE response
  BY DispatchMoves
<1>2. /\ UNCHANGED <<workload, started, incoming, waiting, blocked, readySusp, blockedSusp, remaining,
                     blockTime, results, suspended>>
      /\ Procs' = Procs /\ Finished' = Finished
  BY DEF Dispatch, scenario, history, Procs, Finished
<1>3. Fresh' = Fresh /\ p \notin Fresh
  BY <1>1, <1>2, Elsewhere DEF Fresh
<1>4. \A q \in Procs : q \in Fresh => response'[q] = response[q]
  BY <1>1, <1>3 DEF IInv, Types
<1>5. \A q \in Procs : Standing(q)'
  <2> TAKE q \in Procs
  <2>1. Standing(q) /\ Standing(p)
    BY DEF Progress
  <2> QED
    BY <1>1, <1>2, <1>3, <1>4, <2>1 DEF Standing
<1> QED
  BY <1>2, <1>5 DEF Progress

\* The running process works; whatever else happens to it, nothing happens to
\* another one.
LEMMA OthersStand ==
  ASSUME IInv, Progress, NEW p \in Procs, Work(p), NEW q \in Procs, q # p,
         Finished' \subseteq Finished \cup {p},
         ToSet(ready)' \subseteq ToSet(ready) \cup {p}, ToSet(running)' \subseteq {p},
         ToSet(blocked)' \subseteq ToSet(blocked) \cup {p},
         ToSet(blockedSusp)' \subseteq ToSet(blockedSusp) \cup {p}
  PROVE  Standing(q)'
<1>1. /\ UNCHANGED <<workload, started, incoming, waiting, readySusp, blockTime, response>>
      /\ remaining'[q] = remaining[q] /\ Procs' = Procs
  BY WorkMoves DEF IInv, Types, Procs
<1>2. Fresh' = Fresh
  BY <1>1 DEF Fresh
<1>3. Standing(q)
  BY DEF Progress
<1> QED
  BY <1>1, <1>2, <1>3 DEF Standing

LEMMA RunningProgress ==
  ASSUME IInv, Progress, NEW p \in Procs, Block(p) \/ Terminate(p) \/ Preempt(p) \/ Continue(p)
  PROVE  Progress'
<1>1. Work(p)
  BY DEF Block, Terminate, Preempt, Continue
<1>2. /\ ToSet(running) = {p}
      /\ UNCHANGED <<workload, started, incoming, waiting, readySusp, blockTime, response>>
      /\ remaining'[p] = IF remaining[p] > 0 THEN remaining[p] - 1 ELSE remaining[p]
      /\ Procs' = Procs
  BY <1>1, WorkMoves DEF IInv, Types, Procs
<1>3. Standing(p) /\ remaining[p] \in Nat /\ blockTime[p] \in Nat
  BY TaskOf DEF Progress
<1>4. /\ p \notin Fresh /\ p \notin ToSet(ready) /\ p \notin ToSet(blocked)
      /\ p \notin ToSet(blockedSusp) /\ p \notin ToSet(readySusp) /\ p \notin Finished
  BY <1>2, Elsewhere
<1>5. Fresh' = Fresh /\ ToSet(readySusp)' = ToSet(readySusp)
  BY <1>2 DEF Fresh
<1>6. \/ remaining[p] >= 1 /\ blockTime[p] = workload[p].block /\ remaining'[p] = remaining[p] - 1
      \/ remaining[p] = 0 /\ blockTime[p] = 0 /\ workload[p].block > 0 /\ remaining'[p] = 0
  BY <1>2, <1>3 DEF Standing
<1>7. CASE Block(p)
  <2>1. /\ remaining'[p] < 1 /\ blockTime[p] > 0 /\ ready' = ready /\ Finished' = Finished
        /\ ToSet(running)' = {}
        /\ \/ /\ ToSet(blockedSusp)' = ToSet(blockedSusp) \cup {p} /\ blocked' = blocked
              /\ suspended' = suspended \cup {p}
           \/ /\ ToSet(blocked)' = ToSet(blocked) \cup {p} /\ blockedSusp' = blockedSusp
              /\ suspended' = suspended
    BY <1>7, BlockMoves DEF Finished
  <2>2. remaining'[p] = 0 /\ workload[p].block > 0
    BY <1>3, <1>6, <2>1
  <2>3. Standing(p)'
    BY <1>2, <1>4, <1>5, <2>1, <2>2 DEF Standing
  <2>4. \A q \in Procs : q # p => Standing(q)'
    BY <1>1, <2>1, OthersStand
  <2> QED
    BY <1>2, <1>5, <2>1, <2>3, <2>4 DEF Progress
<1>8. CASE Terminate(p)
  <2>1. /\ remaining'[p] < 1 /\ ready' = ready /\ blocked' = blocked
        /\ blockedSusp' = blockedSusp /\ suspended' = suspended
        /\ ToSet(running)' = {} /\ Finished' = Finished \cup {p}
    BY <1>8, TerminateMoves
  <2>2. remaining'[p] = 0
    BY <1>3, <1>6, <2>1
  <2>3. Standing(p)'
    BY <1>2, <1>4, <1>5, <2>1, <2>2 DEF Standing
  <2>4. \A q \in Procs : q # p => Standing(q)'
    BY <1>1, <2>1, OthersStand
  <2> QED
    BY <1>2, <1>5, <2>1, <2>3, <2>4 DEF Progress
<1>9. CASE Preempt(p)
  <2>1. /\ remaining'[p] >= 1 /\ ToSet(running)' = {} /\ ToSet(ready)' = ToSet(ready) \cup {p}
        /\ UNCHANGED <<blocked, blockedSusp, suspended>> /\ Finished' = Finished
    BY <1>9, PreemptMoves DEF Finished
  <2>2. Standing(p)'
    BY <1>2, <1>4, <1>5, <1>6, <2>1 DEF Standing
  <2>3. \A q \in Procs : q # p => Standing(q)'
    BY <1>1, <2>1, OthersStand
  <2> QED
    BY <1>2, <1>5, <2>1, <2>2, <2>3 DEF Progress
<1>10. CASE Continue(p)
  <2>1. /\ remaining'[p] >= 1 /\ UNCHANGED <<ready, running, blocked, blockedSusp, suspended>>
        /\ Finished' = Finished
    BY <1>10 DEF Continue, Finished
  <2>2. Standing(p)'
    BY <1>2, <1>4, <1>5, <1>6, <2>1 DEF Standing
  <2>3. \A q \in Procs : q # p => Standing(q)'
    BY <1>1, <1>2, <2>1, OthersStand
  <2> QED
    BY <1>2, <1>5, <2>1, <2>2, <2>3 DEF Progress
<1> QED
  BY <1>7, <1>8, <1>9, <1>10

LEMMA ProgressSame ==
  ASSUME Progress, UNCHANGED <<queues, workload, started, counters, results, suspended>>
  PROVE  Progress'
<1>1. /\ Procs' = Procs /\ Finished' = Finished
      /\ UNCHANGED <<incoming, waiting, ready, running, blocked, readySusp, blockedSusp, remaining,
                     blockTime, response>>
  BY DEF Procs, Finished, queues, counters
<1>2. Fresh' = Fresh
  BY <1>1 DEF Fresh
<1>3. \A p \in Procs : Standing(p)'
  <2> TAKE p \in Procs
  <2>1. Standing(p)
    BY DEF Progress
  <2> QED
    BY <1>1, <1>2, <2>1 DEF Standing
<1> QED
  BY <1>1, <1>3 DEF Progress

LEMMA NextProgress ==
  ASSUME IInv, Progress, [Next]_vars
  PROVE  Progress'
<1>1. CASE UNCHANGED vars
  BY <1>1, ProgressSame DEF vars, scenario, history
<1>2. CASE EnterLoop \/ NothingRuns \/ NothingToDispatch \/ Tick \/ CalcStatistics
  <2>1. UNCHANGED <<queues, workload, started, counters, results, suspended>>
    BY <1>2 DEF EnterLoop, NothingRuns, NothingToDispatch, Tick, CalcStatistics, scenario, history
  <2> QED
    BY <2>1, ProgressSame
<1>3. CASE \E p \in Procs : Block(p) \/ Terminate(p) \/ Preempt(p) \/ Continue(p)
  BY <1>3, RunningProgress
<1> QED
  BY <1>1, <1>2, <1>3, StartProgress, IncomingProgress, AdmitProgress, BlockedProgress,
     ReadySuspProgress, DispatchProgress DEF Next, CheckRunningProcess

-----------------------------------------------------------------------------
(* What the processor's time was given to *)

Charged == Total(WorkDone, Len(workload)) + Cardinality(ExtraTicks)

\* The running process has its tick from the clock before it works in it.
Due == IF pc \in {"dispatch", "clock"} THEN 0 ELSE Len(running)

Booked ==
  /\ cpuIdle => running = <<>>
  /\ pc = "clock" /\ running = <<>> => cpuIdle
  /\ IF pc = "start" THEN elapsed = 0 ELSE started = Len(workload)
  /\ pc = "loop" /\ cpuIdle /\ elapsed > 0 /\ ClockRuns => idleTime >= 1
  /\ pc # "done" /\ ClockRuns => elapsed - idleTime = Charged + Due
  /\ EndsComplete

LEMMA WorkDoneIs ==
  ASSUME IInv
  PROVE  /\ \A p \in 1 .. Len(workload) : WorkDone[p] = workload[p].exec - remaining[p]
         /\ \A p \in 1 .. Len(workload) : WorkDone[p] \in Int
         /\ Len(workload) \in Nat /\ Procs = 1 .. Len(workload)
<1>1. Len(workload) \in Nat /\ Procs = 1 .. Len(workload)
  BY Scenario DEF IInv
<1>2. \A p \in Procs : WorkDone[p] = workload[p].exec - remaining[p]
  BY DEF WorkDone
<1> QED
  BY <1>1, <1>2, TaskOf

LEMMA ExtraTicksFinite ==
  ASSUME IInv
  PROVE  IsFiniteSet(ExtraTicks) /\ Cardinality(ExtraTicks) \in Nat
<1>1. ExtraTicks \subseteq 1 .. started
  BY Apart DEF Split, ExtraTicks
<1>2. started \in Nat
  BY Scenario DEF IInv, Types
<1>3. IsFiniteSet(1 .. started)
  BY <1>2, FS_Interval
<1> QED
  BY <1>1, <1>3, FS_Subset, FS_CardinalityType

LEMMA ChargedType ==
  ASSUME IInv
  PROVE  Total(WorkDone, Len(workload)) \in Int /\ Charged \in Int
<1> DEFINE n == Len(workload)
           f == WorkDone
<1>1. n \in Nat /\ \A p \in 1 .. n : f[p] \in Int
  BY WorkDoneIs
<1> HIDE DEF n, f
<1>2. Total(f, n) \in Int
  <2>1. CASE n = 0
    <3>1. Total(f, n) = 0
      BY <1>1, <2>1, TotalZero
    <3> QED
      BY <3>1
  <2>2. CASE n # 0
    <3>1. 1 \in 1 .. n /\ 0 \in Int /\ \A p \in 1 .. n : f[p] = IF p = 1 THEN f[p] + 0 ELSE f[p]
      BY <1>1, <2>2
    <3> QED
      BY <1>1, <3>1, TotalChange
  <2> QED
    BY <2>1, <2>2
<1>3. Cardinality(ExtraTicks) \in Nat
  BY ExtraTicksFinite
<1> QED
  BY <1>2, <1>3 DEF Charged, n, f

LEMMA ChargedSame ==
  ASSUME UNCHANGED <<workload, remaining, results>>
  PROVE  Charged' = Charged
BY DEF Charged, WorkDone, ExtraTicks, Finished, Procs

\* What the running process works is added to the sum.
LEMMA TotalWorks ==
  ASSUME IInv, NEW p \in Procs, Work(p)
  PROVE  Total(WorkDone, Len(workload))'
           = Total(WorkDone, Len(workload)) + (remaining[p] - remaining'[p])
<1> DEFINE n == Len(workload)
           f == WorkDone
           g == [q \in Procs |-> workload[q].exec - remaining'[q]]
           d == remaining[p] - remaining'[p]
<1>1. /\ workload' = workload /\ Procs' = Procs
      /\ remaining' = [remaining EXCEPT ![p] = IF @ > 0 THEN @ - 1 ELSE @]
  BY WorkMoves DEF Procs
<1>2. WorkDone' = g /\ Len(workload') = n
  BY <1>1 DEF WorkDone
<1>3. n \in Nat /\ Procs = 1 .. n
  BY WorkDoneIs
<1>4. \A q \in 1 .. n : f[q] \in Int /\ f[q] = workload[q].exec - remaining[q]
  BY WorkDoneIs
<1>5. \A q \in Procs : /\ remaining[q] \in Nat /\ workload[q].exec \in Nat
                       /\ remaining'[q] = IF q = p THEN remaining[p] - d ELSE remaining[q]
                       /\ d \in Int
  <2>1. \A q \in Procs : remaining[q] \in Nat /\ workload[q].exec \in Nat
    BY TaskOf DEF IInv, Types
  <2>2. remaining'[p] = IF remaining[p] > 0 THEN remaining[p] - 1 ELSE remaining[p]
    BY <1>1 DEF IInv, Types
  <2>3. \A q \in Procs : q # p => remaining'[q] = remaining[q]
    BY <1>1 DEF IInv, Types
  <2>4. remaining'[p] \in Nat /\ remaining'[p] = remaining[p] - d /\ d \in Int
    BY <2>1, <2>2
  <2> QED
    BY <2>1, <2>3, <2>4
<1>6. ASSUME NEW q \in 1 .. n
      PROVE  g[q] = IF q = p THEN f[q] + d ELSE f[q]
  <2>1. g[q] = workload[q].exec - remaining'[q]
    BY <1>3
  <2> HIDE DEF g, f, d
  <2> QED
    BY <1>3, <1>4, <1>5, <2>1
<1>7. d \in Int /\ p \in 1 .. n
  BY <1>3, <1>5
<1> HIDE DEF n, f, g, d
<1>8. Total(g, n) = Total(f, n) + d
  <2>1. \A q \in 1 .. n : f[q] \in Int
    BY <1>4
  <2>2. \A q \in 1 .. n : g[q] = IF q = p THEN f[q] + d ELSE f[q]
    BY <1>6
  <2>3. n \in Nat
    BY <1>3
  <2> QED
    BY <1>7, <2>1, <2>2, <2>3, TotalChange
<1> QED
  BY <1>2, <1>8 DEF n, f, d

\* Each outcome of CheckRunningProcess accounts for the tick.
LEMMA RunningCharged ==
  ASSUME IInv, Progress, NEW p \in Procs,
         Block(p) \/ Terminate(p) \/ Preempt(p) \/ Continue(p)
  PROVE  Charged' = Charged + 1
<1>1. Work(p)
  BY DEF Block, Terminate, Preempt, Continue
<1>2. /\ ToSet(running) = {p} /\ workload' = workload
      /\ remaining'[p] = IF remaining[p] > 0 THEN remaining[p] - 1 ELSE remaining[p]
  BY <1>1, WorkMoves DEF IInv, Types
<1>3. Standing(p) /\ remaining[p] \in Nat /\ blockTime[p] \in Nat /\ workload[p].block \in Nat
  BY TaskOf DEF Progress
<1>4. \/ remaining[p] >= 1 /\ blockTime[p] = workload[p].block /\ remaining'[p] = remaining[p] - 1
      \/ remaining[p] = 0 /\ blockTime[p] = 0 /\ workload[p].block > 0 /\ remaining'[p] = 0
  BY <1>2, <1>3 DEF Standing
<1>5. /\ Total(WorkDone, Len(workload))'
           = Total(WorkDone, Len(workload)) + (remaining[p] - remaining'[p])
      /\ Total(WorkDone, Len(workload)) \in Int
      /\ Cardinality(ExtraTicks) \in Nat /\ IsFiniteSet(ExtraTicks)
  BY <1>1, TotalWorks, ChargedType, ExtraTicksFinite
<1>6. Charged' = Total(WorkDone, Len(workload))' + Cardinality(ExtraTicks)'
      /\ Charged = Total(WorkDone, Len(workload)) + Cardinality(ExtraTicks)
  BY DEF Charged
<1>7. CASE Block(p) \/ Preempt(p) \/ Continue(p)
  <2>1. ExtraTicks' = ExtraTicks
    BY <1>2, <1>7 DEF Block, Preempt, Continue, ExtraTicks, Finished
  <2>2. remaining[p] - remaining'[p] = 1
    <3>1. remaining'[p] >= 1 \/ blockTime[p] > 0
      BY <1>7 DEF Block, Preempt, Continue
    <3> QED
      BY <1>3, <1>4, <3>1
  <2> QED
    BY <1>5, <1>6, <2>1, <2>2
<1>8. CASE Terminate(p)
  <2>1. remaining'[p] < 1 /\ blockTime[p] <= 0 /\ Finished' = Finished \cup {p}
    BY <1>8, TerminateMoves
  <2>2. p \notin Finished
    BY <1>2, Elsewhere
  <2>3. CASE workload[p].block > 0
    <3>1. remaining[p] = 0 /\ remaining'[p] = 0
      BY <1>3, <1>4, <2>1, <2>3
    <3>2. ExtraTicks' = ExtraTicks \cup {p} /\ p \notin ExtraTicks
      BY <1>2, <2>1, <2>2, <2>3 DEF ExtraTicks
    <3>3. Cardinality(ExtraTicks') = Cardinality(ExtraTicks) + 1
      BY <1>5, <3>2, FS_AddElement
    <3>4. remaining[p] - remaining'[p] = 0
      BY <3>1
    <3> QED
      BY <1>5, <1>6, <3>3, <3>4
  <2>4. CASE ~(workload[p].block > 0)
    <3>1. remaining[p] - remaining'[p] = 1
      BY <1>3, <1>4, <2>4
    <3>2. ExtraTicks' = ExtraTicks
      BY <1>2, <2>1, <2>4 DEF ExtraTicks
    <3> QED
      BY <1>5, <1>6, <3>1, <3>2
  <2> QED
    BY <2>3, <2>4
<1> QED
  BY <1>7, <1>8

LEMMA BookedInit ==
  ASSUME Init
  PROVE  Booked
<1>1. IInv
  BY InitIInv
<1>2. /\ pc = "start" /\ running = <<>> /\ elapsed = 0 /\ idleTime = 0 /\ Finished = {}
      /\ \A p \in Procs : remaining[p] = workload[p].exec
  BY DEF Init, Finished
<1>3. Total(WorkDone, Len(workload)) = 0
  <2> DEFINE n == Len(workload)
             f == WorkDone
  <2>1. n \in Nat /\ \A p \in 1 .. n : f[p] = 0
    BY <1>1, <1>2, WorkDoneIs, TaskOf
  <2> HIDE DEF n, f
  <2>2. Total(f, n) = 0
    BY <2>1, TotalZero
  <2> QED
    BY <2>2 DEF n, f
<1>4. Cardinality(ExtraTicks) = 0
  <2>1. ExtraTicks = {}
    BY <1>2 DEF ExtraTicks
  <2> QED
    BY <2>1, FS_EmptySet
<1>5. Len(running) = 0
  BY <1>2
<1> QED
  BY <1>2, <1>3, <1>4, <1>5 DEF Booked, Charged, Due, EndsComplete

\* Steps before the processor's part of a tick, and those that only look on.
LEMMA BookedSame ==
  ASSUME IInv, Booked, pc' # "done", pc # "done",
         UNCHANGED <<workload, remaining, results, running, cpuIdle, elapsed, idleTime>>,
         pc \in {"dispatch", "clock"} <=> pc' \in {"dispatch", "clock"},
         pc' = "clock" => pc = "clock",
         IF pc' = "start" THEN pc = "start"
                          ELSE started' = Len(workload),
         pc' = "loop" => pc \in {"start", "loop"}
  PROVE  Booked'
<1>1. Charged' = Charged
  BY ChargedSame
<1>2. Due' = Due
  BY DEF Due
<1>3. ClockRuns' <=> ClockRuns
  BY DEF ClockRuns
<1>4. EndsComplete'
  BY DEF EndsComplete
<1> QED
  BY <1>1, <1>2, <1>3, <1>4 DEF Booked

LEMMA RunningBooked ==
  ASSUME IInv, Progress, Booked, CheckRunningProcess
  PROVE  Booked'
<1>1. CASE NothingRuns
  <2>1. /\ pc = "running" /\ pc' = "dispatch" /\ running = <<>>
        /\ UNCHANGED <<workload, remaining, results, running, cpuIdle, elapsed, idleTime, started>>
    BY <1>1 DEF NothingRuns, scenario, queues, counters, clock
  <2>2. Charged' = Charged
    BY <2>1, ChargedSame
  <2>3. Due = 0 /\ Due' = 0
    BY <2>1 DEF Due
  <2> QED
    BY <2>1, <2>2, <2>3 DEF Booked, ClockRuns, EndsComplete
<1>2. ASSUME NEW p \in Procs, Block(p) \/ Terminate(p) \/ Preempt(p) \/ Continue(p)
      PROVE  Booked'
  <2>1. Work(p)
    BY <1>2 DEF Block, Terminate, Preempt, Continue
  <2>2. /\ Len(running) = 1 /\ running = <<p>> /\ pc = "running" /\ pc' = "dispatch"
        /\ UNCHANGED <<workload, cpuIdle, elapsed, idleTime, started>>
    BY <2>1, WorkMoves DEF Work
  <2>3. ~cpuIdle
    <3>1. running # <<>>
      BY <2>2
    <3> QED
      BY <3>1 DEF Booked
  <2>4. Charged' = Charged + 1 /\ Charged \in Int
    BY <1>2, RunningCharged, ChargedType
  <2>5. Due = 1 /\ Due' = 0
    BY <2>2 DEF Due
  <2>6. elapsed \in Nat /\ idleTime \in Nat
    BY <2>2 DEF IInv, Clock
  <2>7. ClockRuns' => elapsed' - idleTime' = Charged' + Due'
    BY <2>2, <2>4, <2>5, <2>6 DEF Booked, ClockRuns
  <2> QED
    BY <2>2, <2>3, <2>7 DEF Booked, EndsComplete
<1> QED
  BY <1>1, <1>2 DEF CheckRunningProcess

LEMMA DispatchBooked ==
  ASSUME IInv, Booked, Dispatch \/ NothingToDispatch
  PROVE  Booked'
<1>1. /\ pc = "dispatch" /\ pc' = "clock"
      /\ UNCHANGED <<workload, remaining, results, elapsed, idleTime, started>>
  BY DEF Dispatch, NothingToDispatch, scenario, queues, counters
<1>2. Charged' = Charged
  BY <1>1, ChargedSame
<1>3. Due = 0 /\ Due' = 0
  BY <1>1 DEF Due
<1>4. (cpuIdle' => running' = <<>>) /\ (running' = <<>> => cpuIdle')
  <2>1. CASE Dispatch
    <3>1. PICK p \in Procs : running' = <<p>>
      BY <2>1, DispatchMoves
    <3>2. cpuIdle' = FALSE /\ running' # <<>>
      BY <2>1, <3>1 DEF Dispatch
    <3> QED
      BY <3>2
  <2>2. CASE NothingToDispatch
    <3>1. running' = running /\ cpuIdle' = IF running = <<>> THEN TRUE ELSE cpuIdle
      BY <2>2 DEF NothingToDispatch, queues, IdleAfter
    <3> QED
      BY <3>1 DEF Booked
  <2> QED
    BY <2>1, <2>2
<1> QED
  BY <1>1, <1>2, <1>3, <1>4 DEF Booked, ClockRuns, EndsComplete

LEMMA TickBooked ==
  ASSUME IInv, Booked, Tick
  PROVE  Booked'
<1>1. /\ pc = "clock" /\ pc' = "loop"
      /\ UNCHANGED <<workload, remaining, results, running, cpuIdle, started>>
      /\ elapsed' = elapsed + (IF elapsed < TimeLimit THEN 1 ELSE 0)
      /\ idleTime' = IF cpuIdle /\ running = <<>>
                     THEN idleTime + (IF elapsed < TimeLimit THEN 1 ELSE 0) ELSE idleTime
  BY DEF Tick, CountsAsIdle, scenario, queues, counters
<1>2. Charged' = Charged /\ Charged \in Int
  BY <1>1, ChargedSame, ChargedType
<1>3. elapsed \in Nat /\ idleTime \in Nat /\ TimeLimit \in Nat
  BY <1>1, BoundsAssumption DEF IInv, Clock
<1>4. ClockRuns' => elapsed < TimeLimit /\ elapsed' = elapsed + 1 /\ ClockRuns
  BY <1>1, <1>3 DEF ClockRuns
<1>5. cpuIdle <=> running = <<>>
  BY <1>1 DEF Booked
<1>6. Due = 0 /\ Due' = Len(running)
  BY <1>1 DEF Due
<1>7. ClockRuns' => elapsed - idleTime = Charged
  BY <1>1, <1>2, <1>4, <1>6 DEF Booked
<1>8. ClockRuns' => elapsed' - idleTime' = Charged' + Due' /\ (cpuIdle' => idleTime' >= 1)
  <2> SUFFICES ASSUME ClockRuns'
               PROVE  elapsed' - idleTime' = Charged' + Due' /\ (cpuIdle' => idleTime' >= 1)
    OBVIOUS
  <2>1. CASE running = <<>>
    <3>1. Len(running) = 0 /\ idleTime' = idleTime + 1
      BY <1>1, <1>4, <1>5, <2>1
    <3> QED
      BY <1>2, <1>3, <1>4, <1>6, <1>7, <3>1
  <2>2. CASE running # <<>>
    <3>1. Len(running) = 1
      <4>1. PICK p \in 1 .. started : running = <<p>>
        BY <2>2, RunningIs
      <4> QED
        BY <4>1
    <3>2. idleTime' = idleTime /\ ~cpuIdle'
      BY <1>1, <1>5, <2>2
    <3> QED
      BY <1>2, <1>3, <1>4, <1>6, <1>7, <3>1, <3>2
  <2> QED
    BY <2>1, <2>2
<1> QED
  BY <1>1, <1>5, <1>8 DEF Booked, EndsComplete

LEMMA EndBooked ==
  ASSUME IInv, Progress, Booked, CalcStatistics
  PROVE  Booked'
<1>1. /\ pc = "loop" /\ pc' = "done" /\ elapsed' = elapsed - 1 /\ idleTime' = idleTime - 1
      /\ UNCHANGED <<workload, remaining, results, running, cpuIdle, started>>
      /\ cpuIdle /\ incoming = <<>> /\ waiting = <<>> /\ readySusp = <<>>
      /\ ready = <<>> /\ blocked = <<>> /\ blockedSusp = <<>>
  BY DEF CalcStatistics, EmptyQueue, scenario, queues, counters
<1>2. running = <<>> /\ started = Len(workload)
  BY <1>1 DEF Booked
<1>3. Finished = Procs
  <2>1. 1 .. started = Procs
    BY <1>2, WorkDoneIs
  <2> QED
    BY <1>1, <1>2, <2>1, Apart, ToSetEmpty DEF Split
<1>4. ASSUME workload # <<>>, ClockRuns'
      PROVE  elapsed' > 0 /\ 0 <= idleTime' /\ idleTime' < elapsed'
  <2>1. elapsed < TimeLimit /\ elapsed \in Nat /\ idleTime \in Nat /\ TimeLimit \in Nat
    BY <1>1, <1>4, BoundsAssumption DEF IInv, Clock, ClockRuns
  <2>2. elapsed - idleTime = Charged /\ Charged \in Int
    <3>1. Due = 0
      BY <1>1, <1>2 DEF Due
    <3>2. ClockRuns
      BY <1>1, <2>1 DEF ClockRuns
    <3> QED
      BY <1>1, <3>1, <3>2, ChargedType DEF Booked
  <2>3. Charged >= 1
    <3> DEFINE n == Len(workload)
               f == WorkDone
    <3>1. n \in Nat /\ n >= 1
      <4>1. workload \in Seq(Task)
        BY Scenario DEF IInv
      <4> QED
        BY <1>4, <4>1, LenProperties, EmptySeq
    <3>2. \A p \in 1 .. n : f[p] \in Nat /\ f[p] >= 1
      <4> TAKE p \in 1 .. n
      <4>1. p \in Procs /\ f[p] = workload[p].exec - remaining[p]
        BY WorkDoneIs
      <4>2. remaining[p] = 0
        BY <1>3, <4>1 DEF Progress, Standing
      <4>3. workload[p].exec \in Nat /\ workload[p].exec >= 1
        BY <4>1, TaskOf
      <4> QED
        BY <4>1, <4>2, <4>3
    <3> HIDE DEF n, f
    <3>3. Total(f, n) >= n
      BY <3>1, <3>2, TotalAtLeast
    <3>4. Total(f, n) \in Int /\ Cardinality(ExtraTicks) \in Nat
      BY ChargedType, ExtraTicksFinite DEF f, n
    <3>5. Charged = Total(f, n) + Cardinality(ExtraTicks)
      BY DEF Charged, f, n
    <3> QED
      BY <3>1, <3>3, <3>4, <3>5
  <2>4. idleTime >= 1
    <3>1. elapsed > 0 /\ ClockRuns
      BY <1>1, <2>1, <2>2, <2>3 DEF ClockRuns
    <3> QED
      BY <1>1, <3>1 DEF Booked
  <2> QED
    BY <1>1, <2>1, <2>2, <2>3, <2>4
<1>5. Procs' = Procs /\ Finished' = Finished
  BY <1>1 DEF Procs, Finished
<1>6. EndsComplete'
  BY <1>1, <1>3, <1>4, <1>5 DEF EndsComplete
<1> QED
  BY <1>1, <1>2, <1>6 DEF Booked

LEMMA NextBooked ==
  ASSUME IInv, Progress, Booked, [Next]_vars
  PROVE  Booked'
<1>1. CASE UNCHANGED vars
  <2>1. UNCHANGED <<workload, remaining, results, running, cpuIdle, elapsed, idleTime, started, pc>>
    BY <1>1 DEF vars, scenario, queues, counters, clock
  <2>2. Charged' = Charged
    BY <2>1, ChargedSame
  <2> QED
    BY <2>1, <2>2 DEF Booked, Due, ClockRuns, EndsComplete, Finished, Procs
<1>2. CASE StartProcess \/ EnterLoop \/ CheckIncomingQueue \/ Admit \/ CheckBlockedQueue
           \/ CheckReadySuspensedQueue
  <2>1. /\ UNCHANGED <<workload, remaining, results, running, cpuIdle, elapsed, idleTime>>
        /\ \/ pc = "start" /\ pc' = "start"
           \/ pc = "start" /\ pc' = "loop" /\ started' = Len(workload)
           \/ /\ pc \in {"loop", "admit", "blocked", "readysusp"}
              /\ pc' \in {"admit", "blocked", "readysusp", "running"} /\ started' = started
    BY <1>2 DEF StartProcess, EnterLoop, CheckIncomingQueue, Admit, CheckBlockedQueue,
         CheckReadySuspensedQueue, scenario, queues, counters, clock
  <2>2. pc \notin {"start", "done"} => started = Len(workload)
    BY DEF Booked
  <2> QED
    BY <2>1, <2>2, BookedSame
<1> QED
  BY <1>1, <1>2, RunningBooked, DispatchBooked, TickBooked, EndBooked DEF Next

-----------------------------------------------------------------------------
(* What a process is charged *)

Spent(p) == (workload[p].exec - remaining[p]) + (workload[p].block - blockTime[p])

\* The tick of the clock in which p has still to work or to wait.
Owed(p) ==
  IF \/ p \in ToSet(running) /\ pc \notin {"dispatch", "clock"}
     \/ p \in ToSet(blocked) /\ pc \notin {"readysusp", "running", "dispatch", "clock"}
  THEN 1 ELSE 0

InTime(p) ==
  /\ p \in ToSet(ready) \cup ToSet(running) \cup ToSet(blocked) =>
       /\ elapsed - submission[p] >= 0
       /\ Spent(p) + Owed(p) <= elapsed - submission[p]
       /\ response[p] = -1 \/ response[p] \in 0 .. elapsed - submission[p]
  /\ p \in ToSet(running) => response[p] # -1
  /\ p \in Finished =>
       /\ results[p].turnaround >= workload[p].exec + workload[p].block
       /\ results[p].resp \in 0 .. results[p].turnaround

Aged == ClockRuns => \A p \in Procs \ suspended : InTime(p)

LEMMA AgedInit ==
  ASSUME Init
  PROVE  Aged
<1>1. ready = <<>> /\ running = <<>> /\ blocked = <<>> /\ Finished = {}
  BY DEF Init, Finished
<1> QED
  BY <1>1, ToSetEmpty DEF Aged, InTime

\* A process that is left where it is, with its counters.
LEMMA InTimeSame ==
  ASSUME NEW p, InTime(p), UNCHANGED <<workload, elapsed>>,
         remaining'[p] = remaining[p], blockTime'[p] = blockTime[p],
         response'[p] = response[p], submission'[p] = submission[p],
         p \in Finished' => p \in Finished /\ results'[p] = results[p],
         p \in ToSet(ready)' \cup ToSet(running)' \cup ToSet(blocked)' =>
           p \in ToSet(ready) \cup ToSet(running) \cup ToSet(blocked),
         p \in ToSet(running)' => p \in ToSet(running),
         Owed(p)' = Owed(p)
  PROVE  InTime(p)'
<1>1. Spent(p)' = Spent(p)
  BY DEF Spent
<1> QED
  BY <1>1 DEF InTime

LEMMA StartAged ==
  ASSUME IInv, Progress, Aged, StartProcess
  PROVE  Aged'
<1>1. PICK p \in Procs : /\ p \in Fresh
                         /\ ToSet(ready)' \subseteq ToSet(ready) \cup {p}
                         /\ p \in ToSet(ready)' => submission[p] = 0
  BY StartMoves
<1>2. /\ UNCHANGED <<workload, pc, running, blocked, remaining, blockTime, submission,
                     response, results, suspended, elapsed>>
      /\ Procs' = Procs /\ Finished' = Finished /\ pc = "start"
  BY DEF StartProcess, scenario, counters, history, clock, Procs, Finished
<1>3. ClockRuns' <=> ClockRuns
  BY <1>2 DEF ClockRuns
<1>4. ASSUME NEW q \in Procs \ suspended, InTime(q)
      PROVE  InTime(q)'
  <2>1. Owed(q)' = Owed(q) /\ Spent(q)' = Spent(q)
    BY <1>2 DEF Owed, Spent
  <2>2. CASE q = p
    <3>1. /\ p \notin ToSet(running) /\ p \notin ToSet(blocked) /\ p \notin Finished
      BY <1>1, Elsewhere
    <3>2. remaining[p] = workload[p].exec /\ blockTime[p] = workload[p].block /\ response[p] = -1
      BY <1>1 DEF Progress, Standing
    <3>3. Spent(p) = 0 /\ Owed(p) = 0
      BY <3>1, <3>2, TaskOf DEF Spent, Owed
    <3>4. elapsed \in Nat
      BY <1>2 DEF IInv, Clock
    <3> QED
      BY <1>1, <1>2, <2>1, <2>2, <3>1, <3>2, <3>3, <3>4 DEF InTime
  <2>3. CASE q # p
    BY <1>1, <1>2, <1>4, <2>1, <2>3, InTimeSame
  <2> QED
    BY <2>2, <2>3
<1> QED
  BY <1>2, <1>3, <1>4 DEF Aged

LEMMA AdmitAged ==
  ASSUME IInv, Progress, Aged, Admit
  PROVE  Aged'
<1> DEFINE A == ToSet(Admitted(waiting))
<1>1. ToSet(ready)' = ToSet(ready) \cup A /\ A \subseteq Fresh
  BY AdmitMoves
<1>2. /\ UNCHANGED <<workload, running, blocked, remaining, blockTime,
                     response, results, suspended, elapsed>>
      /\ Procs' = Procs /\ Finished' = Finished /\ pc = "admit" /\ pc' = "blocked"
      /\ \A p \in Procs : submission'[p] = IF p \in A THEN elapsed ELSE submission[p]
  BY DEF Admit, SubmittedNow, scenario, history, clock, Procs, Finished
<1> HIDE DEF A
<1>3. ClockRuns' <=> ClockRuns
  BY <1>2 DEF ClockRuns
<1>4. ASSUME NEW q \in Procs \ suspended, InTime(q)
      PROVE  InTime(q)'
  <2>1. Owed(q)' = Owed(q) /\ Spent(q)' = Spent(q)
    BY <1>2 DEF Owed, Spent
  <2>2. CASE q \in A
    <3>1. q \notin ToSet(running) /\ q \notin ToSet(blocked) /\ q \notin Finished
      BY <1>1, <2>2, Elsewhere
    <3>2. remaining[q] = workload[q].exec /\ blockTime[q] = workload[q].block /\ response[q] = -1
      BY <1>1, <2>2 DEF Progress, Standing
    <3>3. Spent(q) = 0 /\ Owed(q) = 0
      BY <3>1, <3>2, TaskOf DEF Spent, Owed
    <3>4. elapsed \in Nat /\ elapsed' - submission'[q] = 0
      BY <1>2, <2>2 DEF IInv, Clock
    <3> QED
      BY <1>2, <2>1, <3>1, <3>2, <3>3, <3>4 DEF InTime
  <2>3. CASE q \notin A
    BY <1>1, <1>2, <1>4, <2>1, <2>3, InTimeSame
  <2> QED
    BY <2>2, <2>3
<1> QED
  BY <1>2, <1>3, <1>4 DEF Aged

LEMMA BlockedAged ==
  ASSUME IInv, Aged, CheckBlockedQueue
  PROVE  Aged'
<1>1. /\ ToSet(ready)' \subseteq ToSet(ready) \cup ToSet(blocked)
      /\ ToSet(blocked)' \subseteq ToSet(blocked)
  BY BlockedMoves
<1>2. /\ UNCHANGED <<workload, running, remaining, submission,
                     response, results, suspended, elapsed>>
      /\ Procs' = Procs /\ Finished' = Finished /\ pc = "blocked" /\ pc' = "readysusp"
  BY DEF CheckBlockedQueue, scenario, history, clock, Procs, Finished
<1>3. ClockRuns' <=> ClockRuns
  BY <1>2 DEF ClockRuns
<1>4. ASSUME NEW q \in Procs \ suspended, InTime(q)
      PROVE  InTime(q)'
  <2>1. CASE q \in ToSet(blocked)
    <3>1. q \notin ToSet(running) /\ q \notin Finished
      BY <2>1, Elsewhere
    <3>2. Owed(q) = 1 /\ Owed(q)' = 0
      BY <1>2, <2>1, <3>1 DEF Owed
    <3>3. Spent(q)' <= Spent(q) + 1
      <4>1. /\ remaining[q] \in Nat /\ blockTime[q] \in Nat /\ workload[q].exec \in Nat
            /\ workload[q].block \in Nat
            /\ blockTime'[q] = blockTime[q] \/ blockTime'[q] = blockTime[q] - 1
        BY TaskOf, BlockTimeIs
      <4> QED
        BY <1>2, <4>1 DEF Spent
    <3>4. Spent(q) \in Int /\ Spent(q)' \in Int /\ submission[q] \in Nat /\ elapsed \in Nat
      BY <1>2, TaskOf, BlockTimeIs DEF Spent, IInv, Clock
    <3> QED
      BY <1>2, <1>4, <2>1, <3>1, <3>2, <3>3, <3>4 DEF InTime
  <2>2. CASE q \notin ToSet(blocked)
    <3>1. blockTime'[q] = blockTime[q] \/ q \in ToSet(blockedSusp)
      BY <2>2, BlockTimeIs
    <3>2. Owed(q)' = Owed(q)
      BY <1>1, <1>2, <2>2 DEF Owed
    <3>3. CASE blockTime'[q] = blockTime[q]
      BY <1>1, <1>2, <1>4, <2>2, <3>2, <3>3, InTimeSame
    <3>4. CASE q \in ToSet(blockedSusp)
      <4>1. q \notin ToSet(ready) /\ q \notin ToSet(running) /\ q \notin Finished
        BY <3>4, Elsewhere
      <4> QED
        BY <1>1, <1>2, <2>2, <4>1 DEF InTime
    <3> QED
      BY <3>1, <3>3, <3>4
  <2> QED
    BY <2>1, <2>2
<1> QED
  BY <1>2, <1>3, <1>4 DEF Aged

LEMMA ReadySuspAged ==
  ASSUME IInv, Progress, Aged, CheckReadySuspensedQueue
  PROVE  Aged'
<1> DEFINE A == ToSet(Admitted(readySusp))
<1>1. /\ UNCHANGED <<workload, running, blocked, remaining, blockTime,
                     response, results, suspended, elapsed>>
      /\ Procs' = Procs /\ Finished' = Finished /\ pc = "readysusp" /\ pc' = "running"
  BY DEF CheckReadySuspensedQueue, scenario, history, clock, Procs, Finished
<1>2. /\ ToSet(ready)' \subseteq ToSet(ready) \cup A /\ A \subseteq suspended
      /\ \A q \in Procs : q \notin A => submission'[q] = submission[q]
  BY ReadySuspMoves DEF Progress, SubmittedNow
<1> HIDE DEF A
<1>3. ClockRuns' <=> ClockRuns
  BY <1>1 DEF ClockRuns
<1>4. ASSUME NEW q \in Procs \ suspended, InTime(q)
      PROVE  InTime(q)'
  <2>1. Owed(q)' = Owed(q)
    BY <1>1 DEF Owed
  <2> QED
    BY <1>1, <1>2, <1>4, <2>1, InTimeSame
<1> QED
  BY <1>1, <1>3, <1>4 DEF Aged

LEMMA RunningAged ==
  ASSUME IInv, Progress, Aged, NEW p \in Procs,
         Block(p) \/ Terminate(p) \/ Preempt(p) \/ Continue(p)
  PROVE  Aged'
<1>1. Work(p)
  BY DEF Block, Terminate, Preempt, Continue
<1>2. /\ ToSet(running) = {p} /\ pc = "running" /\ pc' = "dispatch"
      /\ UNCHANGED <<workload, blockTime, submission, response, elapsed>>
      /\ \A q \in Procs : remaining'[q] = IF q = p /\ remaining[p] > 0 THEN remaining[p] - 1
                                                                        ELSE remaining[q]
      /\ Procs' = Procs
  BY <1>1, WorkMoves DEF IInv, Types, Procs
<1>3. /\ ToSet(running)' \subseteq {p} /\ ToSet(ready)' \subseteq ToSet(ready) \cup {p}
      /\ ToSet(blocked)' \subseteq ToSet(blocked) \cup {p}
      /\ suspended \subseteq suspended' /\ (p \in ToSet(blocked)' => suspended' = suspended)
      /\ Finished' \subseteq Finished \cup {p}
      /\ \A q \in Finished : q # p => results'[q] = results[q]
      /\ p \in Finished' => Terminate(p)
  <2>1. p \notin ToSet(blocked) /\ p \notin Finished
    BY <1>2, Elsewhere
  <2>2. CASE Block(p)
    BY <1>2, <2>1, <2>2, BlockMoves DEF Finished
  <2>3. CASE Terminate(p)
    BY <1>2, <2>1, <2>3, TerminateMoves
  <2>4. CASE Preempt(p)
    BY <1>2, <2>1, <2>4, PreemptMoves DEF Finished
  <2>5. CASE Continue(p)
    BY <1>2, <2>1, <2>5 DEF Continue, Finished
  <2> QED
    BY <2>2, <2>3, <2>4, <2>5
<1>4. ClockRuns' <=> ClockRuns
  BY <1>2 DEF ClockRuns
<1>5. ASSUME NEW q \in Procs \ suspended, q # p, InTime(q)
      PROVE  InTime(q)'
  <2>1. Owed(q) = 0 /\ Owed(q)' = 0
    BY <1>2, <1>3, <1>5 DEF Owed
  <2> QED
    BY <1>2, <1>3, <1>5, <2>1, InTimeSame
<1>6. ASSUME p \notin suspended, InTime(p)
      PROVE  InTime(p)'
  <2>1. Owed(p) = 1 /\ Owed(p)' = 0
    BY <1>2 DEF Owed
  <2>2. /\ remaining[p] \in Nat /\ blockTime[p] \in Nat /\ workload[p].exec \in Nat
        /\ workload[p].block \in Nat /\ submission[p] \in Nat /\ elapsed \in Nat
        /\ response[p] \in Int
    BY <1>2, TaskOf DEF IInv, Clock
  <2>3. remaining'[p] = IF remaining[p] > 0 THEN remaining[p] - 1 ELSE remaining[p]
    BY <1>2
  <2>4. Spent(p) \in Int /\ Spent(p)' \in Int /\ Spent(p)' <= Spent(p) + 1
    BY <1>2, <2>2, <2>3 DEF Spent
  <2>5. /\ elapsed - submission[p] >= 0
        /\ Spent(p) + 1 <= elapsed - submission[p]
        /\ response[p] \in 0 .. elapsed - submission[p]
    BY <1>2, <1>6, <2>1 DEF InTime
  <2>6. /\ elapsed' - submission'[p] >= 0
        /\ Spent(p)' + Owed(p)' <= elapsed' - submission'[p]
        /\ response'[p] \in 0 .. elapsed' - submission'[p] /\ response'[p] # -1
    BY <1>2, <2>1, <2>2, <2>4, <2>5
  <2>7. ASSUME p \in Finished'
        PROVE  /\ results'[p].turnaround >= workload[p].exec + workload[p].block
               /\ results'[p].resp \in 0 .. results'[p].turnaround
    <3>1. /\ results'[p].turnaround = elapsed - submission[p] /\ results'[p].resp = response[p]
          /\ remaining'[p] < 1 /\ blockTime[p] <= 0
      <4>1. Terminate(p)
        BY <1>3, <2>7
      <4>2. /\ results'[p] = [turnaround |-> elapsed - submission[p],
                              wait |-> WaitingTime(p), resp |-> response[p]]
            /\ remaining'[p] < 1 /\ blockTime[p] <= 0
        BY <4>1, TerminateMoves
      <4> QED
        BY <4>2
    <3>2. remaining'[p] = 0 /\ blockTime'[p] = 0
      BY <1>2, <2>2, <2>3, <3>1
    <3>3. Spent(p)' = workload[p].exec + workload[p].block
      BY <1>2, <2>2, <3>2 DEF Spent
    <3> QED
      BY <2>2, <2>4, <2>5, <3>1, <3>3
  <2> QED
    BY <1>2, <2>6, <2>7 DEF InTime
<1> QED
  BY <1>2, <1>3, <1>4, <1>5, <1>6 DEF Aged

LEMMA DispatchAged ==
  ASSUME IInv, Aged, Dispatch
  PROVE  Aged'
<1>1. PICK p \in Procs :
           /\ p \in ToSet(ready) /\ ToSet(ready)' = ToSet(ready) \ {p}
           /\ ToSet(running)' = {p} /\ running = <<>>
           /\ response' = IF response[p] = -1
                          THEN [response EXCEPT ![p] = elapsed - submission[p]]
                          ELSE response
  BY DispatchMoves
<1>2. /\ UNCHANGED <<workload, blocked, remaining, blockTime, submission, results, suspended,
                     elapsed>>
      /\ Procs' = Procs /\ Finished' = Finished /\ pc = "dispatch" /\ pc' = "clock"
  BY DEF Dispatch, scenario, history, Procs, Finished
<1>3. ClockRuns' <=> ClockRuns
  BY <1>2 DEF ClockRuns
<1>4. ASSUME NEW q \in Procs \ suspended, InTime(q)
      PROVE  InTime(q)'
  <2>1. Owed(q) = 0 /\ Owed(q)' = 0
    BY <1>2 DEF Owed
  <2>2. CASE q = p
    <3>1. /\ elapsed - submission[p] >= 0
          /\ Spent(p) <= elapsed - submission[p]
          /\ response[p] = -1 \/ response[p] \in 0 .. elapsed - submission[p]
      <4>1. Spent(p) \in Int
        BY TaskOf DEF Spent
      <4> QED
        BY <1>1, <1>4, <2>1, <2>2, <4>1 DEF InTime
    <3>2. elapsed - submission[p] \in Int
      BY <1>2, TaskOf DEF IInv, Clock
    <3>3. response'[p] \in 0 .. elapsed - submission[p] /\ response'[p] # -1
      BY <1>1, <3>1, <3>2 DEF IInv, Types
    <3>4. Spent(p)' = Spent(p) /\ Spent(p) \in Int
      BY <1>2, TaskOf DEF Spent
    <3>5. p \notin Finished
      BY <1>1, Elsewhere
    <3> QED
      BY <1>2, <2>1, <2>2, <3>1, <3>3, <3>4, <3>5 DEF InTime
  <2>3. CASE q # p
    <3>1. response'[q] = response[q]
      BY <1>1, <2>3 DEF IInv, Types
    <3> QED
      BY <1>1, <1>2, <1>4, <2>1, <2>3, <3>1, InTimeSame
  <2> QED
    BY <2>2, <2>3
<1> QED
  BY <1>2, <1>3, <1>4 DEF Aged

LEMMA TickAged ==
  ASSUME IInv, Aged, Tick
  PROVE  Aged'
<1>1. /\ UNCHANGED <<queues, workload, counters, results, suspended>>
      /\ Procs' = Procs /\ Finished' = Finished /\ pc = "clock" /\ pc' = "loop"
      /\ elapsed' = elapsed + (IF elapsed < TimeLimit THEN 1 ELSE 0)
  BY DEF Tick, scenario, history, Procs, Finished
<1>2. elapsed \in Nat /\ TimeLimit \in Nat
  BY <1>1, BoundsAssumption DEF IInv, Clock
<1>3. ASSUME ClockRuns'
      PROVE  ClockRuns /\ elapsed' = elapsed + 1
  BY <1>1, <1>2, <1>3 DEF ClockRuns
<1>4. ASSUME NEW q \in Procs \ suspended, InTime(q), elapsed' = elapsed + 1
      PROVE  InTime(q)'
  <2>1. /\ remaining' = remaining /\ blockTime' = blockTime /\ submission' = submission
        /\ response' = response
        /\ ToSet(ready)' = ToSet(ready) /\ ToSet(running)' = ToSet(running)
        /\ ToSet(blocked)' = ToSet(blocked)
    BY <1>1, UnmovedSets DEF counters
  <2>2. Spent(q)' = Spent(q) /\ Spent(q) \in Int /\ submission[q] \in Nat
    BY <1>1, <2>1, TaskOf DEF Spent
  <2>3. Owed(q) = 0 /\ Owed(q)' \in {0, 1}
    BY <1>1 DEF Owed
  <2> QED
    BY <1>1, <1>2, <1>4, <2>1, <2>2, <2>3 DEF InTime
<1> QED
  BY <1>1, <1>3, <1>4 DEF Aged

\* The last tick does not count, but then nobody is in the system any more.
LEMMA EndAged ==
  ASSUME IInv, Booked, Aged, CalcStatistics
  PROVE  Aged'
<1>1. /\ pc = "loop" /\ pc' = "done" /\ elapsed' = elapsed - 1 /\ cpuIdle
      /\ UNCHANGED <<queues, workload, counters, results, suspended>>
      /\ Procs' = Procs /\ Finished' = Finished /\ ready = <<>> /\ blocked = <<>>
  BY DEF CalcStatistics, EmptyQueue, scenario, history, Procs, Finished
<1>2. running = <<>>
  BY <1>1 DEF Booked
<1>3. ClockRuns' => ClockRuns
  BY <1>1, BoundsAssumption DEF ClockRuns, IInv, Clock
<1>4. ToSet(ready)' = {} /\ ToSet(running)' = {} /\ ToSet(blocked)' = {}
  BY <1>1, <1>2, UnmovedSets, ToSetEmpty
<1> QED
  BY <1>1, <1>3, <1>4 DEF Aged, InTime

LEMMA NextAged ==
  ASSUME IInv, Progress, Booked, Aged, [Next]_vars
  PROVE  Aged'
<1>1. CASE UNCHANGED vars \/ EnterLoop \/ CheckIncomingQueue \/ NothingRuns \/ NothingToDispatch
  <2>1. /\ UNCHANGED <<workload, ready, running, blocked, remaining, blockTime, submission,
                       response, results, suspended, elapsed>>
        /\ \/ pc' = pc
           \/ pc \in {"start", "loop"} /\ pc' \in {"loop", "admit"}
           \/ pc \in {"running"} /\ pc' = "dispatch" /\ running = <<>>
           \/ pc = "dispatch" /\ pc' = "clock"
    BY <1>1 DEF vars, EnterLoop, CheckIncomingQueue, NothingRuns, NothingToDispatch, scenario,
         queues, counters, clock, history
  <2>2. ClockRuns' <=> ClockRuns
    BY <2>1 DEF ClockRuns
  <2>3. \A q : Owed(q)' = Owed(q)
    BY <2>1, ToSetEmpty DEF Owed
  <2>4. Procs' = Procs /\ Finished' = Finished
    BY <2>1 DEF Procs, Finished
  <2>5. ASSUME NEW q \in Procs \ suspended, InTime(q)
        PROVE  InTime(q)'
    BY <2>1, <2>3, <2>4, <2>5, InTimeSame
  <2> QED
    BY <2>1, <2>2, <2>4, <2>5 DEF Aged
<1>2. CASE \E p \in Procs : Block(p) \/ Terminate(p) \/ Preempt(p) \/ Continue(p)
  BY <1>2, RunningAged
<1> QED
  BY <1>1, <1>2, StartAged, AdmitAged, BlockedAged, ReadySuspAged, DispatchAged, TickAged,
     EndAged DEF Next, CheckRunningProcess

-----------------------------------------------------------------------------
(* The theorems on the simulated time *)

LEMMA TimedInvariant == Spec => [](IInv /\ Progress /\ Booked /\ Aged)
<1>1. Init => IInv /\ Progress /\ Booked /\ Aged
  BY InitIInv, ProgressInit, BookedInit, AgedInit
<1>2. IInv /\ Progress /\ Booked /\ Aged /\ [Next]_vars => (Progress /\ Booked /\ Aged)'
  BY NextProgress, NextBooked, NextAged
<1> QED
  BY <1>1, <1>2, Invariant, PTL DEF Spec

\* Every tick of the simulated clock is counted as idle or was given to one
\* process, for every workload and as far as the clock counts.
THEOREM SchedSimTimeAddsUp == Spec => []TimeAddsUp
<1>1. IInv /\ Booked => TimeAddsUp
  <2> SUFFICES ASSUME IInv, Booked, pc = "loop", ClockRuns
               PROVE  elapsed - idleTime = Total(WorkDone, Len(workload))
                                             + Cardinality(ExtraTicks) + Len(running)
    BY DEF TimeAddsUp
  <2>1. elapsed - idleTime = Charged + Due
    BY DEF Booked
  <2> QED
    BY <2>1 DEF Charged, Due
<1> QED
  BY <1>1, TimedInvariant, PTL

\* StartSimulation leaves its loop only with every process terminated and with a
\* clock and an idle time CalcStatistics can divide, for every workload that is not
\* empty.
THEOREM SchedSimEndsComplete == Spec => []EndsComplete
<1>1. Booked => EndsComplete
  BY DEF Booked
<1> QED
  BY <1>1, TimedInvariant, PTL

\* No process that was never suspended is charged less than it worked and waited,
\* nor a response after its end.
THEOREM SchedSimTurnaroundCoversWork == Spec => []TurnaroundCoversWork
<1>1. IInv /\ Aged => TurnaroundCoversWork
  <2> SUFFICES ASSUME IInv, Aged, ClockRuns, NEW p \in Finished \ suspended
               PROVE  /\ results[p].turnaround >= workload[p].exec + workload[p].block
                      /\ results[p].resp \in 0 .. results[p].turnaround
    BY DEF TurnaroundCoversWork
  <2>1. p \in Procs
    BY Apart DEF Split
  <2> QED
    BY <2>1 DEF Aged, InTime
<1> QED
  BY <1>1, TimedInvariant, PTL
=============================================================================
