----------------------------- MODULE ProConProofs -----------------------------
(***************************************************************************)
(* Proofs about ProCon, for any threads, items and buffer size.            *)
(***************************************************************************)
EXTENDS ProCon, SequenceTheorems, TLAPS

LEMMA ModTwice ==
  ASSUME NEW m \in Nat \ {0}, NEW a \in 0 .. 2 * m - 1
  PROVE  a % m = IF a < m THEN a ELSE a - m
<1>1. CASE a < m
  BY <1>1
<1>2. CASE a >= m
  BY <1>2
<1> QED
  BY <1>1, <1>2

\* Where the slot k places after slot s is.
LEMMA Wrap ==
  ASSUME NEW s \in Slots, NEW k \in 0 .. BufferSize
  PROVE  /\ (s + k) % BufferSize = IF s + k < BufferSize THEN s + k ELSE s + k - BufferSize
         /\ (s + k) % BufferSize \in Slots
<1> DEFINE a == s + k
<1>1. a \in 0 .. 2 * BufferSize - 1
  BY ThreadsAssumption DEF Slots
<1> HIDE DEF a
<1>2. a % BufferSize = IF a < BufferSize THEN a ELSE a - BufferSize
  BY <1>1, ModTwice, ThreadsAssumption
<1> QED
  BY <1>1, <1>2, ThreadsAssumption DEF Slots, a

LEMMA AnItemIsOne == AnItem \in Items
BY ThreadsAssumption DEF AnItem

\* A step of one thread that leaves the ring alone and wakes nobody.
Quiet(t) ==
  \/ t \in Producers /\ Produce(t)
  \/ Lock(t) \/ Relock(t) \/ Wait(t) \/ Pass(t) \/ WakeUnasked(t) \/ Unlock(t)

LEMMA StepCases ==
  ASSUME Next
  PROVE  \E t \in Threads :
           Quiet(t) \/ Signal(t) \/ (t \in Producers /\ Put(t)) \/ (t \in Consumers /\ Take(t))
BY DEF Next, Acquire, Proceed, Quiet

-----------------------------------------------------------------------------
(* Types *)

LEMMA InitInv ==
  ASSUME Init
  PROVE  Inv
<1>1. TypeOK
  BY ThreadsAssumption, AnItemIsOne DEF Init, TypeOK, Slots, Start, Places
<1>2. Locking
  <2>1. \A t \in Threads : pc[t] \notin Inside
    BY DEF Init, Start, Inside
  <2>2. in = (out + count) % BufferSize
    BY ThreadsAssumption DEF Init
  <2> QED
    BY <2>1, <2>2, ThreadsAssumption DEF Init, Locking, Inside
<1>3. NobodyForgotten
  <2>1. \A t \in Threads : pc[t] # "asleep"
    BY DEF Init, Start
  <2> QED
    BY <2>1, ThreadsAssumption DEF NobodyForgotten, Sleeping, Threads
<1> QED
  BY <1>1, <1>2, <1>3 DEF Inv

LEMMA NextTypeOK ==
  ASSUME TypeOK, Locking, [Next]_vars
  PROVE  TypeOK'
<1>1. CASE UNCHANGED vars
  BY <1>1 DEF TypeOK, vars, ring
<1>2. CASE Next
  <2>1. PICK t \in Threads :
          Quiet(t) \/ Signal(t) \/ (t \in Producers /\ Put(t)) \/ (t \in Consumers /\ Take(t))
    BY <1>2, StepCases
  <2>2. CASE Quiet(t)
    BY <2>2, ThreadsAssumption
       DEF TypeOK, Quiet, Produce, Lock, Relock, Wait, Pass, WakeUnasked, Unlock, Goto,
           Places, ring, AfterWait, Start
  <2>3. CASE Signal(t)
    BY <2>3 DEF TypeOK, Signal, Waiters, Sleeping, Threads, Goto, Places, ring
  <2>4. CASE t \in Producers /\ Put(t)
    <3>1. count < BufferSize
      BY <2>4, ThreadsAssumption DEF Put, Locking, MustWait, TypeOK
    <3>2. (in + 1) % BufferSize \in Slots
      BY ThreadsAssumption DEF TypeOK, Slots
    <3> QED
      BY <2>4, <3>1, <3>2, ThreadsAssumption
         DEF TypeOK, Put, Goto, Places, Threads
  <2>5. CASE t \in Consumers /\ Take(t)
    <3>1. count > 0
      BY <2>5, ThreadsAssumption DEF Take, Locking, MustWait, TypeOK
    <3>2. (out + 1) % BufferSize \in Slots
      BY ThreadsAssumption DEF TypeOK, Slots
    <3> QED
      BY <2>5, <3>1, <3>2, ThreadsAssumption
         DEF TypeOK, Take, Goto, Places, Threads
  <2> QED
    BY <2>1, <2>2, <2>3, <2>4, <2>5
<1> QED
  BY <1>1, <1>2

-----------------------------------------------------------------------------
(* The mutex and the indices *)

LEMMA NextLocking ==
  ASSUME TypeOK, Locking, [Next]_vars
  PROVE  Locking'
<1>1. CASE UNCHANGED vars
  BY <1>1 DEF Locking, vars, ring, MustWait
<1>2. CASE Next
  <2>1. PICK t \in Threads :
          Quiet(t) \/ Signal(t) \/ (t \in Producers /\ Put(t)) \/ (t \in Consumers /\ Take(t))
    BY <1>2, StepCases
  <2>2. CASE Quiet(t)
    <3>1. \A s \in Threads : (pc[s] \in Inside <=> mutex = s)'
      BY <2>2, ThreadsAssumption
         DEF TypeOK, Locking, Inside, Quiet, Produce, Lock, Relock, Wait, Pass,
             WakeUnasked, Unlock, Goto, AfterWait, Start
    <3>2. \A s \in Threads : (pc[s] = "act" => ~MustWait(s))'
      BY <2>2 DEF TypeOK, Locking, MustWait, Quiet, Produce, Lock, Relock, Wait, Pass,
                  WakeUnasked, Unlock, Goto, AfterWait, Start, ring
    <3>3. (in = (out + count) % BufferSize)'
      BY <2>2 DEF Locking, Quiet, Produce, Lock, Relock, Wait, Pass, WakeUnasked, Unlock, ring
    <3> QED
      BY <3>1, <3>2, <3>3 DEF Locking
  <2>3. CASE Signal(t)
    BY <2>3, ThreadsAssumption
       DEF TypeOK, Locking, Inside, MustWait, Signal, Waiters, Sleeping, Threads, Goto, ring
  <2>4. CASE t \in Producers /\ Put(t)
    <3>1. \A s \in Threads : (pc[s] \in Inside <=> mutex = s)'
      BY <2>4 DEF TypeOK, Locking, Inside, Put, Goto
    <3>2. \A s \in Threads : pc'[s] # "act"
      BY <2>4 DEF TypeOK, Locking, Inside, Put, Goto
    <3>3. (in + 1) % BufferSize = (out + (count + 1)) % BufferSize
      <4>1. count < BufferSize
        BY <2>4, ThreadsAssumption DEF Put, Locking, MustWait, TypeOK
      <4>2. count \in 0 .. BufferSize /\ count + 1 \in 0 .. BufferSize /\ 1 \in 0 .. BufferSize
        BY <4>1, ThreadsAssumption DEF TypeOK
      <4>3. in = IF out + count < BufferSize THEN out + count ELSE out + count - BufferSize
        BY <4>2, Wrap DEF Locking, TypeOK
      <4>4. (in + 1) % BufferSize = IF in + 1 < BufferSize THEN in + 1 ELSE in + 1 - BufferSize
        BY <4>2, Wrap DEF TypeOK
      <4>5. (out + (count + 1)) % BufferSize
              = IF out + (count + 1) < BufferSize THEN out + (count + 1)
                ELSE out + (count + 1) - BufferSize
        BY <4>2, Wrap DEF TypeOK
      <4> QED
        BY <4>2, <4>3, <4>4, <4>5, ThreadsAssumption DEF TypeOK, Slots
    <3> QED
      BY <2>4, <3>1, <3>2, <3>3 DEF Locking, Put
  <2>5. CASE t \in Consumers /\ Take(t)
    <3>1. \A s \in Threads : (pc[s] \in Inside <=> mutex = s)'
      BY <2>5 DEF TypeOK, Locking, Inside, Take, Goto
    <3>2. \A s \in Threads : pc'[s] # "act"
      BY <2>5 DEF TypeOK, Locking, Inside, Take, Goto
    <3>3. (out + count) % BufferSize = (((out + 1) % BufferSize) + (count - 1)) % BufferSize
      <4>1. count > 0
        BY <2>5, ThreadsAssumption DEF Take, Locking, MustWait, TypeOK
      <4>2. count \in 0 .. BufferSize /\ count - 1 \in 0 .. BufferSize /\ 1 \in 0 .. BufferSize
        BY <4>1, ThreadsAssumption DEF TypeOK
      <4> DEFINE next == (out + 1) % BufferSize
      <4>3. /\ next = IF out + 1 < BufferSize THEN out + 1 ELSE out + 1 - BufferSize
            /\ next \in Slots
        BY <4>2, Wrap DEF TypeOK
      <4>4. (out + count) % BufferSize
              = IF out + count < BufferSize THEN out + count ELSE out + count - BufferSize
        BY <4>2, Wrap DEF TypeOK
      <4> HIDE DEF next
      <4>5. (next + (count - 1)) % BufferSize
              = IF next + (count - 1) < BufferSize THEN next + (count - 1)
                ELSE next + (count - 1) - BufferSize
        BY <4>2, <4>3, Wrap
      <4>6. (out + count) % BufferSize = (next + (count - 1)) % BufferSize
        BY <4>2, <4>3, <4>4, <4>5, ThreadsAssumption DEF TypeOK, Slots
      <4> QED
        BY <4>6 DEF next
    <3> QED
      BY <2>5, <3>1, <3>2, <3>3 DEF Locking, Take
  <2> QED
    BY <2>1, <2>2, <2>3, <2>4, <2>5
<1> QED
  BY <1>1, <1>2
-----------------------------------------------------------------------------
(* Wakeups *)

\* One step cannot put the last thread of S to sleep but by a Wait.
LEMMA NextNobodyForgotten ==
  ASSUME TypeOK, Locking, NobodyForgotten, [Next]_vars
  PROVE  NobodyForgotten'
<1>1. CASE UNCHANGED vars
  BY <1>1 DEF NobodyForgotten, Sleeping, vars, ring
<1>2. CASE Next
  <2>1. PICK t \in Threads :
          Quiet(t) \/ Signal(t) \/ (t \in Producers /\ Put(t)) \/ (t \in Consumers /\ Take(t))
    BY <1>2, StepCases
  <2>2. CASE Quiet(t)
    <3>1. pc[t] # "signal" /\ count' = count
      BY <2>2 DEF Quiet, Produce, Lock, Relock, Wait, Pass, WakeUnasked, Unlock, ring, Locking, Inside
    <3>2. \A s \in Threads : s # t => pc'[s] = pc[s]
      BY <2>2 DEF TypeOK, Quiet, Produce, Lock, Relock, Wait, Pass, WakeUnasked, Unlock, Goto
    <3>3. pc'[t] # "asleep" \/ (MustWait(t) /\ pc[t] = "test")
      BY <2>2 DEF TypeOK, Quiet, Produce, Lock, Relock, Wait, Pass, WakeUnasked, Unlock, Goto,
                  AfterWait, Start
    <3>4. \A s \in Threads : pc[s] = "signal" => pc'[s] = "signal"
      BY <3>1, <3>2
    <3>5. ASSUME (count > 0 /\ Sleeping(Consumers) = Consumers)'
          PROVE  \E s \in Producers : pc'[s] = "signal"
      <4>1. t \notin Consumers
        BY <3>1, <3>3, <3>5, ThreadsAssumption DEF MustWait, Sleeping
      <4>2. Sleeping(Consumers) = Consumers
        BY <3>2, <3>5, <4>1 DEF Sleeping, Threads
      <4> QED
        BY <3>1, <3>4, <3>5, <4>2 DEF NobodyForgotten, Threads
    <3>6. ASSUME (count < BufferSize /\ Sleeping(Producers) = Producers)'
          PROVE  \E s \in Consumers : pc'[s] = "signal"
      <4>1. t \notin Producers
        BY <3>1, <3>3, <3>6, ThreadsAssumption DEF MustWait, Sleeping, TypeOK
      <4>2. Sleeping(Producers) = Producers
        BY <3>2, <3>6, <4>1 DEF Sleeping, Threads
      <4> QED
        BY <3>1, <3>4, <3>6, <4>2 DEF NobodyForgotten, Threads
    <3> QED
      BY <3>5, <3>6 DEF NobodyForgotten
  <2>3. CASE Signal(t)
    <3> DEFINE Others == IF t \in Producers THEN Consumers ELSE Producers
    <3>1. count' = count /\ pc[t] = "signal" /\ pc'[t] = "unlock"
      BY <2>3 DEF Signal, Goto, ring, TypeOK, Waiters, Sleeping, Threads
    <3>2. \E s \in Others : pc'[s] # "asleep"
      <4>1. CASE Waiters(t) = {}
        <5>1. PICK s \in Others : TRUE
          BY ThreadsAssumption
        <5> QED
          BY <2>3, <4>1, <5>1 DEF Signal, Waiters, Sleeping, Goto, TypeOK, Threads
      <4>2. CASE Waiters(t) # {}
        BY <2>3, <4>2 DEF Signal, Waiters, Sleeping, TypeOK, Threads
      <4> QED
        BY <4>1, <4>2
    <3>3. (Sleeping(Others) # Others)'
      BY <3>2 DEF Sleeping
    <3>4. \A s \in Threads : pc'[s] = "asleep" => pc[s] = "asleep"
      BY <2>3 DEF Signal, Goto, TypeOK, Waiters, Sleeping, Threads
    <3>5. CASE t \in Producers
      <4>1. (Sleeping(Consumers) # Consumers)'
        BY <3>3, <3>5
      <4>2. (Sleeping(Producers) # Producers)'
        BY <3>1, <3>5 DEF Sleeping
      <4> QED
        BY <4>1, <4>2 DEF NobodyForgotten
    <3>6. CASE t \notin Producers
      <4>1. (Sleeping(Producers) # Producers)'
        BY <3>3, <3>6
      <4>2. t \in Consumers
        BY <3>6 DEF Threads
      <4>3. (Sleeping(Consumers) # Consumers)'
        BY <3>1, <4>2 DEF Sleeping
      <4> QED
        BY <4>1, <4>3 DEF NobodyForgotten
    <3> QED
      BY <3>5, <3>6
  <2>4. CASE t \in Producers /\ Put(t)
    <3>1. pc'[t] = "signal"
      BY <2>4 DEF Put, Goto, TypeOK, Threads
    <3>2. (Sleeping(Producers) # Producers)'
      BY <2>4, <3>1 DEF Sleeping
    <3> QED
      BY <2>4, <3>1, <3>2 DEF NobodyForgotten
  <2>5. CASE t \in Consumers /\ Take(t)
    <3>1. pc'[t] = "signal"
      BY <2>5 DEF Take, Goto, TypeOK, Threads
    <3>2. (Sleeping(Consumers) # Consumers)'
      BY <2>5, <3>1 DEF Sleeping
    <3> QED
      BY <2>5, <3>1, <3>2 DEF NobodyForgotten
  <2> QED
    BY <2>1, <2>2, <2>3, <2>4, <2>5
<1> QED
  BY <1>1, <1>2
-----------------------------------------------------------------------------
(* The queue *)

LEMMA InitRefines ==
  ASSUME Init
  PROVE  Abstract!Init
<1>1. Queue = <<>>
  BY DEF Init, Queue
<1> QED
  BY <1>1, AnItemIsOne DEF Init, Abstract!Init, Threads

LEMMA QueueIsSeq ==
  ASSUME TypeOK
  PROVE  /\ Queue \in Seq(Items) /\ Len(Queue) = count
         /\ DOMAIN Queue = 1 .. count
<1>1. \A i \in 1 .. count : (out + i - 1) % BufferSize \in Slots
  <2>1. ASSUME NEW i \in 1 .. count PROVE (out + (i - 1)) % BufferSize \in Slots
    <3>1. i - 1 \in 0 .. BufferSize
      BY ThreadsAssumption DEF TypeOK
    <3> QED
      BY <3>1, Wrap DEF TypeOK
  <2>2. ASSUME NEW i \in 1 .. count PROVE out + i - 1 = out + (i - 1)
    BY ThreadsAssumption DEF TypeOK, Slots
  <2> QED
    BY <2>1, <2>2
<1>2. \A i \in 1 .. count : buffer[(out + i - 1) % BufferSize] \in Items
  BY <1>1 DEF TypeOK
<1> QED
  BY <1>2 DEF TypeOK, Queue

LEMMA PutRefines ==
  ASSUME Inv, NEW p \in Producers, Put(p)
  PROVE  Abstract!Put
<1>1. TypeOK /\ Locking
  BY DEF Inv
<1>2. count \in 0 .. BufferSize - 1 /\ count' = count + 1
  BY <1>1, ThreadsAssumption DEF Put, Locking, MustWait, TypeOK, Threads
<1>3. Len(Queue) < BufferSize
  BY <1>1, <1>2, QueueIsSeq, ThreadsAssumption
<1>4. \A i \in 1 .. count : (out + i - 1) % BufferSize # in
  <2>1. ASSUME NEW i \in 1 .. count PROVE (out + i - 1) % BufferSize # in
    <3> DEFINE k == i - 1
    <3>1. k \in 0 .. count - 1 /\ k \in 0 .. BufferSize /\ out + i - 1 = out + k
      BY <1>1, <1>2, ThreadsAssumption DEF TypeOK, Slots
    <3> HIDE DEF k
    <3>2. (out + k) % BufferSize = IF out + k < BufferSize THEN out + k ELSE out + k - BufferSize
      BY <1>1, <3>1, Wrap DEF TypeOK
    <3>3. in = IF out + count < BufferSize THEN out + count ELSE out + count - BufferSize
      BY <1>1, <1>2, Wrap DEF TypeOK, Locking
    <3>4. (out + k) % BufferSize # in
      BY <1>1, <1>2, <3>1, <3>2, <3>3, ThreadsAssumption DEF TypeOK, Slots
    <3> QED
      BY <3>1, <3>4
  <2> QED
    BY <2>1
<1>5. \A i \in 1 .. count : Queue'[i] = Queue[i]
  <2>1. \A i \in 1 .. count : buffer'[(out + i - 1) % BufferSize] = buffer[(out + i - 1) % BufferSize]
    BY <1>1, <1>4 DEF Put, TypeOK
  <2>2. out' = out
    BY DEF Put
  <2> QED
    BY <1>2, <2>1, <2>2 DEF Queue
<1>6. Queue'[count + 1] = item[p]
  <2>1. (out + (count + 1) - 1) % BufferSize = in
    BY <1>1, <1>2 DEF Locking, TypeOK, Slots
  <2>2. buffer'[in] = item[p]
    BY <1>1 DEF Put, TypeOK
  <2>3. out' = out
    BY DEF Put
  <2> QED
    BY <1>2, <2>1, <2>2, <2>3 DEF Queue
<1>7. Queue' = Append(Queue, item[p])
  <2>1. Queue' = [i \in 1 .. count + 1 |-> Queue'[i]]
    BY <1>2 DEF Queue
  <2>2. Append(Queue, item[p]) = [i \in 1 .. count + 1 |-> IF i <= count THEN Queue[i] ELSE item[p]]
    BY <1>1, <1>2, QueueIsSeq DEF TypeOK, Threads
  <2>3. \A i \in 1 .. count + 1 : Queue'[i] = IF i <= count THEN Queue[i] ELSE item[p]
    BY <1>2, <1>5, <1>6
  <2> HIDE DEF Queue
  <2> QED
    BY <2>1, <2>2, <2>3
<1> QED
  BY <1>3, <1>7 DEF Abstract!Put, Put

LEMMA TakeRefines ==
  ASSUME Inv, NEW c \in Consumers, Take(c)
  PROVE  Abstract!Take
<1>1. TypeOK /\ Locking
  BY DEF Inv
<1>2. count \in 1 .. BufferSize /\ count' = count - 1
  BY <1>1, ThreadsAssumption DEF Take, Locking, MustWait, TypeOK, Threads
<1>3. Queue # <<>> /\ Head(Queue) = Queue[1] /\ Len(Queue) = count /\ Queue \in Seq(Items)
  BY <1>1, <1>2, QueueIsSeq
<1>4. Queue[1] = buffer[out]
  <2>1. out + 1 - 1 = out /\ out \in 0 .. 2 * BufferSize - 1 /\ out < BufferSize
    BY <1>1, ThreadsAssumption DEF TypeOK, Slots
  <2>2. out % BufferSize = out
    BY <2>1, ModTwice, ThreadsAssumption
  <2> QED
    BY <1>2, <2>1, <2>2 DEF Queue
<1>5. ASSUME NEW i \in 1 .. count - 1
      PROVE  (out' + i - 1) % BufferSize = (out + (i + 1) - 1) % BufferSize
  <2> DEFINE k == i - 1
             next == (out + 1) % BufferSize
  <2>1. /\ k \in 0 .. BufferSize /\ i \in 0 .. BufferSize /\ i = k + 1
        /\ 1 \in 0 .. BufferSize
    BY <1>1, <1>2, ThreadsAssumption DEF TypeOK, Slots
  <2>2. /\ next = IF out + 1 < BufferSize THEN out + 1 ELSE out + 1 - BufferSize
        /\ next \in Slots
    BY <1>1, <2>1, Wrap DEF TypeOK
  <2>3. out' = next
    BY DEF Take
  <2> HIDE DEF k, next
  <2>4. (next + k) % BufferSize
          = IF next + k < BufferSize THEN next + k ELSE next + k - BufferSize
    BY <2>1, <2>2, Wrap
  <2>5. (out + i) % BufferSize = IF out + i < BufferSize THEN out + i ELSE out + i - BufferSize
    BY <1>1, <2>1, Wrap DEF TypeOK
  <2>6. (next + k) % BufferSize = (out + i) % BufferSize
    BY <1>1, <2>1, <2>2, <2>4, <2>5, ThreadsAssumption DEF TypeOK, Slots
  <2>7. next + i - 1 = next + k /\ out + (i + 1) - 1 = out + i
    BY <1>1, <2>1, <2>2 DEF TypeOK, Slots
  <2> QED
    BY <2>3, <2>6, <2>7
<1>6. Queue' = Tail(Queue)
  <2>1. Tail(Queue) = [i \in 1 .. count - 1 |-> Queue[i + 1]]
    <3> DEFINE q == Queue
    <3>1. q \in Seq(Items) /\ Len(q) = count /\ q # <<>>
      BY <1>3
    <3> HIDE DEF q
    <3>2. Tail(q) \in Seq(Items) /\ Len(Tail(q)) = count - 1
      BY <1>2, <3>1
    <3>3. Tail(q) \in [1 .. count - 1 -> Items]
      BY <3>2, LenProperties
    <3>4. \A i \in 1 .. count - 1 : Tail(q)[i] = q[i + 1]
      BY <1>2, <3>1
    <3> QED
      BY <3>3, <3>4 DEF q
  <2>2. \A i \in 1 .. count - 1 : Queue[i + 1] = buffer[(out + (i + 1) - 1) % BufferSize]
    BY <1>2 DEF Queue
  <2>3. \A i \in 1 .. count - 1 : Queue[i + 1] = buffer[(out' + i - 1) % BufferSize]
    BY <1>5, <2>2
  <2>4. Queue' = [i \in 1 .. count - 1 |-> buffer[(out' + i - 1) % BufferSize]]
    BY <1>2 DEF Queue, Take
  <2> QED
    BY <2>1, <2>3, <2>4
<1> QED
  BY <1>3, <1>4, <1>6 DEF Abstract!Take, Take

\* Every step is a step of the queue or leaves it alone.
LEMMA NextRefines ==
  ASSUME Inv, [Next]_vars
  PROVE  [Abstract!Next]_Abstract!vars
<1>1. CASE UNCHANGED vars
  BY <1>1 DEF vars, ring, Abstract!vars, Queue
<1>2. CASE Next
  <2>1. PICK t \in Threads :
          Quiet(t) \/ Signal(t) \/ (t \in Producers /\ Put(t)) \/ (t \in Consumers /\ Take(t))
    BY <1>2, StepCases
  <2>2. CASE t \in Producers /\ Produce(t)
    <3>1. Queue' = Queue
      BY <2>2 DEF Produce, ring, Queue
    <3> QED
      BY <2>2, <3>1 DEF Produce, Abstract!Next, Abstract!Produce
  <2>3. CASE ~(t \in Producers /\ Produce(t)) /\ (Quiet(t) \/ Signal(t))
    BY <2>3 DEF Quiet, Lock, Relock, Wait, Pass, WakeUnasked, Unlock, Signal, ring,
                Abstract!vars, Queue
  <2>4. CASE t \in Producers /\ Put(t)
    BY <2>4, PutRefines DEF Abstract!Next
  <2>5. CASE t \in Consumers /\ Take(t)
    BY <2>5, TakeRefines DEF Abstract!Next
  <2> QED
    BY <2>1, <2>2, <2>3, <2>4, <2>5
<1> QED
  BY <1>1, <1>2

-----------------------------------------------------------------------------
(* The theorems *)

\* Inv is inductive.
THEOREM ProConInv == Spec => []Inv
<1>1. Inv /\ [Next]_vars => Inv'
  BY NextTypeOK, NextLocking, NextNobodyForgotten DEF Inv
<1> QED
  BY InitInv, <1>1, PTL DEF Spec

\* The indices stay in the buffer and count between zero and BUFFER_SIZE,
\* whatever the number of threads and the wakeups without a signal.
THEOREM ProConTypeOK == Spec => []TypeOK
<1>1. Inv => TypeOK
  BY DEF Inv
<1> QED
  BY ProConInv, <1>1, PTL

\* No wakeup of pro_con.c is lost.
THEOREM ProConNobodyForgotten == Spec => []NobodyForgotten
<1>1. Inv => NobodyForgotten
  BY DEF Inv
<1> QED
  BY ProConInv, <1>1, PTL

\* The ring buffer, its mutex and condition variables implement a bounded
\* first-in first-out queue.
THEOREM ProConImplementsQueue == Spec => ImplementsQueue
BY ProConInv, InitRefines, NextRefines, PTL DEF Spec, ImplementsQueue, Abstract!Spec
=============================================================================
