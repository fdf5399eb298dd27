-------------------------------- MODULE ProCon --------------------------------
(***************************************************************************)
(* The producers and consumers of Thread/pro_con.c: a ring buffer behind a *)
(* mutex, with the condition variables not_full and not_empty.             *)
(*                                                                         *)
(* The buffer, its indices and its size would be declared by pro_con.h,    *)
(* which is empty; they are modelled from their use.  The mutex and the    *)
(* condition variables are the system's (pthread's, or those of Windows):  *)
(* waiting gives the mutex up and sleeps in one step, a signal wakes one   *)
(* sleeper if there is any, a sleeper may wake without a signal, and       *)
(* whoever wakes takes the mutex again before it goes on.                  *)
(***************************************************************************)
EXTENDS Naturals, Sequences

CONSTANTS
  Producers, Consumers,  \* the threads
  Items,                 \* what rand() % 100 gives
  BufferSize,            \* BUFFER_SIZE
  Nobody                 \* no thread: the owner of a free mutex

Threads == Producers \cup Consumers

ASSUME ThreadsAssumption ==
  /\ Producers # {} /\ Consumers # {} /\ Producers \cap Consumers = {}
  /\ Nobody \notin Threads
  /\ BufferSize \in Nat \ {0} /\ Items # {}

VARIABLES
  buffer, in, out, count,  \* the ring buffer
  mutex,                   \* who holds the mutex
  pc,                      \* where each thread is
  item                     \* each thread's local variable item

ring == <<buffer, in, out, count>>
vars == <<ring, mutex, pc, item>>

Slots == 0 .. BufferSize - 1
AnItem == CHOOSE v \in Items : TRUE  \* what static memory begins with
Start(t) == IF t \in Producers THEN "produce" ELSE "lock"

Init ==
  /\ buffer = [s \in Slots |-> AnItem]
  /\ in = 0 /\ out = 0 /\ count = 0
  /\ mutex = Nobody
  /\ pc = [t \in Threads |-> Start(t)]
  /\ item = [t \in Threads |-> AnItem]

Goto(t, place) == pc' = [pc EXCEPT ![t] = place]

Produce(p) ==
  /\ pc[p] = "produce"
  /\ \E v \in Items : item' = [item EXCEPT ![p] = v]
  /\ Goto(p, "lock")
  /\ UNCHANGED <<ring, mutex>>

Lock(t) ==
  /\ pc[t] = "lock" /\ mutex = Nobody
  /\ mutex' = t
  /\ Goto(t, "test")
  /\ UNCHANGED <<ring, item>>

\* The conditions of the two while loops.
MustWait(t) == IF t \in Producers THEN count = BufferSize ELSE count = 0

\* pthread_cond_wait on not_full (a producer) or not_empty (a consumer).
Wait(t) ==
  /\ pc[t] = "test" /\ MustWait(t)
  /\ mutex' = Nobody
  /\ Goto(t, "asleep")
  /\ UNCHANGED <<ring, item>>

Pass(t) ==
  /\ pc[t] = "test" /\ ~MustWait(t)
  /\ Goto(t, "act")
  /\ UNCHANGED <<ring, mutex, item>>

WakeUnasked(t) ==
  /\ pc[t] = "asleep"
  /\ Goto(t, "woken")
  /\ UNCHANGED <<ring, mutex, item>>

AfterWait_Act == "act"  \* Mutant: if instead of while.
AfterWait == "test"

\* The end of pthread_cond_wait; the loop then tests its condition again.
Relock(t) ==
  /\ pc[t] = "woken" /\ mutex = Nobody
  /\ mutex' = t
  /\ Goto(t, AfterWait)
  /\ UNCHANGED <<ring, item>>

Put(p) ==
  /\ pc[p] = "act"
  /\ buffer' = [buffer EXCEPT ![in] = item[p]]
  /\ in' = (in + 1) % BufferSize
  /\ count' = count + 1
  /\ Goto(p, "signal")
  /\ UNCHANGED <<out, mutex, item>>

Take_Same(c) ==  \* Mutant: out is not advanced.
  /\ pc[c] = "act"
  /\ item' = [item EXCEPT ![c] = buffer[out]]
  /\ count' = count - 1
  /\ Goto(c, "signal")
  /\ UNCHANGED <<buffer, in, out, mutex>>

Take(c) ==
  /\ pc[c] = "act"
  /\ item' = [item EXCEPT ![c] = buffer[out]]
  /\ out' = (out + 1) % BufferSize
  /\ count' = count - 1
  /\ Goto(c, "signal")
  /\ UNCHANGED <<buffer, in, mutex>>

Sleeping(S) == {t \in S : pc[t] = "asleep"}
Waiters_Own(t) ==  \* Mutant: the two condition variables are swapped.
  Sleeping(IF t \in Producers THEN Producers ELSE Consumers)
Waiters_None(t) == {}  \* Mutant: the signal is forgotten.
\* A producer signals not_empty, a consumer not_full.
Waiters(t) == Sleeping(IF t \in Producers THEN Consumers ELSE Producers)

Signal(t) ==
  /\ pc[t] = "signal"
  /\ IF Waiters(t) = {} THEN Goto(t, "unlock")
     ELSE \E s \in Waiters(t) : pc' = [pc EXCEPT ![t] = "unlock", ![s] = "woken"]
  /\ UNCHANGED <<ring, mutex, item>>

\* Also the sleep(1) that follows, and the next turn of the thread's loop.
Unlock(t) ==
  /\ pc[t] = "unlock"
  /\ mutex' = Nobody
  /\ Goto(t, Start(t))
  /\ UNCHANGED <<ring, item>>

Acquire(t) == Lock(t) \/ Relock(t)
Proceed(t) ==
  \/ Wait(t) \/ Pass(t) \/ Signal(t) \/ Unlock(t)
  \/ t \in Producers /\ (Produce(t) \/ Put(t))
  \/ t \in Consumers /\ Take(t)

Next == \E t \in Threads : Acquire(t) \/ Proceed(t) \/ WakeUnasked(t)

\* Threads run, and a thread that wants a mutex gets it if it is free time and
\* again: everybody sleeps for a second between two uses.
Spec == Init /\ [][Next]_vars
             /\ \A t \in Threads : WF_vars(Proceed(t)) /\ SF_vars(Acquire(t))

-----------------------------------------------------------------------------
(* Properties *)

Places == {"produce", "lock", "test", "asleep", "woken", "act", "signal", "unlock"}

\* Every variable has its type: the indices stay in the buffer, and count
\* between zero and its size, with any number of threads and wakeups.
TypeOK ==
  /\ buffer \in [Slots -> Items]
  /\ in \in Slots /\ out \in Slots /\ count \in 0 .. BufferSize
  /\ mutex \in Threads \cup {Nobody}
  /\ pc \in [Threads -> Places]
  /\ item \in [Threads -> Items]

\* No wakeup is lost: the consumers never all sleep while there is an item to
\* take, nor the producers while there is room, unless the thread that put or
\* took it is just about to signal.
NobodyForgotten ==
  /\ count > 0 /\ Sleeping(Consumers) = Consumers =>
       \E t \in Producers : pc[t] = "signal"
  /\ count < BufferSize /\ Sleeping(Producers) = Producers =>
       \E t \in Consumers : pc[t] = "signal"

\* The queue the ring buffer stands for, oldest item first.
Queue == [i \in 1 .. count |-> buffer[(out + i - 1) % BufferSize]]

Abstract == INSTANCE BoundedQueue WITH queue <- Queue, Size <- BufferSize

\* The threads share a first-in first-out queue of at most BUFFER_SIZE items:
\* none is lost, duplicated, overwritten or taken out of order.
ImplementsQueue == Abstract!Spec

\* The threads never all wait for each other: items are put for ever (and so
\* taken), although no single thread is promised its turn.
KeepsMoving == []<><<\E p \in Producers : Put(p)>>_vars

\* What holds where a thread is inside its critical section, and what ties
\* the indices together: the rest of the inductive invariant.
Inside == {"test", "act", "signal", "unlock"}
Locking ==
  /\ \A t \in Threads : pc[t] \in Inside <=> mutex = t
  /\ \A t \in Threads : pc[t] = "act" => ~MustWait(t)
  /\ in = (out + count) % BufferSize
Inv == TypeOK /\ Locking /\ NobodyForgotten
=============================================================================
