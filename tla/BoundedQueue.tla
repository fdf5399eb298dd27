----------------------------- MODULE BoundedQueue -----------------------------
(***************************************************************************)
(* What the producers and consumers of Thread/pro_con.c share, without the *)
(* ring buffer, the mutex and the condition variables: a first-in          *)
(* first-out queue that never holds more than Size items.  ProCon is shown *)
(* to implement this module.                                               *)
(***************************************************************************)
EXTENDS Naturals, Sequences

CONSTANTS Producers, Consumers, Items, Size

VARIABLES
  queue,  \* the items put and not taken, oldest first
  item    \* the item each thread put or took last, or is about to put

vars == <<queue, item>>

Init ==
  /\ queue = <<>>
  /\ item \in [Producers \cup Consumers -> Items]

Produce ==
  /\ \E p \in Producers, v \in Items : item' = [item EXCEPT ![p] = v]
  /\ UNCHANGED queue

Put ==
  /\ Len(queue) < Size
  /\ \E p \in Producers : queue' = Append(queue, item[p])
  /\ UNCHANGED item

Take ==
  /\ queue # <<>>
  /\ \E c \in Consumers : item' = [item EXCEPT ![c] = Head(queue)]
  /\ queue' = Tail(queue)

Next == Produce \/ Put \/ Take

Spec == Init /\ [][Next]_vars
=============================================================================
