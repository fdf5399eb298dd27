------------------------------ MODULE BlockPool ------------------------------
(***************************************************************************)
(* What the physical memory manager promises its callers, with the bitmap, *)
(* the firmware map and the search order left out: a fixed set of blocks   *)
(* is managed; each of them is at any time either in the pool or held by   *)
(* one caller; a request fails, answering the null address, only when the  *)
(* pool is empty; only the address of a block that is held can be given    *)
(* back, and it always can.  PhysMem is shown to implement this module.    *)
(***************************************************************************)
EXTENDS Naturals

CONSTANTS
  Blocks,     \* block numbers
  BlockSize,  \* bytes in a block: a block is granted by its address
  Addrs       \* the addresses callers may pass back

VARIABLES
  managed,    \* the blocks this pool was given; never changes
  pool,       \* blocks nobody holds
  held,       \* blocks granted and not yet returned
  reply       \* the last call, its argument and its answer

vars == <<managed, pool, held, reply>>

BlockAddress(b) == b * BlockSize
Reply(op, arg, val) == [op |-> op, arg |-> arg, val |-> val]

\* Block 0 is never managed, so that its address can mean "no memory".
Init ==
  /\ managed \in SUBSET (Blocks \ {0})
  /\ pool = managed
  /\ held = {}
  /\ reply = Reply("boot", 0, 0)

Take ==
  /\ \E b \in pool :
       /\ pool' = pool \ {b}
       /\ held' = held \cup {b}
       /\ reply' = Reply("alloc", 0, BlockAddress(b))
  /\ UNCHANGED managed

TakeFails ==
  /\ pool = {}
  /\ reply' = Reply("alloc", 0, 0)
  /\ UNCHANGED <<managed, pool, held>>

Give ==
  /\ \E b \in held :
       /\ pool' = pool \cup {b}
       /\ held' = held \ {b}
       /\ reply' = Reply("free", BlockAddress(b), 1)
  /\ UNCHANGED managed

\* Rejected: a second return of the same block, or no block's address.
GiveRejected ==
  /\ \E a \in Addrs :
       /\ \A b \in held : a # BlockAddress(b)
       /\ reply' = Reply("free", a, 0)
  /\ UNCHANGED <<managed, pool, held>>

Next == Take \/ TakeFails \/ Give \/ GiveRejected

Spec == Init /\ [][Next]_vars
=============================================================================
