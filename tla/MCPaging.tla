------------------------------- MODULE MCPaging -------------------------------
(***************************************************************************)
(* Paging with tables of six entries: six frames of low memory, one for    *)
(* each thing the kernel has there, six of the kernel's and at most three  *)
(* to allocate: one for the stack's table and two that callers' pages and  *)
(* their tables compete for.  One page of callers' is a page the boot's    *)
(* stack is in before the identity map goes.                               *)
(***************************************************************************)
EXTENDS Paging

Zeros == [k \in Slots |-> [frame |-> 0, present |-> FALSE, writable |-> FALSE]]
\* What looks like a table of pages all in the first frame of the pool.
Junk  == [k \in Slots |-> [frame |-> KernelFrame + PerTable, present |-> TRUE, writable |-> TRUE]]

MCLeftovers == {Zeros, Junk}
MCPools == {{}, {12}, {12, 13, 14}}
MCCallerPages == {<<0, 1>>, <<3, 0>>, <<3, 1>>, <<KernelSlot, 4>>}
=============================================================================
