------------------------------- MODULE PhysMem -------------------------------
(***************************************************************************)
(* The physical memory manager, kernal/mem/phymem.c: a bitmap with one bit *)
(* per block (1 = in use), filled from the firmware's E820 map at boot and *)
(* then searched and toggled by pmmngr_allocate_block/pmmngr_free_block.   *)
(*                                                                         *)
(* The bitmap is modelled by the set of blocks whose bit is 1, so that the *)
(* code's exclusive-or of a mask is the symmetric difference with the set  *)
(* of blocks the mask covers.  Addresses are naturals below AddrSpace and  *)
(* wrap there as uint32_t does: the bitmap covers the address space        *)
(* exactly (0x8000 words x 32 bits x 4096 bytes = 2^32).                   *)
(***************************************************************************)
EXTENDS Naturals, Sequences, FiniteSetsExt

CONSTANTS
  WordBits,    \* bits in a bitmap word: 32
  NumWords,    \* words in the bitmap: 0x8000
  BlockSize,   \* bytes in a block: 4096
  KernelStart, \* KERNEL_P
  KernelSize,  \* KERNEL_MAPPED_SIZE
  Maps         \* the E820 maps considered: sequences of entries

NumBlocks == WordBits * NumWords
AddrSpace == NumBlocks * BlockSize
Addrs     == 0 .. AddrSpace - 1
Blocks    == 0 .. NumBlocks - 1

BlockNumber(a) == a \div BlockSize
BlockAddress(b) == b * BlockSize
PageAligned(a) == a % BlockSize = 0

\* start_low, size_low, start_high and type of mmap_entry_t; pmmngr_init reads
\* no other field (a length of 4 GB or more is cut to its low half).
Entry == [start : Addrs, size : Addrs, high : {0, 1}, type : {1, 2}]

\* The kernel's range is made of whole bitmap words, as KERNEL_P and
\* KERNEL_MAPPED_SIZE are, and does not begin at address 0.
ASSUME SizesAssumption ==
  /\ WordBits \in Nat \ {0} /\ NumWords \in Nat \ {0} /\ BlockSize \in Nat \ {0}
  /\ KernelStart \in Addrs \ {0} /\ KernelSize \in Addrs
  /\ PageAligned(KernelStart) /\ PageAligned(KernelSize)
  /\ BlockNumber(KernelStart) % WordBits = 0
  /\ BlockNumber(KernelStart) + BlockNumber(KernelSize) <= NumBlocks
ASSUME MapsAssumption == \A m \in Maps : m \in Seq(Entry)

VARIABLES
  mmap,   \* the map stage 2 left at PMMAP
  phase,  \* "map" while pmmngr_init runs, then "ready"
  next,   \* the index of the entry pmmngr_init reads next
  used,   \* physical_memory_bitmap: the blocks whose bit is 1
  held,   \* blocks callers were granted and have not freed (not in the code)
  reply   \* the last call, its argument and its answer

vars == <<mmap, phase, next, used, held, reply>>

PageDown(a) == a - (a % BlockSize)
PageUp(a)   == IF PageAligned(a) THEN a
               ELSE (a + (BlockSize - (a % BlockSize))) % AddrSpace

(***************************************************************************)
(* The loop of pmmngr_toggle_range, one turn after another: the bits it    *)
(* has flipped, the block `start' is in, and the blocks from there to      *)
(* `end'.  A turn flips the whole word that holds `start' when a word or   *)
(* more is left, and one bit otherwise.  A loop over n blocks is over      *)
(* after n turns at most.                                                  *)
(***************************************************************************)
WordOf(b) == {c \in Blocks : c \div WordBits = b \div WordBits}

LoopTurn(l) ==
  IF l.left = 0 THEN l
  ELSE IF l.left >= WordBits
       THEN [flipped |-> SymDiff(l.flipped, WordOf(l.start)),
             start |-> (l.start + WordBits) % NumBlocks, left |-> l.left - WordBits]
       ELSE [flipped |-> SymDiff(l.flipped, {l.start}),
             start |-> (l.start + 1) % NumBlocks, left |-> l.left - 1]

ToggleLoop(s, n) ==
  LET turn[k \in 0 .. n] == IF k = 0 THEN [flipped |-> {}, start |-> s, left |-> n]
                            ELSE LoopTurn(turn[k - 1])
  IN  turn[n].flipped

(***************************************************************************)
(* What the loop flips for n blocks of which s is the first: the words     *)
(* from the one holding s, then the n % WordBits last blocks.  TLC         *)
(* compares it with the loop (MCPhysMem), and PhysMemProofs proves them    *)
(* equal.                                                                  *)
(***************************************************************************)
FlippedBy(s, n) ==
  LET whole == n - (n % WordBits)
      first == s - (s % WordBits)
  IN  SymDiff({b % NumBlocks : b \in first .. (first + whole - 1)},
              {b % NumBlocks : b \in (s + whole) .. (s + n - 1)})

RangeBlocks(start, end) ==
  LET from == PageDown(start)
  IN  FlippedBy(BlockNumber(from),
                BlockNumber((PageUp(end) + AddrSpace - from) % AddrSpace))

ToggleRange(u, start, end) == SymDiff(u, RangeBlocks(start, end))
\* Mutant: the address is passed where the block number is expected.
ToggleBlock_Address(u, b) == SymDiff(u, {BlockAddress(b)})
ToggleBlock(u, b) == SymDiff(u, {b})

\* Mutant: the high half of the start is not tested.
\* The entries pmmngr_init acts on: available RAM in the low 4 GB that does
\* not begin below the kernel.
Usable(e) == e.type = 1 /\ e.start >= KernelStart /\ e.high = 0

Reply(op, arg, val) == [op |-> op, arg |-> arg, val |-> val]

Init ==
  /\ mmap \in Maps
  /\ phase = "map"
  /\ next = 1
  /\ used = Blocks
  /\ held = {}
  /\ reply = Reply("boot", 0, 0)

\* One iteration of pmmngr_init's loop over the map.
ReadEntry ==
  /\ phase = "map"
  /\ next <= Len(mmap)
  /\ LET e == mmap[next]
     IN  used' = IF Usable(e)
                 THEN ToggleRange(used, e.start, (e.start + e.size) % AddrSpace)
                 ELSE used
  /\ next' = next + 1
  /\ UNCHANGED <<mmap, phase, held, reply>>

\* Mutant: the kernel's range is given by its size instead of its end.
KernelRange_Size == RangeBlocks(KernelStart, KernelSize)
KernelRange == RangeBlocks(KernelStart, (KernelStart + KernelSize) % AddrSpace)

\* pmmngr_init's last step: the kernel's own blocks, free until here, are
\* toggled back.

ReserveKernel ==
  /\ phase = "map"
  /\ next > Len(mmap)
  /\ used' = SymDiff(used, KernelRange)
  /\ phase' = "ready"
  /\ UNCHANGED <<mmap, next, held, reply>>

\* pmmngr_allocate_block searches the words in order for one that is not full
\* and takes its lowest clear bit: the lowest free block of all.
LowestFree(b) == b \notin used /\ 0 .. b - 1 \subseteq used

AllocateBlock_Unmarked ==  \* Mutant: the block found is not toggled.
  /\ phase = "ready"
  /\ \E b \in Blocks :
       /\ LowestFree(b)
       /\ held' = held \cup {b}
       /\ reply' = Reply("alloc", 0, BlockAddress(b))
  /\ UNCHANGED <<mmap, phase, next, used>>

AllocateBlock ==
  /\ phase = "ready"
  /\ \E b \in Blocks :
       /\ LowestFree(b)
       /\ used' = ToggleBlock(used, b)
       /\ held' = held \cup {b}
       /\ reply' = Reply("alloc", 0, BlockAddress(b))
  /\ UNCHANGED <<mmap, phase, next>>

AllocateFails ==
  /\ phase = "ready"
  /\ used = Blocks
  /\ reply' = Reply("alloc", 0, 0)
  /\ UNCHANGED <<mmap, phase, next, used, held>>

(***************************************************************************)
(* pmmngr_free_block(a).  What a caller may pass: any address that is not  *)
(* a block's, a block it holds, and a block that is already free (a second *)
(* return).  Nothing in the code stops a caller from returning a reserved  *)
(* block, which would put it in the pool; no caller is assumed to.         *)
(***************************************************************************)
MayPass(a) == PageAligned(a) => BlockNumber(a) \in held \cup (Blocks \ used)

Accepted_AnyBit(a) == PageAligned(a)  \* Mutant: the bit is not tested.
Accepted(a) == PageAligned(a) /\ BlockNumber(a) \in used

FreeBlock(a) ==
  /\ phase = "ready"
  /\ MayPass(a)
  /\ Accepted(a)
  /\ used' = ToggleBlock(used, BlockNumber(a))
  /\ held' = held \ {BlockNumber(a)}
  /\ reply' = Reply("free", a, 1)
  /\ UNCHANGED <<mmap, phase, next>>

\* The two early returns: an unaligned address, and a block already free.
FreeRejected(a) ==
  /\ phase = "ready"
  /\ MayPass(a)
  /\ ~Accepted(a)
  /\ reply' = Reply("free", a, 0)
  /\ UNCHANGED <<mmap, phase, next, used, held>>

Next ==
  \/ ReadEntry
  \/ ReserveKernel
  \/ AllocateBlock
  \/ AllocateFails
  \/ \E a \in Addrs : FreeBlock(a) \/ FreeRejected(a)

Spec == Init /\ [][Next]_vars

-----------------------------------------------------------------------------
(* What the map says is free, stated without the toggling. *)

BlockRange(start, size) ==
  BlockNumber(start) .. (BlockNumber(start) + BlockNumber(size) - 1)

UsableAt(m) ==
  {i \in DOMAIN m : m[i].type = 1 /\ m[i].high = 0 /\ m[i].start >= KernelStart}
UsableBlocks(m, I) == UNION {BlockRange(m[i].start, m[i].size) : i \in I}
KernelBlocks == BlockRange(KernelStart, KernelSize)

\* The blocks the manager should hand out under map m.
Available(m) == UsableBlocks(m, UsableAt(m)) \ KernelBlocks

\* A map as firmware hands it over, with page-aligned usable ranges that do
\* not overlap, end within the address space and contain the kernel.
CleanMap(m) ==
  /\ \A i \in UsableAt(m) :
       /\ PageAligned(m[i].start) /\ PageAligned(m[i].size)
       /\ BlockNumber(m[i].start) + BlockNumber(m[i].size) <= NumBlocks
  /\ \A i, j \in UsableAt(m) :
       i # j => BlockRange(m[i].start, m[i].size)
                  \cap BlockRange(m[j].start, m[j].size) = {}
  /\ KernelBlocks \subseteq UsableBlocks(m, UsableAt(m))

\* What the toggling needs besides: a usable range that is a bitmap word long
\* or longer begins on a word boundary (128 KB in the real bitmap).
WordAligned(m) ==
  \A i \in UsableAt(m) : \/ BlockNumber(m[i].start) % WordBits = 0
                         \/ BlockNumber(m[i].size) < WordBits

-----------------------------------------------------------------------------
(* Properties *)

Replies == [op : {"boot", "alloc", "free"}, arg : Addrs, val : Addrs \cup {1}]

\* Every variable has its type: the bitmap is a set of existing blocks and
\* pmmngr_init reads no entry beyond the map.
TypeOK ==
  /\ mmap \in Maps
  /\ phase \in {"map", "ready"}
  /\ next \in 1 .. Len(mmap) + 1
  /\ used \subseteq Blocks
  /\ held \subseteq Blocks
  /\ reply \in Replies

FreeBlocks == Blocks \ used

\* The pool is exact: clear bits and granted blocks are disjoint and together
\* are the blocks the map makes available, less the kernel's.
PoolExact ==
  /\ FreeBlocks \cap held = {}
  /\ FreeBlocks \cup held = Available(mmap)

\* Under a clean, word-aligned map no block is lost, granted twice or granted
\* although firmware or the kernel owns it, whatever the order of
\* pmmngr_allocate_block and pmmngr_free_block calls (repeated frees too).
PoolConserved ==
  phase = "ready" /\ CleanMap(mmap) /\ WordAligned(mmap) => PoolExact

\* The same without the alignment to bitmap words: what "4 KiB alignment, and
\* bitmap range toggling" of README.md promises of pmmngr_toggle_range.
PoolConserved4K == phase = "ready" /\ CleanMap(mmap) => PoolExact

\* Whatever the map, a block a caller holds has its bit set, so the search of
\* pmmngr_allocate_block cannot grant it to a second caller.
HeldIsMarked == held \subseteq used

\* While pmmngr_init walks the map, exactly the usable entries already read
\* are clear: no entry's toggling undoes another's.
MapProgress ==
  phase = "map" =>
    /\ held = {}
    /\ CleanMap(mmap) /\ WordAligned(mmap) =>
         FreeBlocks = UsableBlocks(mmap, {i \in UsableAt(mmap) : i < next})

\* The inductive invariant of the proofs.
Inv == TypeOK /\ HeldIsMarked /\ MapProgress /\ PoolConserved

(***************************************************************************)
(* The abstract pool: while the map is read the pool is what it will be,   *)
(* nothing being granted before.                                           *)
(***************************************************************************)
Pool == INSTANCE BlockPool WITH
  managed <- Available(mmap),
  pool    <- IF phase = "ready" THEN FreeBlocks ELSE Available(mmap)

PoolVars == <<Available(mmap),
              IF phase = "ready" THEN FreeBlocks ELSE Available(mmap),
              held, reply>>

\* pmmngr_init, pmmngr_allocate_block and pmmngr_free_block implement the
\* abstract pool of blocks when the map is clean and word-aligned: Pool!Spec
\* with that condition on the map, which never changes, inside its parts.
ImplementsPool ==
  /\ CleanMap(mmap) /\ WordAligned(mmap) => Pool!Init
  /\ [][CleanMap(mmap) /\ WordAligned(mmap) => Pool!Next]_PoolVars
=============================================================================
