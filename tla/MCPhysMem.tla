------------------------------ MODULE MCPhysMem ------------------------------
(***************************************************************************)
(* PhysMem on a bitmap of four words of four bits, blocks of two bytes and *)
(* a kernel of one word at block 4.                                        *)
(***************************************************************************)
EXTENDS PhysMem

\* FlippedBy is the loop, for every range the 32-bit arithmetic can produce.
ASSUME ToggleRangeIsTheLoop ==
  \A s \in Blocks, n \in 0 .. NumBlocks - 1 :
    FlippedBy(s, n) = ToggleLoop(s, n)

Ram(start, size)      == [start |-> start, size |-> size, high |-> 0, type |-> 1]
HighRam(start, size)  == [start |-> start, size |-> size, high |-> 1, type |-> 1]
Reserved(start, size) == [start |-> start, size |-> size, high |-> 0, type |-> 2]

LowRam   == Ram(0, 6)      \* below the kernel: never used
Firmware == Reserved(24, 8)

MCMaps ==
  { <<LowRam, Ram(8, 16), Firmware>>,          \* RAM ends at a word boundary
    <<LowRam, Ram(8, 14), Firmware>>,          \* and within a word
    <<Ram(8, 12), Ram(26, 6), LowRam>>,        \* a second, short range, to the
                                               \* end of the address space
    <<Ram(22, 4), Reserved(18, 4), Ram(8, 8), HighRam(8, 16)>>,
    <<Ram(8, 8)>>,                             \* the kernel and nothing else
    <<Ram(8, 13), Ram(27, 3)>>,                \* not page-aligned
    <<Ram(8, 16), Ram(20, 8)>>,                \* overlapping
    <<Ram(10, 12)>> }                          \* not word-aligned

MisalignedMaps == { <<Ram(8, 8), Ram(18, 8)>>, <<LowRam, Ram(8, 10), Ram(18, 12)>> }
=============================================================================
