-------------------------------- MODULE MCBoot --------------------------------
(***************************************************************************)
(* Boot on every table of three clusters: chains that run forwards and      *)
(* backwards, that share clusters, that loop, that leave the table and     *)
(* that end in 0xfff or in another of the values FAT12 ends a file with;   *)
(* and on a disk that has no KERNEL.BIN.                                   *)
(***************************************************************************)
EXTENDS Boot

MCValues == {2, 3, 4, 5, 4095, 4088}
MCFats == {[c \in 0 .. 4 |-> IF c < 2 THEN 4095 ELSE f[c]] : f \in [2 .. 4 -> MCValues]}
MCFirsts == {[f \in {"STAGE2", "KERNEL"} |-> IF f = "STAGE2" THEN 4 ELSE 2],
             [f \in {"STAGE2"} |-> 4]}
MCDisks == {[fat |-> t, first |-> i] : t \in MCFats, i \in MCFirsts}
MCBeyond == {3, 4095}
\* Nothing, or another disk's table and directory.
MCLeftovers == {[fat |-> <<>>, first |-> <<>>],
                [fat |-> [c \in 0 .. 4 |-> IF c = 2 THEN 3 ELSE 4095],
                 first |-> [f \in {"STAGE2", "KERNEL"} |-> 2]]}
\* The GDT of GDT.asm, and one with a segment for data.
MCDescriptors == {{8}, {8, 16}}
=============================================================================
