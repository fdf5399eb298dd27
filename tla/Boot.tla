--------------------------------- MODULE Boot ---------------------------------
(***************************************************************************)
(* The boot loader: stage 1 (boot/stage1), which follows the FAT12 chains  *)
(* of STAGE2.BIN and KERNEL.BIN and reads their sectors, and stage 2       *)
(* (boot/stage2/stage2.asm), which reads the firmware's memory map, copies *)
(* the kernel and jumps to it, with the parameters of kmain on the stack.  *)
(* The page tables stage 2 makes are the initial state of Paging.          *)
(*                                                                         *)
(* The BIOS, the disk and whoever presses a key are not part of the        *)
(* repository.  Errors of a read are not looked at, so a read may leave    *)
(* memory as it was, and what it was is whatever an earlier program left.  *)
(***************************************************************************)
EXTENDS Integers, Sequences, FiniteSets

CONSTANTS
  Disks,           \* what may be on the disk: records [fat, first]
  Leftovers,       \* what may lie where its table and directory are read to
  Descriptors,     \* the selectors stage 2's GDT may define: {8} in GDT.asm
  SegmentSectors,  \* sectors in the 64 KB that bx addresses: 128
  StackSectors,    \* sectors from 0x7e00, to which STAGE2 is read, up to the
                   \* stack that grows down from 0x9000: 8
  SectorsPerTrack, Heads, Cylinders,  \* the cylinders LBA_to_CHS can name: 256
  ReservedSectors, NumberOfFATs, SectorsPerFAT, RootSectors,
  Beyond,          \* what may lie in memory behind the table
  CountSize,       \* the values of cx: 65536
  MaxEntries,      \* bound: entries of the firmware's map
  MaxFailures      \* bound: reads that fail

Files == {"STAGE2", "KERNEL"}
End   == 4095      \* 0xfff
FatValues == 0 .. End

RootSector == NumberOfFATs * SectorsPerFAT + ReservedSectors
DataSector == RootSector + RootSectors

\* The sectors LBA_to_CHS can name; the table and the root directory lie there.
Nameable == 0 .. Cylinders * Heads * SectorsPerTrack - 1

ASSUME DiskAssumption ==
  /\ \A d \in Disks :
       /\ DOMAIN d.fat = 0 .. Cardinality(DOMAIN d.fat) - 1
       /\ Cardinality(DOMAIN d.fat) \in 2 .. End
       /\ \A c \in DOMAIN d.fat : d.fat[c] \in FatValues
       /\ DOMAIN d.first \subseteq Files
       /\ \A f \in DOMAIN d.first : d.first[f] \in DOMAIN d.fat \ {0, 1}
  /\ {ReservedSectors, RootSector} \subseteq Nameable
  /\ {SegmentSectors, SectorsPerTrack, Heads, Cylinders, CountSize} \subseteq Nat \ {0}
  /\ SegmentSectors < CountSize /\ StackSectors \in Nat
  /\ {ReservedSectors, NumberOfFATs, SectorsPerFAT, RootSectors} \subseteq Nat
  /\ Beyond \subseteq FatValues
  /\ MaxEntries \in Nat /\ MaxFailures \in Nat

VARIABLES
  disk,     \* what is on the disk; never changes
  gdt,      \* the selectors stage 2's GDT defines; never changes
  pc,
  root,     \* where the files begin, in the root directory read
  fat,      \* the table read
  file,     \* the file being read
  cluster,  \* dx
  at,       \* bx, in sectors
  count,    \* cx: sectors read, KernelSize in stage 2
  memory,   \* the sector each file's segment holds at each place
  failed,   \* the reads that failed (not in the code)
  stack,    \* what was pushed for the next program, the top first
  layout,   \* DataSect, RootSect and FATSect of stage 2
  entries,  \* entries the firmware has written
  mapCount, \* GetMemoryMap.count
  kernel    \* what was copied to where the kernel runs

given  == <<disk, gdt>>
loaded == <<root, fat>>
stage1 == <<loaded, file, cluster, at, count, memory, failed>>
stage2 == <<stack, layout, entries, mapCount, kernel>>
vars == <<given, pc, stage1, stage2>>

Unread == -1

Init ==
  /\ disk \in Disks /\ gdt \in Descriptors
  /\ \E l \in Leftovers : root = l.first /\ fat = l.fat
  /\ pc = "load_root" /\ file = "STAGE2" /\ cluster = 0 /\ at = 0 /\ count = 0
  /\ memory = [f \in Files |-> [k \in 0 .. SegmentSectors - 1 |-> Unread]]
  /\ failed = 0
  /\ stack = <<>> /\ layout = [data |-> 0, root |-> 0, fat |-> 0]
  /\ entries = 0 /\ mapCount = 0 /\ kernel = <<>>

-----------------------------------------------------------------------------
(* Stage 1 *)

\* disk_read_16: what the read brings is in memory, or the carry flag tells of an
\* error, which nobody looks at.
ReadFails == failed < MaxFailures /\ failed' = failed + 1

LoadRoot ==
  /\ pc = "load_root" /\ pc' = "load_fat"
  /\ \/ root' = disk.first /\ UNCHANGED failed
     \/ ReadFails /\ UNCHANGED root
  /\ UNCHANGED <<given, fat, file, cluster, at, count, memory, stage2>>

LoadFAT ==
  /\ pc = "load_fat" /\ pc' = "find"
  /\ \/ fat' = disk.fat /\ UNCHANGED failed
     \/ ReadFails /\ UNCHANGED fat
  /\ UNCHANGED <<given, root, file, cluster, at, count, memory, stage2>>

Findfile ==
  /\ pc = "find"
  /\ IF file \in DOMAIN root
     THEN pc' = "read" /\ cluster' = root[file]
     ELSE pc' = "not_found" /\ UNCHANGED cluster
  /\ at' = 0 /\ count' = 0
  /\ UNCHANGED <<given, loaded, file, memory, failed, stage2>>

\* A table as it lies in memory: 12 bits for an entry, the low ones first, in
\* units of four bits.
Nibble(table, n) ==
  IF n \div 3 \in DOMAIN table THEN (table[n \div 3] \div 16 ^ (n % 3)) % 16 ELSE 0
Word(table, byte) ==
  Nibble(table, 2 * byte) + 16 * Nibble(table, 2 * byte + 1)
    + 256 * Nibble(table, 2 * byte + 2) + 4096 * Nibble(table, 2 * byte + 3)

Odd_Not(c) == c % 2 = 0  \* Mutant: the halves of a pair are taken for each other.
Odd(c) == c % 2 = 1      \* the carry of shr bx, 1

\* GetNextSector; behind the table lies whatever was there.
NextSector_AllBits(table, c) ==  \* Mutant: an even entry keeps its neighbour's low bits.
  IF c \notin DOMAIN table THEN Beyond
  ELSE {IF Odd(c) THEN Word(table, (c * 3) \div 2) \div 16
                  ELSE Word(table, (c * 3) \div 2)}
NextSector(table, c) ==
  IF c \notin DOMAIN table THEN Beyond
  ELSE {IF Odd(c) THEN Word(table, (c * 3) \div 2) \div 16
                  ELSE Word(table, (c * 3) \div 2) % 4096}

\* LBA_to_CHS, and the sector the BIOS reads when it is given the result.
Place(lba) ==
  [sector   |-> (lba % SectorsPerTrack) + 1,
   head     |-> (lba \div SectorsPerTrack) % Heads,
   cylinder |-> ((lba \div SectorsPerTrack) \div Heads) % Cylinders]
SectorAt(p) == (p.cylinder * Heads + p.head) * SectorsPerTrack + p.sector - 1

Lba(c) == c - 2 + DataSector

\* STAGE2 is read upwards from 0x7e00; from 0x9000 down lies the stack, which holds
\* the address Findfile returns to.
ReadSector ==
  /\ pc = "read" /\ cluster # End
  /\ \/ /\ memory' = [memory EXCEPT ![file][at] = SectorAt(Place(Lba(cluster)))]
        /\ pc' = IF file = "STAGE2" /\ at >= StackSectors THEN "lost" ELSE "read"
        /\ UNCHANGED failed
     \/ ReadFails /\ UNCHANGED <<pc, memory>>
  /\ cluster' \in NextSector(fat, cluster)
  /\ at' = (at + 1) % SegmentSectors
  /\ count' = (count + 1) % CountSize
  /\ UNCHANGED <<given, loaded, file, stage2>>

FileRead ==
  /\ pc = "read" /\ cluster = End
  /\ IF file = "STAGE2" THEN file' = "KERNEL" /\ pc' = "find"
                        ELSE pc' = "end_of_stage" /\ UNCHANGED file
  /\ UNCHANGED <<given, loaded, cluster, at, count, memory, failed, stage2>>

Handed_Reversed == <<ReservedSectors, RootSector, DataSector>>  \* Mutant: pushed in the other order.
Handed == <<DataSector, RootSector, ReservedSectors>>

EnterStage2 ==
  /\ pc = "enter_stage2"
  /\ stack' = Handed
  /\ pc' = "start"
  /\ UNCHANGED <<given, stage1, layout, entries, mapCount, kernel>>

-----------------------------------------------------------------------------
(* The user *)

\* int 0x16 returns when a key was pressed: before stage 1 jumps to stage 2, and
\* before stage 2 leaves real mode.
Awaiting == {"end_of_stage", "switch_to_pm"}

KeyPressed ==
  /\ pc \in Awaiting
  /\ pc' = IF pc = "end_of_stage" THEN "enter_stage2" ELSE "protected"
  /\ UNCHANGED <<given, stage1, stage2>>

-----------------------------------------------------------------------------
(* Stage 2 *)

Start ==
  /\ pc = "start"
  /\ layout' = [data |-> stack[1], root |-> stack[2], fat |-> stack[3]]
  /\ stack' = <<>>
  /\ pc' = "memory_map"
  /\ UNCHANGED <<given, stage1, entries, mapCount, kernel>>

\* One call of the BIOS for an entry of the map: it leaves the entry's number in
\* ebx, and 0 with the last one.
GetMemoryMap ==
  /\ pc = "memory_map" /\ entries < MaxEntries
  /\ entries' = entries + 1
  /\ \/ mapCount' = entries' /\ UNCHANGED pc
     \/ mapCount' = mapCount + 1 /\ pc' = "switch_to_pm"
  /\ UNCHANGED <<given, stage1, stack, layout, kernel>>

\* Or the carry flag tells that there are no more.
MemoryMapError ==
  /\ pc = "memory_map"
  /\ mapCount' = mapCount + 1 /\ pc' = "switch_to_pm"
  /\ UNCHANGED <<given, stage1, stack, layout, entries, kernel>>

\* pm_32_start: a segment register loaded with a selector the GDT does not define
\* is a fault, and without a table of handlers the processor resets.
Segments == {8, 16}  \* of the far jump; of ds, ss, es, fs and gs
SwitchToPM ==
  /\ pc = "protected"
  /\ pc' = IF Segments \subseteq gdt THEN "transfer" ELSE "reset"
  /\ UNCHANGED <<given, stage1, stage2>>

\* Behind the segment that was read lies whatever was there.
KernelTransfer ==
  /\ pc = "transfer"
  /\ kernel' = [k \in 0 .. count - 1 |->
                  IF k < SegmentSectors THEN memory["KERNEL"][k] ELSE Unread]
  /\ pc' = "enter"
  /\ UNCHANGED <<given, stage1, stack, layout, entries, mapCount>>

\* The kernel is jumped to: on the top, where kmain looks for the address it
\* returns to, lies its first parameter.
EnterKernel ==
  /\ pc = "enter"
  /\ stack' = <<mapCount, layout.data, layout.root, layout.fat>>
  /\ pc' = "kmain"
  /\ UNCHANGED <<given, stage1, layout, entries, mapCount, kernel>>

Machine ==
  \/ LoadRoot \/ LoadFAT \/ Findfile \/ ReadSector \/ FileRead \/ EnterStage2
  \/ Start \/ GetMemoryMap \/ MemoryMapError \/ SwitchToPM \/ KernelTransfer
  \/ EnterKernel

Next == Machine \/ KeyPressed

\* The processor runs and the BIOS answers.  Nobody need press a key.
Spec == Init /\ [][Next]_vars /\ WF_vars(Machine)

-----------------------------------------------------------------------------
(* Properties *)

\* The n-th cluster of a file, from 0 on, as FAT12 itself has them.
Followed(f, n) ==
  LET upTo[k \in 0 .. n] == IF k = 0 THEN disk.first[f] ELSE disk.fat[upTo[k - 1]]
  IN  upTo[n]

\* File f is on the disk in n sectors: its clusters are in the table and the
\* entry of the last one is 0xfff, which is what mkfs.fat writes there.
HasLength(f, n) ==
  /\ f \in DOMAIN disk.first
  /\ \A i \in 0 .. n - 1 :
       Followed(f, i) \in DOMAIN disk.fat /\ (Followed(f, i + 1) = End <=> i = n - 1)

Lengths == 1 .. Cardinality(DOMAIN disk.fat)
OnDisk(f) == \E n \in Lengths : HasLength(f, n)

\* KERNEL.BIN has n sectors, which fit the segment they are read to and lie where
\* LBA_to_CHS can name them.
Readable(n) ==
  /\ HasLength("KERNEL", n) /\ n <= SegmentSectors
  /\ \A i \in 0 .. n - 1 : Lba(Followed("KERNEL", i)) \in Nameable

\* kmain is entered with the sectors of KERNEL.BIN, each once and in the order of
\* its chain, however the chain runs over the disk and whatever STAGE2.BIN's chain
\* left in the registers, provided that every read succeeded, the file fits the
\* segment it is read to and lies on cylinders LBA_to_CHS can name.
KernelIsTheFile ==
  pc = "kmain" /\ failed = 0 =>
    \A n \in Lengths :
      Readable(n) => kernel = [i \in 0 .. n - 1 |-> Lba(Followed("KERNEL", i))]

\* The boot stops nowhere but at the two waits for a key, however many reads of the
\* files fail: with the directory and the table in memory, both files on the disk
\* and a STAGE2.BIN that does not reach the stack, it goes on to kmain, or, as with
\* the GDT that GDT.asm has, to the reset that its missing descriptor causes.
Ready ==
  /\ pc = "find" /\ file = "STAGE2" /\ root = disk.first /\ fat = disk.fat
  /\ \E n \in Lengths : n <= StackSectors /\ HasLength("STAGE2", n)
  /\ OnDisk("KERNEL")
BootEnds ==
  Ready ~> \/ pc = IF Segments \subseteq gdt THEN "kmain" ELSE "reset"
           \/ [](pc \in Awaiting)

\* The number of the memory map's entries, or one more when the carry flag ends the
\* map, and the sectors at which data, root directory and table begin, as stage 1
\* computes and pushes them and stage 2 pops and pushes them again, lie before
\* the kernel in the order of kmain's parameters.  They lie one word below where
\* kmain looks for them, for want of a return address: it takes the number of the
\* first data sector for that of the entries, and so on.
ParametersHandedOn ==
  pc = "kmain" => \E n \in entries .. entries + 1 :
                    stack = <<n, DataSector, RootSector, ReservedSectors>>
=============================================================================
