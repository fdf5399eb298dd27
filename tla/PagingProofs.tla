----------------------------- MODULE PagingProofs -----------------------------
(***************************************************************************)
(* Proofs about Paging, for tables of any size, any set of free blocks     *)
(* with anything in them, and any pages and frames callers ask for; and,   *)
(* in the second half, about PageReplacement, the simulator's model of     *)
(* paging, for any number of frames and any processes with any pages.      *)
(*                                                                         *)
(* The heart of the first is that the recursive entry stays the            *)
(* directory's own: as long as it is, an access through page_table reaches *)
(* the table meant.  The second counts: no move between memory and disk    *)
(* changes how often a page is in the two together, so what a process      *)
(* listed is found whenever it is wanted.                                  *)
(***************************************************************************)
EXTENDS Paging, PageReplacement, FiniteSetTheorems, SequenceTheorems, WellFoundedInduction, TLAPS

Directory == mem[DirFrame]
InUse == BootTables \cup (managed \ pool)  \* the frames that may be tables
BeforeVga == pc \in {"pmmngr_init", "set_recursive_map", "map_vga"}
BeforeStack == BeforeVga \/ pc = "map_stack"
Early == pc \in {"pmmngr_init", "set_recursive_map"}

\* Each table is a frame of its own that nobody can allocate.
TablesApart ==
  /\ \A d \in Slots : Directory[d].present => Directory[d].frame \in InUse
  /\ \A d, e \in Slots :
       /\ Directory[d].present /\ Directory[e].present
       /\ Directory[d].frame = Directory[e].frame
       => d = e

\* Where the code finds the directory.
DirectoryFound ==
  IF Early THEN pagedir = <<0, DirFrame>> /\ Directory = BootDirectory
           ELSE pagedir = <<Recursive, Recursive>> /\ Directory[Recursive] = Entered(DirFrame)

\* But for what callers have yet to flush, the TLB tells what the tables say.
Coherent ==
  \A v \in DOMAIN tlb \ owed : Present(mem, v) /\ tlb[v] = Translate(mem, v)

\* The pages kmain relies on.
KernelThere ==
  /\ pc # "kshell" => \A k \in Slots : Translate(mem, <<0, k>>) = k
  /\ \A k \in 0 .. KernelPages - 1 : Translate(mem, <<KernelSlot, k>>) = KernelFrame + k
  /\ IF BeforeVga THEN VgaPage \notin DOMAIN tlb ELSE Translate(mem, VgaPage) = VgaFrame
  /\ IF BeforeStack THEN pool = managed /\ ~Directory[StackSlot].present
                    ELSE managed # {} => Translate(mem, StackPage) = StackFrame

\* What callers asked for is what the tables say, and theirs alone.
CallersServed ==
  /\ pc # "kshell" => owed = {} /\ \A v \in CallerPages : asked[v] = Never
  /\ \A v \in CallerPages : asked[v] # Never =>
       Directory[v[1]].present /\ Translate(mem, v) = asked[v]
  /\ \A v \in CallerPages : asked[v] \notin pool
  /\ \A v \in CallerPages : asked[v] \in held =>
       asked[v] \notin Tables /\ \A w \in CallerPages : asked[w] = asked[v] => w = v

IInv ==
  /\ managed \in Pools /\ TypeOK
  /\ TablesApart /\ DirectoryFound /\ Coherent /\ KernelThere /\ CallersServed

-----------------------------------------------------------------------------
(* The layout, and what a lookup gives *)

LEMMA Layout ==
  /\ PerTable \in Nat /\ PerTable >= 4 /\ NumFrames \in Nat /\ KernelFrame \in Nat
  /\ KernelFrame + PerTable <= NumFrames
  /\ Slots \subseteq Frames
  /\ {0, KernelSlot, KernelPages, StackSlot, Recursive} \subseteq Slots
  /\ KernelSlot \notin {0, StackSlot, Recursive} /\ StackSlot \notin {0, Recursive}
  /\ Recursive # 0
  /\ BootTables \subseteq Slots /\ {MmapFrame, StackFrame, VgaFrame} \subseteq Slots
  /\ DirFrame # LowTable /\ DirFrame # KernelTable /\ LowTable # KernelTable
  /\ NoFrame \notin Frames /\ Never \notin Frames /\ Never # NoFrame
  BY LayoutAssumption
  DEF Slots, Frames, Recursive, StackSlot, NoFrame, Never, BootTables

LEMMA PoolsLayout ==
  ASSUME NEW s \in Pools
  PROVE  /\ s \subseteq Frames /\ s \cap Slots = {} /\ s \cap BootTables = {}
         /\ CallerFrames \cap s = {}
<1>1. s \subseteq KernelFrame + PerTable .. NumFrames - 1
  BY LayoutAssumption
<1>2. s \cap Slots = {}
  BY <1>1, Layout DEF Slots
<1>3. s \subseteq Frames
  BY <1>1, Layout DEF Frames
<1> QED
  BY <1>2, <1>3, Layout, LayoutAssumption

LEMMA CallerLayout ==
  ASSUME NEW v \in CallerPages
  PROVE  /\ v \in Pages /\ v[1] \in Slots /\ v[1] # StackSlot /\ v[1] # Recursive
         /\ v[1] = KernelSlot => v[2] > KernelPages
  BY LayoutAssumption DEF Pages

LEMMA EntryTypes ==
  /\ \A f \in Frames : Entered(f) \in Entry
  /\ BootDirectory \in Table /\ Consecutive(0) \in Table /\ Consecutive(KernelFrame) \in Table
  /\ \A k \in Slots : BootDirectory[k].present => k \in {0, KernelSlot}
  /\ BootDirectory[0] = Entered(LowTable) /\ BootDirectory[KernelSlot] = Entered(KernelTable)
<1>1. \A f \in Frames : Entered(f) \in Entry
  BY DEF Entered, Entry
<1>2. 0 \in Frames /\ LowTable \in Frames /\ KernelTable \in Frames
  BY Layout DEF BootTables
<1>3. BootDirectory[0] = Entered(LowTable)
  BY Layout DEF BootDirectory
<1>4. BootDirectory[KernelSlot] = Entered(KernelTable)
  BY Layout DEF BootDirectory
<1>5. \A k \in Slots \ {0, KernelSlot} :
        BootDirectory[k] = [frame |-> 0, present |-> FALSE, writable |-> FALSE]
  BY Layout DEF BootDirectory
<1>6. BootDirectory \in Table
  <2>1. \A k \in Slots : BootDirectory[k] \in Entry
    <3>1. [frame |-> 0, present |-> FALSE, writable |-> FALSE] \in Entry
      BY <1>2 DEF Entry
    <3>2. BootDirectory[0] \in Entry /\ BootDirectory[KernelSlot] \in Entry
      BY <1>1, <1>2, <1>3, <1>4
    <3> QED
      BY <3>1, <3>2, <1>5
  <2>2. BootDirectory = [k \in Slots |-> BootDirectory[k]]
    BY DEF BootDirectory
  <2> QED
    BY <2>1, <2>2 DEF Table
<1>7. \A k \in Slots : k \in Frames /\ KernelFrame + k \in Frames
  BY Layout DEF Slots, Frames
<1>8. Consecutive(0) \in Table /\ Consecutive(KernelFrame) \in Table
  <2>1. \A k \in Slots : 0 + k \in Frames
    BY <1>7, Layout DEF Slots
  <2> QED
    BY <1>7, <2>1 DEF Consecutive, Table, Entry
<1> QED
  BY <1>1, <1>3, <1>4, <1>5, <1>6, <1>8

\* A lookup in tables of the right types fails, or gives a frame.
LEMMA Lookup ==
  ASSUME NEW m, NEW D, m \in [D -> Table], DirFrame \in D, NEW v \in Pages
  PROVE  /\ Present(m, v) \in BOOLEAN
         /\ Translate(m, v) \in Frames \cup {NoFrame}
         /\ Present(m, v) <=> Translate(m, v) # NoFrame
         /\ Present(m, v) =>
              /\ m[DirFrame][v[1]].present /\ m[DirFrame][v[1]].frame \in D
              /\ m[m[DirFrame][v[1]].frame][v[2]].present
              /\ Translate(m, v) = m[m[DirFrame][v[1]].frame][v[2]].frame
<1>1. v[1] \in Slots /\ v[2] \in Slots
  BY DEF Pages
<1>2. m[DirFrame][v[1]] \in Entry
  BY <1>1 DEF Table
<1>3. \A f \in D : m[f][v[2]] \in Entry
  BY <1>1 DEF Table
<1>4. DOMAIN m = D
  OBVIOUS
<1> QED
  BY <1>2, <1>3, <1>4, Layout DEF Present, Translate, Entry

LEMMA DomainOfMem ==
  ASSUME IInv
  PROVE  /\ DOMAIN mem = BootTables \cup managed /\ InUse \subseteq DOMAIN mem
         /\ DirFrame \in DOMAIN mem /\ mem \in [DOMAIN mem -> Table]
         /\ Directory \in Table /\ \A f \in DOMAIN mem : mem[f] \in Table
         /\ DOMAIN mem \subseteq Frames /\ managed \subseteq Frames
         /\ managed \cap BootTables = {}
  BY PoolsLayout, Layout DEF IInv, TypeOK, InUse, BootTables, Directory

LEMMA SeenIsTranslate ==
  ASSUME IInv, NEW v \in Pages, v \notin owed
  PROVE  Seen(mem, v) = Translate(mem, v)
  BY DEF IInv, Coherent, Seen

\* Once the recursive entry is there, an access to the window of entry d goes to
\* d's table, and none is remembered while d has no table.
LEMMA Window ==
  ASSUME IInv, ~Early
  PROVE  /\ Directory[Recursive] = Entered(DirFrame)
         /\ pagedir = <<Recursive, Recursive>> /\ Seen(mem, pagedir) = DirFrame
         /\ \A d \in Slots :
              /\ Directory[d].present => Seen(mem, <<Recursive, d>>) = Directory[d].frame
              /\ ~Directory[d].present => <<Recursive, d>> \notin DOMAIN tlb
<1>1. Directory[Recursive] = Entered(DirFrame) /\ pagedir = <<Recursive, Recursive>>
  BY DEF IInv, DirectoryFound
<1>2. Directory[Recursive].present /\ Directory[Recursive].frame = DirFrame
  BY <1>1 DEF Entered
<1>3. ASSUME NEW d \in Slots
      PROVE  /\ <<Recursive, d>> \in Pages \ owed
             /\ Present(mem, <<Recursive, d>>) <=> Directory[d].present
             /\ Directory[d].present =>
                  Translate(mem, <<Recursive, d>>) = Directory[d].frame
  <2>1. <<Recursive, d>> \in Pages \ owed
    <3>1. <<Recursive, d>> \in Pages
      BY Layout DEF Pages
    <3>2. <<Recursive, d>> \notin CallerPages
      <4> SUFFICES ASSUME <<Recursive, d>> \in CallerPages
                   PROVE  FALSE
        OBVIOUS
      <4> QED
        BY CallerLayout
    <3> QED
      BY <3>1, <3>2 DEF IInv, TypeOK
  <2>2. Present(mem, <<Recursive, d>>) <=> Directory[d].present
    BY <1>2, DomainOfMem DEF Present, Directory
  <2>3. Directory[d].present => Translate(mem, <<Recursive, d>>) = Directory[d].frame
    BY <1>2, <2>2 DEF Translate, Directory
  <2> QED
    BY <2>1, <2>2, <2>3
<1>4. \A d \in Slots : Directory[d].present =>
        Seen(mem, <<Recursive, d>>) = Directory[d].frame
  BY <1>3, SeenIsTranslate
<1>5. \A d \in Slots : ~Directory[d].present => <<Recursive, d>> \notin DOMAIN tlb
  BY <1>3 DEF IInv, Coherent
<1>6. Seen(mem, pagedir) = DirFrame
  BY <1>1, <1>2, <1>4, Layout
<1> QED
  BY <1>1, <1>4, <1>5, <1>6

\* No table but the directory is reached through another entry than its own, and
\* each is in memory.
LEMMA TablesPlace ==
  ASSUME IInv, NEW d \in Slots, Directory[d].present
  PROVE  /\ Directory[d].frame \in DOMAIN mem /\ Directory[d].frame \notin pool
         /\ d # Recursive => Directory[d].frame # DirFrame
<1>1. Directory[d].frame \in InUse
  BY DEF IInv, TablesApart
<1>2. Directory[d].frame \in DOMAIN mem /\ Directory[d].frame \notin pool
  BY <1>1, DomainOfMem DEF InUse, IInv, TypeOK
<1>3. ASSUME d # Recursive PROVE Directory[d].frame # DirFrame
  <2>1. CASE Early
    <3>1. Directory = BootDirectory
      BY <2>1 DEF IInv, DirectoryFound
    <3> QED
      BY <3>1, EntryTypes, Layout DEF Entered
  <2>2. CASE ~Early
    <3>1. Directory[Recursive].present /\ Directory[Recursive].frame = DirFrame
      BY <2>2, Window DEF Entered
    <3> QED
      BY <1>3, <3>1, Layout DEF IInv, TablesApart
  <2> QED
    BY <2>1, <2>2
<1> QED
  BY <1>2, <1>3

-----------------------------------------------------------------------------
(* What map_page does *)

\* Page v is put in frame p by an entry of the table in frame F, which is the
\* table of v already or a block that was in the pool.
Placed(v, p, F) ==
  /\ managed' = managed /\ pool' \subseteq pool /\ held' = managed \ pool'
  /\ F \in BootTables \cup (managed \ pool') /\ F # DirFrame
  /\ mem' \in [BootTables \cup managed -> Table]
  /\ mem'[DirFrame][v[1]].present /\ mem'[DirFrame][v[1]].frame = F
  /\ Directory[v[1]].present => mem'[DirFrame][v[1]] = Directory[v[1]] /\ pool' = pool
  /\ ~Directory[v[1]].present => F \in pool
  /\ \A d \in Slots \ {v[1]} : mem'[DirFrame][d] = Directory[d]
  /\ mem'[F][v[2]] = Entered(p)
  /\ \A k \in Slots \ {v[2]} : mem'[F][k] = mem[F][k]
  /\ \A f \in DOMAIN mem \ {DirFrame, F} : mem'[f] = mem[f]

LEMMA MapPagePlaces ==
  ASSUME IInv, ~Early, NEW v \in Pages, v[1] # Recursive, NEW p \in Frames, MapPage(v, p)
  PROVE  \E F \in DOMAIN mem : Placed(v, p, F)
<1>1. v[1] \in Slots /\ v[2] \in Slots
  BY DEF Pages
<1>2. Entered(p) \in Entry
  BY EntryTypes
<1>3. HasTable(v) <=> Directory[v[1]].present
  BY Window DEF HasTable, Load, Directory
<1>4. Directory[v[1]] \in Entry
  BY <1>1, DomainOfMem DEF Table
<1>5. CASE Directory[v[1]].present
  <2> DEFINE F == Directory[v[1]].frame
  <2>1. F \in DOMAIN mem /\ F \notin pool /\ F # DirFrame
    BY <1>1, <1>5, TablesPlace
  <2>2. mem' = [mem EXCEPT ![F][v[2]] = Entered(p)]
    BY <1>1, <1>3, <1>5, Window DEF MapPage, Mapped, Store
  <2>3. UNCHANGED poolVars
    BY <1>3, <1>5 DEF MapPage
  <2>4. mem[F] \in Table /\ DirFrame \in DOMAIN mem
    BY <2>1, DomainOfMem
  <2>5. mem'[F] = [mem[F] EXCEPT ![v[2]] = Entered(p)]
    BY <2>1, <2>2
  <2>6. \A f \in DOMAIN mem \ {F} : mem'[f] = mem[f]
    BY <2>2
  <2>7. mem'[F] \in Table
    BY <1>1, <1>2, <2>4, <2>5 DEF Table
  <2>8. mem' \in [BootTables \cup managed -> Table]
    BY <2>2, <2>6, <2>7, DomainOfMem
  <2>9. mem'[DirFrame] = Directory
    BY <2>1, <2>4, <2>6 DEF Directory
  <2>10. /\ mem'[F][v[2]] = Entered(p)
         /\ \A k \in Slots \ {v[2]} : mem'[F][k] = mem[F][k]
    BY <1>1, <2>4, <2>5 DEF Table
  <2>11. held' = managed \ pool'
    BY <2>3 DEF poolVars, IInv, TypeOK
  <2>12. F \in BootTables \cup (managed \ pool')
    BY <2>1, <2>3, DomainOfMem DEF poolVars
  <2> HIDE DEF F
  <2>13. Placed(v, p, F)
    BY <1>5, <2>1, <2>3, <2>6, <2>8, <2>9, <2>10, <2>11, <2>12 DEF Placed, poolVars, F
  <2> QED
    BY <2>1, <2>13
<1>6. CASE ~Directory[v[1]].present
  <2>1. PICK b \in pool : /\ pool' = pool \ {b} /\ held' = held \cup {b}
                          /\ managed' = managed /\ reply'.val = b
    <3>1. Pool!Take
      BY <1>3, <1>6 DEF MapPage, AllocPage
    <3>2. \A b \in pool : b \in Nat /\ b * 1 = b
      BY DomainOfMem DEF IInv, TypeOK, Frames
    <3> QED
      BY <3>1, <3>2 DEF Pool!Take, Pool!Reply, Pool!BlockAddress
  <2> DEFINE e == [Directory[v[1]] EXCEPT !.frame = b, !.present = TRUE]
             mid == [mem EXCEPT ![DirFrame][v[1]] = e]
  <2>2. b \in DOMAIN mem /\ b \notin BootTables /\ b # DirFrame /\ b \in Frames /\ b \in managed
    BY <2>1, DomainOfMem DEF IInv, TypeOK, BootTables
  <2>3. e \in Entry /\ e.present /\ e.frame = b
    BY <1>4, <2>2 DEF Entry
  <2>4. WithTable(mem, v, b) = mid
    BY Window DEF WithTable, Store, Load, Directory
  <2> HIDE DEF e
  <2>5. /\ DOMAIN mid = DOMAIN mem
        /\ mid[DirFrame] = [Directory EXCEPT ![v[1]] = e]
        /\ \A f \in DOMAIN mem \ {DirFrame} : mid[f] = mem[f]
    BY DomainOfMem DEF Directory
  <2>6. mid[DirFrame][v[1]] = e /\ \A d \in Slots \ {v[1]} : mid[DirFrame][d] = Directory[d]
    BY <1>1, <2>5, DomainOfMem DEF Table
  <2>7. mid[DirFrame] \in Table
    BY <1>1, <2>3, <2>5, DomainOfMem DEF Table
  <2> HIDE DEF mid
  <2>8. Seen(mid, <<Recursive, v[1]>>) = b
    <3>1. <<Recursive, v[1]>> \notin DOMAIN tlb
      BY <1>1, <1>6, Window
    <3>2. mid[DirFrame][Recursive] = Entered(DirFrame)
      BY <2>6, Window, Layout
    <3>3. mid[DirFrame][Recursive].present /\ mid[DirFrame][Recursive].frame = DirFrame
      BY <3>2 DEF Entered
    <3>4. mid[DirFrame][v[1]].present /\ mid[DirFrame][v[1]].frame = b
      BY <2>3, <2>6
    <3>5. DirFrame \in DOMAIN mid
      BY <2>5, DomainOfMem
    <3>6. Translate(mid, <<Recursive, v[1]>>) = b
      BY <3>3, <3>4, <3>5 DEF Translate, Present
    <3> QED
      BY <3>1, <3>6 DEF Seen
  <2>9. mem' = [mid EXCEPT ![b][v[2]] = Entered(p)]
    BY <1>3, <1>6, <2>1, <2>4, <2>8 DEF MapPage, Mapped, Store
  <2>10. mem[b] \in Table /\ mid[b] = mem[b]
    BY <2>2, <2>5, DomainOfMem
  <2>11. mem'[b] = [mem[b] EXCEPT ![v[2]] = Entered(p)]
    BY <2>2, <2>5, <2>9, <2>10
  <2>12. /\ DOMAIN mem' = DOMAIN mem /\ mem'[DirFrame] = mid[DirFrame]
         /\ \A f \in DOMAIN mem \ {DirFrame, b} : mem'[f] = mem[f]
    BY <2>2, <2>5, <2>9, DomainOfMem
  <2>13. mem'[b] \in Table
    BY <1>1, <1>2, <2>10, <2>11 DEF Table
  <2>14. mem' \in [BootTables \cup managed -> Table]
    <3>1. \A f \in DOMAIN mem : mem'[f] \in Table
      BY <2>7, <2>12, <2>13, DomainOfMem
    <3>2. mem' = [f \in DOMAIN mem |-> mem'[f]]
      BY <2>9, <2>12
    <3> QED
      BY <3>1, <3>2, DomainOfMem
  <2>15. /\ mem'[b][v[2]] = Entered(p)
         /\ \A k \in Slots \ {v[2]} : mem'[b][k] = mem[b][k]
    BY <1>1, <2>10, <2>11 DEF Table
  <2>16. held' = managed \ pool'
    BY <2>1, <2>2 DEF IInv, TypeOK
  <2>17. Placed(v, p, b)
    BY <1>6, <2>1, <2>2, <2>3, <2>6, <2>12, <2>14, <2>15, <2>16 DEF Placed
  <2> QED
    BY <2>2, <2>17
<1> QED
  BY <1>5, <1>6

\* An entry of a page other than v is as it was, if its table was there and it
\* is not an empty entry of the directory.
LEMMA PlacedKeepsEntry ==
  ASSUME IInv, ~Early, NEW v \in Pages, v[1] # Recursive, NEW p, NEW F \in DOMAIN mem,
         Placed(v, p, F),
         NEW w \in Pages, w # v, Directory[w[1]].present,
         w[1] # Recursive \/ mem[Directory[w[1]].frame][w[2]].present
  PROVE  /\ mem'[DirFrame][w[1]] = Directory[w[1]]
         /\ mem'[Directory[w[1]].frame][w[2]] = mem[Directory[w[1]].frame][w[2]]
<1> DEFINE G == Directory[w[1]].frame
<1>1. v[1] \in Slots /\ v[2] \in Slots /\ w[1] \in Slots /\ w[2] \in Slots
  BY DEF Pages
<1>2. mem'[DirFrame][w[1]] = Directory[w[1]]
  BY <1>1 DEF Placed
<1>3. CASE w[1] = Recursive
  <2>1. G = DirFrame
    BY <1>3, Window DEF Entered
  <2>2. Directory[w[2]].present
    BY <1>3, <2>1 DEF Directory
  <2>3. mem'[DirFrame][w[2]] = Directory[w[2]]
    BY <1>1, <2>2 DEF Placed
  <2> QED
    BY <1>2, <2>1, <2>3 DEF Directory
<1>4. CASE w[1] # Recursive
  <2>1. G \in DOMAIN mem /\ G \notin pool /\ G # DirFrame
    BY <1>1, <1>4, TablesPlace
  <2>2. CASE G # F
    BY <1>2, <2>1, <2>2 DEF Placed
  <2>3. CASE G = F
    <3>1. Directory[v[1]].present /\ Directory[v[1]].frame = F
      BY <2>1, <2>3 DEF Placed
    <3>2. w[1] = v[1]
      BY <1>1, <2>3, <3>1 DEF IInv, TablesApart
    <3>3. w[2] # v[2]
      BY <3>2 DEF Pages
    <3> QED
      BY <1>1, <1>2, <2>3, <3>3 DEF Placed
  <2> QED
    BY <2>2, <2>3
<1> QED
  BY <1>3, <1>4

LEMMA PlacedLookups ==
  ASSUME IInv, ~Early, NEW v \in Pages, v[1] # Recursive, NEW p \in Frames,
         NEW F \in DOMAIN mem, Placed(v, p, F)
  PROVE  /\ Present(mem', v) /\ Translate(mem', v) = p
         /\ \A w \in Pages \ {v} :
              /\ Present(mem, w) =>
                   Present(mem', w) /\ Translate(mem', w) = Translate(mem, w)
              /\ w[1] # Recursive /\ Directory[w[1]].present =>
                   Translate(mem', w) = Translate(mem, w)
<1>1. DOMAIN mem' = DOMAIN mem
  BY DomainOfMem DEF Placed
<1>2. Present(mem', v) /\ Translate(mem', v) = p
  BY <1>1 DEF Placed, Present, Translate, Entered
<1>3. ASSUME NEW w \in Pages \ {v}, Directory[w[1]].present,
             w[1] # Recursive \/ mem[Directory[w[1]].frame][w[2]].present
      PROVE  /\ Present(mem', w) = Present(mem, w)
             /\ Translate(mem', w) = Translate(mem, w)
  <2>1. /\ mem'[DirFrame][w[1]] = mem[DirFrame][w[1]]
        /\ mem'[mem[DirFrame][w[1]].frame][w[2]] = mem[mem[DirFrame][w[1]].frame][w[2]]
    BY <1>3, PlacedKeepsEntry DEF Directory
  <2> QED
    BY <1>1, <2>1 DEF Present, Translate
<1>4. ASSUME NEW w \in Pages \ {v}, Present(mem, w)
      PROVE  Directory[w[1]].present /\ mem[Directory[w[1]].frame][w[2]].present
  BY <1>4 DEF Present, Directory
<1>5. \A w \in Pages \ {v} : Present(mem, w) =>
        Present(mem', w) /\ Translate(mem', w) = Translate(mem, w)
  BY <1>3, <1>4
<1>6. \A w \in Pages \ {v} : w[1] # Recursive /\ Directory[w[1]].present =>
        Translate(mem', w) = Translate(mem, w)
  BY <1>3
<1> QED
  BY <1>2, <1>5, <1>6

LEMMA PlacedTables ==
  ASSUME IInv, ~Early, NEW v \in Pages, v[1] # Recursive, NEW p \in Frames,
         NEW F \in DOMAIN mem, Placed(v, p, F)
  PROVE  /\ TablesApart'
         /\ mem'[DirFrame][Recursive] = Entered(DirFrame)
         /\ \A d \in Slots : Directory[d].present => mem'[DirFrame][d] = Directory[d]
         /\ \A d \in Slots \ {v[1]} : mem'[DirFrame][d] = Directory[d]
         /\ Tables' \subseteq Tables \cup pool
<1>1. v[1] \in Slots
  BY DEF Pages
<1>2. \A d \in Slots \ {v[1]} : mem'[DirFrame][d] = Directory[d]
  BY DEF Placed
<1>3. \A d \in Slots : Directory[d].present => mem'[DirFrame][d] = Directory[d]
  BY <1>2 DEF Placed
<1>4. mem'[DirFrame][Recursive] = Entered(DirFrame)
  BY <1>2, Window, Layout
<1>5. ASSUME NEW d \in Slots, mem'[DirFrame][d].present
      PROVE  /\ mem'[DirFrame][d].frame \in InUse'
             /\ IF Directory[d].present
                THEN /\ mem'[DirFrame][d].frame = Directory[d].frame
                     /\ mem'[DirFrame][d].frame \notin pool
                ELSE d = v[1] /\ mem'[DirFrame][d].frame \in pool
  <2>1. CASE Directory[d].present
    <3>1. mem'[DirFrame][d] = Directory[d]
      BY <1>3, <2>1
    <3>2. Directory[d].frame \in InUse /\ Directory[d].frame \notin pool
      BY <2>1, TablesPlace DEF IInv, TablesApart
    <3>3. InUse \subseteq InUse'
      BY DEF InUse, Placed
    <3> QED
      BY <2>1, <3>1, <3>2, <3>3
  <2>2. CASE ~Directory[d].present
    <3>1. d = v[1]
      BY <1>2, <1>5, <2>2
    <3> QED
      BY <2>2, <3>1 DEF Placed, InUse
  <2> QED
    BY <2>1, <2>2
<1>6. TablesApart'
  <2>1. \A d \in Slots : Directory'[d].present => Directory'[d].frame \in InUse'
    BY <1>5 DEF Directory
  <2>2. ASSUME NEW d \in Slots, NEW e \in Slots,
               mem'[DirFrame][d].present, mem'[DirFrame][e].present,
               mem'[DirFrame][d].frame = mem'[DirFrame][e].frame
        PROVE  d = e
    <3>1. CASE Directory[d].present
      <4>1. Directory[e].present /\ Directory[d].frame = Directory[e].frame
        BY <1>5, <2>2, <3>1
      <4> QED
        BY <3>1, <4>1 DEF IInv, TablesApart
    <3>2. CASE ~Directory[d].present
      BY <1>5, <2>2, <3>2
    <3> QED
      BY <3>1, <3>2
  <2> QED
    BY <2>1, <2>2 DEF TablesApart, Directory
<1>7. Tables' \subseteq Tables \cup pool
  <2>1. Tables' = {mem'[DirFrame][d].frame : d \in {d \in Slots : mem'[DirFrame][d].present}}
    BY DEF Tables
  <2>2. \A d \in Slots : mem'[DirFrame][d].present =>
          mem'[DirFrame][d].frame \in Tables \cup pool
    BY <1>5 DEF Tables, Directory
  <2> QED
    BY <2>1, <2>2
<1> QED
  BY <1>2, <1>3, <1>4, <1>6, <1>7

-----------------------------------------------------------------------------
(* What is remembered *)

LEMMA RememberingTells ==
  ASSUME IInv, NEW m, NEW D, m \in [D -> Table], DirFrame \in D,
         NEW us \in SUBSET Pages, NEW stale,
         \A v \in DOMAIN tlb \ stale : Present(m, v) /\ tlb[v] = Translate(m, v)
  PROVE  /\ \A v \in DOMAIN Remembering(m, us) \ stale :
              Present(m, v) /\ Remembering(m, us)[v] = Translate(m, v)
         /\ DOMAIN Remembering(m, us) \subseteq DOMAIN tlb \cup us
         /\ DOMAIN tlb \subseteq DOMAIN Remembering(m, us)
         /\ DOMAIN Remembering(m, us) \subseteq Pages
         /\ \A v \in DOMAIN Remembering(m, us) : Remembering(m, us)[v] \in Frames
<1> DEFINE R == Remembering(m, us)
<1>1. /\ DOMAIN R = DOMAIN tlb \cup {v \in us : Present(m, v)}
      /\ \A v \in DOMAIN R : R[v] = Seen(m, v)
  BY DEF Remembering
<1>2. DOMAIN tlb \subseteq Pages /\ \A v \in DOMAIN tlb : tlb[v] \in Frames
  BY DEF IInv, TypeOK
<1>3. \A v \in us : Present(m, v) => Translate(m, v) \in Frames
  BY Lookup
<1> HIDE DEF R
<1>4. \A v \in DOMAIN R : R[v] \in Frames
  BY <1>1, <1>2, <1>3 DEF Seen
<1>5. \A v \in DOMAIN R \ stale : Present(m, v) /\ R[v] = Translate(m, v)
  BY <1>1 DEF Seen
<1> QED
  BY <1>1, <1>2, <1>4, <1>5 DEF R

\* A step of kmain that leaves the lookups remembered as they are leaves the
\* TLB right, and uses no page before it is mapped.
LEMMA KmainRemembers ==
  ASSUME IInv, pc # "kshell", NEW D, mem' \in [D -> Table], DirFrame \in D,
         tlb' = Remembering(mem', Windows \cup {n[1] : n \in Needs}), UNCHANGED callers,
         \A v \in DOMAIN tlb : Present(mem', v) /\ Translate(mem', v) = Translate(mem, v)
  PROVE  /\ Coherent'
         /\ DOMAIN tlb' \subseteq Pages /\ \A v \in DOMAIN tlb' : tlb'[v] \in Frames
         /\ Early /\ VgaPage \notin DOMAIN tlb => VgaPage \notin DOMAIN tlb'
<1> DEFINE us == Windows \cup {n[1] : n \in Needs}
           others == {StackPage, <<0, StackFrame>>, pagedir, <<0, MmapFrame>>}
           kernels == {<<KernelSlot, k>> : k \in 0 .. KernelPages - 1}
<1>1. owed = {} /\ owed' = {}
  BY DEF IInv, CallersServed, callers
<1>2. us \subseteq Windows \cup kernels \cup others \cup {VgaPage}
  BY DEF Needs
<1>3. Early => us \subseteq Windows \cup kernels \cup others
  BY DEF Needs, Early
<1>4. /\ Windows \subseteq Pages /\ kernels \subseteq Pages
      /\ others \subseteq Pages /\ VgaPage \in Pages
  <2>1. Windows \subseteq Pages
    BY Layout DEF Windows, Pages
  <2>2. \A k \in 0 .. KernelPages - 1 : k \in Slots
    BY Layout DEF Slots
  <2>3. kernels \subseteq Pages
    BY <2>2, Layout DEF Pages
  <2>4. others \subseteq Pages /\ VgaPage \in Pages
    BY Layout DEF Pages, StackPage, VgaPage, IInv, TypeOK
  <2> QED
    BY <2>1, <2>3, <2>4
<1>5. us \in SUBSET Pages
  BY <1>2, <1>4
<1>6. VgaPage \notin Windows \cup kernels \cup {StackPage, <<0, StackFrame>>, <<0, MmapFrame>>}
  BY Layout DEF VgaPage, Windows, StackPage, Slots
<1>7. Early => pagedir # VgaPage
  BY Layout DEF IInv, DirectoryFound, VgaPage
<1> HIDE DEF us, kernels
<1>8. Early => VgaPage \notin us
  BY <1>3, <1>6, <1>7
<1>9. \A v \in DOMAIN tlb \ {} : Present(mem', v) /\ tlb[v] = Translate(mem', v)
  BY <1>1 DEF IInv, Coherent
<1>10. tlb' = Remembering(mem', us)
  BY DEF us
<1>11. /\ \A v \in DOMAIN tlb' \ {} : Present(mem', v) /\ tlb'[v] = Translate(mem', v)
       /\ DOMAIN tlb' \subseteq DOMAIN tlb \cup us
       /\ DOMAIN tlb' \subseteq Pages /\ \A v \in DOMAIN tlb' : tlb'[v] \in Frames
  <2> DEFINE R == Remembering(mem', us)
  <2>1. /\ \A v \in DOMAIN R \ {} : Present(mem', v) /\ R[v] = Translate(mem', v)
        /\ DOMAIN R \subseteq DOMAIN tlb \cup us
        /\ DOMAIN R \subseteq Pages /\ \A v \in DOMAIN R : R[v] \in Frames
    BY <1>5, <1>9, RememberingTells
  <2> HIDE DEF R
  <2> QED
    BY <1>10, <2>1 DEF R
<1>12. Coherent'
  BY <1>1, <1>11 DEF Coherent
<1> QED
  BY <1>8, <1>11, <1>12

\* A table of consecutive frames, under an entry for it.
LEMMA ConsecutiveLookup ==
  ASSUME NEW m, NEW d, NEW f, NEW g \in Nat, NEW k \in Slots,
         m[DirFrame][d] = Entered(f), f \in DOMAIN m, m[f] = Consecutive(g)
  PROVE  Translate(m, <<d, k>>) = g + k
<1>1. m[f][k].present /\ m[f][k].frame = g + k
  BY DEF Consecutive
<1>2. m[DirFrame][d].present /\ m[DirFrame][d].frame = f
  BY DEF Entered
<1> QED
  BY <1>1, <1>2 DEF Translate, Present

LEMMA InitIInv ==
  ASSUME Init
  PROVE  IInv
<1>1. PICK rest \in [managed -> Leftovers] :
        mem = [f \in BootTables \cup managed |->
                CASE f = DirFrame    -> BootDirectory
                  [] f = LowTable    -> Consecutive(0)
                  [] f = KernelTable -> Consecutive(KernelFrame)
                  [] OTHER           -> rest[f]]
  BY DEF Init
<1>2. managed \in Pools /\ pool = managed /\ held = {} /\ managed \cap BootTables = {}
      /\ managed \subseteq Frames
  BY PoolsLayout DEF Init
<1>3. /\ mem[DirFrame] = BootDirectory /\ mem[LowTable] = Consecutive(0)
      /\ mem[KernelTable] = Consecutive(KernelFrame)
      /\ \A f \in managed : mem[f] = rest[f]
      /\ DOMAIN mem = BootTables \cup managed
  BY <1>1, <1>2, Layout DEF BootTables
<1>4. mem \in [BootTables \cup managed -> Table]
  <2>1. \A f \in managed : mem[f] \in Table
    BY <1>3, LayoutAssumption
  <2>2. \A f \in BootTables : mem[f] \in Table
    BY <1>3, EntryTypes DEF BootTables
  <2>3. mem = [f \in BootTables \cup managed |-> mem[f]]
    BY <1>1
  <2> QED
    BY <2>1, <2>2, <2>3
<1>5. tlb = [v \in {} |-> NoFrame] /\ DOMAIN tlb = {}
  BY DEF Init
<1>6. pc = "pmmngr_init" /\ pagedir = <<0, DirFrame>> /\ owed = {}
      /\ asked = [v \in CallerPages |-> Never]
  BY DEF Init
<1>7. TypeOK
  <2>1. pagedir \in Pages
    BY <1>6, Layout DEF Pages, BootTables
  <2>2. asked \in [CallerPages -> Frames \cup {NoFrame, Never}]
    BY <1>6
  <2> QED
    BY <1>2, <1>4, <1>5, <1>6, <2>1, <2>2 DEF TypeOK, Steps
<1>8. TablesApart
  <2>1. \A d \in Slots : Directory[d].present => d \in {0, KernelSlot}
    BY <1>3, EntryTypes DEF Directory
  <2>2. Directory[0].frame = LowTable /\ Directory[KernelSlot].frame = KernelTable
    BY <1>3, EntryTypes DEF Directory, Entered
  <2> QED
    BY <2>1, <2>2, Layout DEF TablesApart, InUse, BootTables
<1>9. DirectoryFound
  BY <1>3, <1>6 DEF DirectoryFound, Early, Directory
<1>10. KernelThere
  <2>1. \A k \in Slots : 0 + k = k
    BY Layout DEF Slots
  <2>2. \A k \in Slots : Translate(mem, <<0, k>>) = k
    BY <1>3, <2>1, EntryTypes, ConsecutiveLookup DEF BootTables
  <2>3. \A k \in 0 .. KernelPages - 1 : k \in Slots
    BY Layout DEF Slots
  <2>4. \A k \in 0 .. KernelPages - 1 : Translate(mem, <<KernelSlot, k>>) = KernelFrame + k
    BY <1>3, <2>3, EntryTypes, ConsecutiveLookup, Layout DEF BootTables
  <2>5. ~Directory[StackSlot].present
    BY <1>3, EntryTypes, Layout DEF Directory
  <2> QED
    BY <1>2, <1>5, <1>6, <2>2, <2>4, <2>5 DEF KernelThere, BeforeVga, BeforeStack
<1>11. CallersServed
  <2>1. \A v \in CallerPages : asked[v] = Never
    BY <1>6
  <2>2. Never \notin pool
    BY <1>2, Layout
  <2> QED
    BY <1>2, <1>6, <2>1, <2>2 DEF CallersServed
<1>12. Coherent
  BY <1>5 DEF Coherent
<1> QED
  BY <1>2, <1>7, <1>8, <1>9, <1>10, <1>11, <1>12 DEF IInv

-----------------------------------------------------------------------------
(* Boot *)

LEMMA NobodyAsked ==
  ASSUME IInv, pc # "kshell", UNCHANGED <<asked, owed>>,
         pool' \subseteq Frames, held' \subseteq Frames
  PROVE  CallersServed'
<1>1. owed' = {} /\ \A v \in CallerPages : asked'[v] = Never
  BY DEF IInv, CallersServed
<1>2. Never \notin pool' /\ Never \notin held'
  BY Layout
<1> QED
  BY <1>1, <1>2 DEF CallersServed

\* The steps that change no table.
LEMMA QuietStep ==
  ASSUME IInv, Kmain, PmmngrInit \/ ClearScreen \/ RefreshStack
  PROVE  IInv'
<1>1. UNCHANGED <<pagedir, mem, managed, pool, held, reply, asked, owed>>
  BY DEF Kmain, PmmngrInit, ClearScreen, RefreshStack, poolVars, callers
<1>2. pc # "kshell" /\ pc' # "kshell" /\ pc' \in Steps /\ (Early' <=> Early)
      /\ (BeforeVga' <=> BeforeVga) /\ (BeforeStack' <=> BeforeStack)
  BY DEF PmmngrInit, ClearScreen, RefreshStack, Steps, Early, BeforeVga, BeforeStack
<1>3. \A v \in DOMAIN tlb : Present(mem', v) /\ Translate(mem', v) = Translate(mem, v)
  BY <1>1, <1>2 DEF IInv, Coherent, CallersServed
<1>4. mem' \in [DOMAIN mem -> Table] /\ DirFrame \in DOMAIN mem
  BY <1>1, DomainOfMem
<1>5. tlb' = Remembering(mem', Windows \cup {n[1] : n \in Needs}) /\ UNCHANGED callers
  BY DEF Kmain
<1>6. /\ Coherent'
      /\ DOMAIN tlb' \subseteq Pages /\ \A v \in DOMAIN tlb' : tlb'[v] \in Frames
      /\ Early /\ VgaPage \notin DOMAIN tlb => VgaPage \notin DOMAIN tlb'
  BY <1>2, <1>3, <1>4, <1>5, KmainRemembers
<1>7. TypeOK'
  BY <1>1, <1>2, <1>6 DEF IInv, TypeOK
<1>8. TablesApart' /\ DirectoryFound' /\ CallersServed'
  BY <1>1, <1>2 DEF IInv, TablesApart, DirectoryFound, CallersServed, InUse, Directory, Tables
<1>9. BeforeVga => Early
  BY DEF BeforeVga, Early, PmmngrInit, ClearScreen, RefreshStack
<1>10. KernelThere'
  BY <1>1, <1>2, <1>6, <1>9 DEF IInv, KernelThere, Directory
<1> QED
  BY <1>1, <1>6, <1>7, <1>8, <1>10 DEF IInv

\* The entry is written where the boot's identity map shows the directory.
LEMMA SetRecursiveMapStep ==
  ASSUME IInv, Kmain, SetRecursiveMap
  PROVE  IInv'
<1>1. pc = "set_recursive_map" /\ pc' = "map_vga" /\ pagedir' = <<Recursive, Recursive>>
      /\ UNCHANGED <<managed, pool, held, reply, asked, owed>>
  BY DEF SetRecursiveMap, Kmain, poolVars, callers
<1>2. Early /\ pagedir = <<0, DirFrame>> /\ Directory = BootDirectory /\ owed = {}
  BY <1>1 DEF Early, IInv, DirectoryFound, CallersServed
<1>3. Seen(mem, pagedir) = DirFrame
  <2>1. pagedir \in Pages /\ DirFrame \in Slots
    BY Layout DEF IInv, TypeOK, BootTables
  <2> QED
    BY <1>1, <1>2, <2>1, SeenIsTranslate DEF IInv, KernelThere
<1>4. mem' = [mem EXCEPT ![DirFrame][Recursive] = Entered(DirFrame)]
  BY <1>3 DEF SetRecursiveMap, Store
<1>5. /\ DOMAIN mem' = DOMAIN mem
      /\ mem'[DirFrame] = [Directory EXCEPT ![Recursive] = Entered(DirFrame)]
      /\ \A f \in DOMAIN mem \ {DirFrame} : mem'[f] = mem[f]
  BY <1>4, DomainOfMem DEF Directory
<1>6. /\ mem'[DirFrame][Recursive] = Entered(DirFrame)
      /\ \A d \in Slots \ {Recursive} : mem'[DirFrame][d] = Directory[d]
  BY <1>5, DomainOfMem, Layout DEF Table
<1>7. ~Directory[Recursive].present /\ ~Directory[StackSlot].present
  BY <1>2, EntryTypes, Layout
<1>8. mem' \in [BootTables \cup managed' -> Table]
  <2>1. Entered(DirFrame) \in Entry
    BY EntryTypes, Layout DEF BootTables
  <2>2. mem'[DirFrame] \in Table
    BY <1>5, <2>1, DomainOfMem, Layout DEF Table
  <2>3. \A f \in DOMAIN mem : mem'[f] \in Table
    BY <1>5, <2>2, DomainOfMem
  <2>4. mem' = [f \in DOMAIN mem |-> mem'[f]]
    BY <1>4, <1>5
  <2> QED
    BY <1>1, <2>3, <2>4, DomainOfMem
<1>9. ASSUME NEW v \in Pages, Directory[v[1]].present
      PROVE  Present(mem', v) = Present(mem, v) /\ Translate(mem', v) = Translate(mem, v)
  <2>1. v[1] \in Slots /\ v[1] # Recursive
    BY <1>7, <1>9 DEF Pages
  <2>2. Directory[v[1]].frame \in DOMAIN mem \ {DirFrame}
    BY <1>9, <2>1, TablesPlace
  <2>3. /\ mem'[DirFrame][v[1]] = mem[DirFrame][v[1]]
        /\ mem'[mem[DirFrame][v[1]].frame] = mem[mem[DirFrame][v[1]].frame]
    BY <1>5, <1>6, <2>1, <2>2 DEF Directory
  <2> QED
    BY <1>5, <2>3 DEF Present, Translate
<1>10. \A v \in DOMAIN tlb : Present(mem', v) /\ Translate(mem', v) = Translate(mem, v)
  <2> SUFFICES ASSUME NEW v \in DOMAIN tlb
               PROVE  Present(mem', v) /\ Translate(mem', v) = Translate(mem, v)
    OBVIOUS
  <2>1. v \in Pages /\ Present(mem, v)
    BY <1>2 DEF IInv, TypeOK, Coherent
  <2>2. Directory[v[1]].present
    BY <2>1 DEF Present, Directory
  <2> QED
    BY <1>9, <2>1, <2>2
<1>11. /\ Coherent'
       /\ DOMAIN tlb' \subseteq Pages /\ \A v \in DOMAIN tlb' : tlb'[v] \in Frames
       /\ Early /\ VgaPage \notin DOMAIN tlb => VgaPage \notin DOMAIN tlb'
  <2>1. tlb' = Remembering(mem', Windows \cup {n[1] : n \in Needs}) /\ UNCHANGED callers
    BY DEF Kmain
  <2>2. pc # "kshell" /\ DirFrame \in BootTables \cup managed'
    BY <1>1 DEF BootTables
  <2> QED
    BY <1>8, <1>10, <2>1, <2>2, KmainRemembers
<1>12. TypeOK'
  <2>1. pagedir' \in Pages
    BY <1>1, Layout DEF Pages
  <2> QED
    BY <1>1, <1>8, <1>11, <2>1 DEF IInv, TypeOK, Steps
<1>13. TablesApart'
  <2>1. \A d \in Slots \ {Recursive} : Directory[d].present => Directory[d].frame # DirFrame
    BY TablesPlace
  <2>2. \A d \in Slots : mem'[DirFrame][d].present /\ mem'[DirFrame][d].frame = DirFrame
          => d = Recursive
    BY <1>6, <2>1
  <2>3. DirFrame \in InUse /\ InUse' = InUse
    BY <1>1 DEF InUse, BootTables
  <2>4. \A d \in Slots : mem'[DirFrame][d].present => mem'[DirFrame][d].frame \in InUse'
    BY <1>6, <2>3 DEF IInv, TablesApart, Entered
  <2>5. ASSUME NEW d \in Slots, NEW e \in Slots,
               mem'[DirFrame][d].present, mem'[DirFrame][e].present,
               mem'[DirFrame][d].frame = mem'[DirFrame][e].frame
        PROVE  d = e
    <3>1. CASE d = Recursive
      BY <1>6, <2>2, <2>5, <3>1 DEF Entered
    <3>2. CASE e = Recursive
      BY <1>6, <2>2, <2>5, <3>2 DEF Entered
    <3>3. CASE d # Recursive /\ e # Recursive
      BY <1>6, <2>5, <3>3 DEF IInv, TablesApart
    <3> QED
      BY <3>1, <3>2, <3>3
  <2> QED
    BY <2>4, <2>5 DEF TablesApart, Directory
<1>14. DirectoryFound'
  BY <1>1, <1>6 DEF DirectoryFound, Early, Directory
<1>15. KernelThere'
  <2>1. Directory[0].present /\ Directory[KernelSlot].present
    BY <1>2, EntryTypes DEF Entered
  <2>2. \A k \in Slots : Translate(mem', <<0, k>>) = Translate(mem, <<0, k>>)
    BY <1>9, <2>1, Layout DEF Pages
  <2>3. \A k \in 0 .. KernelPages - 1 : k \in Slots
    BY Layout DEF Slots
  <2>4. \A k \in 0 .. KernelPages - 1 :
          Translate(mem', <<KernelSlot, k>>) = Translate(mem, <<KernelSlot, k>>)
    BY <1>9, <2>1, <2>3, Layout DEF Pages
  <2>5. ~mem'[DirFrame][StackSlot].present
    BY <1>6, <1>7, Layout
  <2> QED
    BY <1>1, <1>2, <1>11, <2>2, <2>4, <2>5
    DEF IInv, KernelThere, BeforeVga, BeforeStack, Directory
<1>16. CallersServed'
  <2>1. pool' \subseteq Frames /\ held' \subseteq Frames
    BY <1>1, DomainOfMem DEF IInv, TypeOK
  <2> QED
    BY <1>1, <2>1, NobodyAsked
<1> QED
  BY <1>1, <1>11, <1>12, <1>13, <1>14, <1>15, <1>16 DEF IInv

\* map_page in kmain, for a page not used before.
LEMMA KmainPlaces ==
  ASSUME IInv, Kmain, ~Early, pc # "kshell", ~Early', pc' \in Steps, pagedir' = pagedir,
         NEW v \in Pages, v[1] # Recursive, v \notin DOMAIN tlb, NEW p \in Frames,
         NEW F \in DOMAIN mem, Placed(v, p, F)
  PROVE  TypeOK' /\ TablesApart' /\ DirectoryFound' /\ Coherent' /\ CallersServed'
<1>1. owed = {} /\ UNCHANGED <<asked, owed>>
  BY DEF IInv, CallersServed, Kmain, callers
<1>2. \A w \in DOMAIN tlb : w \in Pages \ {v} /\ Present(mem, w)
  BY <1>1 DEF IInv, TypeOK, Coherent
<1>3. \A w \in DOMAIN tlb : Present(mem', w) /\ Translate(mem', w) = Translate(mem, w)
  BY <1>2, PlacedLookups
<1>4. mem' \in [BootTables \cup managed' -> Table]
  BY DEF Placed
<1>5. Coherent' /\ DOMAIN tlb' \subseteq Pages /\ \A w \in DOMAIN tlb' : tlb'[w] \in Frames
  <2>1. tlb' = Remembering(mem', Windows \cup {n[1] : n \in Needs}) /\ UNCHANGED callers
    BY DEF Kmain
  <2>2. DirFrame \in BootTables \cup managed'
    BY DEF BootTables
  <2> QED
    BY <1>3, <1>4, <2>1, <2>2, KmainRemembers
<1>6. pool' \subseteq managed' /\ held' = managed' \ pool'
  BY DEF Placed, IInv, TypeOK
<1>7. TypeOK'
  BY <1>1, <1>4, <1>5, <1>6 DEF IInv, TypeOK
<1>8. CallersServed'
  <2>1. pool' \subseteq Frames /\ held' \subseteq Frames
    BY <1>6, DomainOfMem DEF Placed
  <2> QED
    BY <1>1, <2>1, NobodyAsked
<1>9. TablesApart' /\ mem'[DirFrame][Recursive] = Entered(DirFrame)
  BY PlacedTables
<1>10. DirectoryFound'
  BY <1>9, Window DEF DirectoryFound, Directory
<1> QED
  BY <1>5, <1>7, <1>8, <1>9, <1>10

\* A page that is in a frame has an entry.
LEMMA Found ==
  ASSUME IInv, NEW v \in Pages, Translate(mem, v) \in Frames
  PROVE  Present(mem, v) /\ Directory[v[1]].present
<1>1. Present(mem, v)
  BY Lookup, DomainOfMem, Layout
<1> QED
  BY <1>1 DEF Present, Directory

LEMMA KernelFound ==
  ASSUME IInv
  PROVE  /\ pc # "kshell" => \A k \in Slots : <<0, k>> \in Pages /\ Present(mem, <<0, k>>)
         /\ \A k \in 0 .. KernelPages - 1 :
              <<KernelSlot, k>> \in Pages /\ Present(mem, <<KernelSlot, k>>)
         /\ Directory[KernelSlot].present
         /\ ~BeforeVga => VgaPage \in Pages /\ Present(mem, VgaPage)
         /\ ~BeforeStack /\ managed # {} => StackPage \in Pages /\ Present(mem, StackPage)
<1>1. ASSUME pc # "kshell", NEW k \in Slots
      PROVE  <<0, k>> \in Pages /\ Present(mem, <<0, k>>)
  BY <1>1, Found, Layout DEF Pages, IInv, KernelThere
<1>2. ASSUME NEW k \in 0 .. KernelPages - 1
      PROVE  /\ <<KernelSlot, k>> \in Pages /\ Present(mem, <<KernelSlot, k>>)
             /\ Directory[KernelSlot].present
  <2>1. k \in Slots /\ KernelFrame + k \in Frames
    BY Layout DEF Slots, Frames
  <2>2. <<KernelSlot, k>> \in Pages
    BY <2>1, Layout DEF Pages
  <2>3. Translate(mem, <<KernelSlot, k>>) \in Frames
    BY <2>1 DEF IInv, KernelThere
  <2> QED
    BY <2>2, <2>3, Found
<1>3. 0 \in 0 .. KernelPages - 1
  BY LayoutAssumption
<1>4. ASSUME ~BeforeVga PROVE VgaPage \in Pages /\ Present(mem, VgaPage)
  <2>1. VgaPage \in Pages /\ VgaFrame \in Frames
    BY Layout DEF VgaPage, Pages
  <2> QED
    BY <1>4, <2>1, Found DEF IInv, KernelThere
<1>5. ASSUME ~BeforeStack, managed # {} PROVE StackPage \in Pages /\ Present(mem, StackPage)
  <2>1. StackPage \in Pages /\ StackFrame \in Frames
    BY Layout DEF StackPage, Pages
  <2> QED
    BY <1>5, <2>1, Found DEF IInv, KernelThere
<1>6. Directory[KernelSlot].present
  BY <1>2, <1>3
<1> QED
  BY <1>1, <1>2, <1>4, <1>5, <1>6

LEMMA MapVgaStep ==
  ASSUME IInv, Kmain, MapVga
  PROVE  IInv'
<1>1. pc = "map_vga" /\ pc' = "map_stack" /\ pagedir' = pagedir /\ MapPage(VgaPage, VgaFrame)
  BY DEF MapVga
<1>2. ~Early /\ ~Early' /\ BeforeVga /\ BeforeStack /\ ~BeforeVga' /\ BeforeStack'
  BY <1>1 DEF Early, BeforeVga, BeforeStack
<1>3. VgaPage \in Pages /\ VgaPage[1] = KernelSlot /\ VgaPage[1] # Recursive /\ VgaFrame \in Frames
  BY Layout DEF VgaPage, Pages
<1>4. PICK F \in DOMAIN mem : Placed(VgaPage, VgaFrame, F)
  BY <1>1, <1>2, <1>3, MapPagePlaces
<1>5. TypeOK' /\ TablesApart' /\ DirectoryFound' /\ Coherent' /\ CallersServed'
  <2>1. VgaPage \notin DOMAIN tlb
    BY <1>2 DEF IInv, KernelThere
  <2> QED
    BY <1>1, <1>2, <1>3, <1>4, <2>1, KmainPlaces DEF Steps
<1>6. /\ Translate(mem', VgaPage) = VgaFrame
      /\ \A w \in Pages \ {VgaPage} : Present(mem, w) => Translate(mem', w) = Translate(mem, w)
  BY <1>2, <1>3, <1>4, PlacedLookups
<1>7. \A k \in Slots : Translate(mem', <<0, k>>) = k
  <2>1. \A k \in Slots : <<0, k>> # VgaPage
    BY Layout DEF VgaPage
  <2>2. \A k \in Slots : Translate(mem, <<0, k>>) = k
    BY <1>1 DEF IInv, KernelThere
  <2> QED
    BY <1>1, <1>6, <2>1, <2>2, KernelFound
<1>8. \A k \in 0 .. KernelPages - 1 : Translate(mem', <<KernelSlot, k>>) = KernelFrame + k
  <2>1. \A k \in 0 .. KernelPages - 1 : <<KernelSlot, k>> # VgaPage
    BY Layout DEF VgaPage, Slots
  <2> QED
    BY <1>6, <2>1, KernelFound DEF IInv, KernelThere
<1>9. pool' = managed' /\ managed' = managed
  BY <1>2, <1>3, <1>4, KernelFound DEF Placed, IInv, KernelThere
<1>10. ~mem'[DirFrame][StackSlot].present
  <2>1. \A d \in Slots \ {VgaPage[1]} : mem'[DirFrame][d] = Directory[d]
    BY <1>4 DEF Placed
  <2>2. StackSlot \in Slots \ {VgaPage[1]}
    BY <1>3, Layout
  <2> QED
    BY <1>2, <2>1, <2>2 DEF IInv, KernelThere
<1>11. KernelThere'
  BY <1>1, <1>2, <1>6, <1>7, <1>8, <1>9, <1>10 DEF KernelThere, Directory
<1> QED
  BY <1>5, <1>9, <1>11 DEF IInv

LEMMA MapStackStep ==
  ASSUME IInv, Kmain, MapStack
  PROVE  IInv'
<1>1. pc = "map_stack" /\ pc' = "clear_screen" /\ pagedir' = pagedir
  BY DEF MapStack
<1>2. ~Early /\ ~Early' /\ ~BeforeVga /\ BeforeStack /\ ~BeforeVga' /\ ~BeforeStack'
  BY <1>1 DEF Early, BeforeVga, BeforeStack
<1>3. StackPage \in Pages /\ StackPage[1] = StackSlot /\ StackPage[1] # Recursive
      /\ StackFrame \in Frames
  BY Layout DEF StackPage, Pages
<1>4. CASE MapPage(StackPage, StackFrame)
  <2>1. PICK F \in DOMAIN mem : Placed(StackPage, StackFrame, F)
    BY <1>2, <1>3, <1>4, MapPagePlaces
  <2>2. StackPage \notin DOMAIN tlb
    BY <1>1, <1>2, <1>3 DEF IInv, KernelThere, CallersServed, Coherent, Present, Directory
  <2>3. TypeOK' /\ TablesApart' /\ DirectoryFound' /\ Coherent' /\ CallersServed'
    BY <1>1, <1>2, <1>3, <2>1, <2>2, KmainPlaces DEF Steps
  <2>4. /\ Translate(mem', StackPage) = StackFrame
        /\ \A w \in Pages \ {StackPage} : Present(mem, w) => Translate(mem', w) = Translate(mem, w)
    BY <1>2, <1>3, <2>1, PlacedLookups
  <2>5. \A k \in Slots : Translate(mem', <<0, k>>) = k
    <3>1. \A k \in Slots : <<0, k>> # StackPage
      BY Layout DEF StackPage
    <3>2. \A k \in Slots : Translate(mem, <<0, k>>) = k
      BY <1>1 DEF IInv, KernelThere
    <3> QED
      BY <1>1, <2>4, <3>1, <3>2, KernelFound
  <2>6. \A k \in 0 .. KernelPages - 1 : Translate(mem', <<KernelSlot, k>>) = KernelFrame + k
    <3>1. \A k \in 0 .. KernelPages - 1 : <<KernelSlot, k>> # StackPage
      BY Layout DEF StackPage
    <3> QED
      BY <2>4, <3>1, KernelFound DEF IInv, KernelThere
  <2>7. Translate(mem', VgaPage) = VgaFrame
    <3>1. VgaPage # StackPage
      BY Layout DEF VgaPage, StackPage
    <3> QED
      BY <1>2, <2>4, <3>1, KernelFound DEF IInv, KernelThere
  <2>8. KernelThere' /\ managed' = managed
    BY <1>1, <1>2, <2>1, <2>4, <2>5, <2>6, <2>7 DEF KernelThere, Placed
  <2> QED
    BY <2>3, <2>8 DEF IInv
<1>5. CASE MapPageFails(StackPage)
  <2>1. UNCHANGED <<pagedir, mem, managed, pool, held, asked, owed>> /\ pool = {}
    BY <1>1, <1>5 DEF MapPageFails, Pool!TakeFails, Kmain, callers
  <2>2. managed = {}
    BY <1>2, <2>1 DEF IInv, KernelThere
  <2>3. /\ Coherent'
        /\ DOMAIN tlb' \subseteq Pages /\ \A v \in DOMAIN tlb' : tlb'[v] \in Frames
    <3>1. \A v \in DOMAIN tlb : Present(mem', v) /\ Translate(mem', v) = Translate(mem, v)
      BY <1>1, <2>1 DEF IInv, Coherent, CallersServed
    <3>2. mem' \in [DOMAIN mem -> Table] /\ DirFrame \in DOMAIN mem
      BY <2>1, DomainOfMem
    <3>3. tlb' = Remembering(mem', Windows \cup {n[1] : n \in Needs}) /\ UNCHANGED callers
      BY DEF Kmain
    <3> QED
      BY <1>1, <3>1, <3>2, <3>3, KmainRemembers
  <2>4. TypeOK'
    BY <1>1, <2>1, <2>3 DEF IInv, TypeOK, Steps
  <2>5. TablesApart' /\ DirectoryFound' /\ CallersServed'
    BY <1>1, <1>2, <2>1
    DEF IInv, TablesApart, DirectoryFound, CallersServed, InUse, Directory, Tables
  <2>6. KernelThere'
    BY <1>1, <1>2, <2>1, <2>2 DEF IInv, KernelThere
  <2> QED
    BY <2>1, <2>3, <2>4, <2>5, <2>6 DEF IInv
<1> QED
  BY <1>4, <1>5 DEF MapStack

\* The identity map's table is dropped, and nothing of it is remembered.
LEMMA RemoveIdentityMapStep ==
  ASSUME IInv, RemoveIdentityMap
  PROVE  IInv'
<1>1. pc = "remove_identity_map" /\ pc' = "kshell"
      /\ UNCHANGED <<pagedir, managed, pool, held, asked, owed>>
  BY DEF RemoveIdentityMap, poolVars, callers
<1>2. ~Early /\ ~Early' /\ ~BeforeVga /\ ~BeforeVga' /\ ~BeforeStack /\ ~BeforeStack'
  BY <1>1 DEF Early, BeforeVga, BeforeStack
<1>3. DOMAIN tlb' = {}
  BY DEF RemoveIdentityMap, Flushed, Forgetting
<1>4. /\ DOMAIN mem' = DOMAIN mem
      /\ \A d \in Slots \ {0} : mem'[DirFrame][d] = Directory[d]
      /\ \A f \in DOMAIN mem \ {DirFrame} : mem'[f] = mem[f]
      /\ mem'[DirFrame] \in Table
      /\ ~mem'[DirFrame][0].present
      /\ mem' \in [BootTables \cup managed' -> Table]
  <2>1. BootDirectory[Recursive] \in Entry /\ ~BootDirectory[Recursive].present
    BY EntryTypes, Layout DEF Table
  <2>2. Load(mem, pagedir, 0) = Directory[0]
    BY <1>2, Window DEF Load, Directory
  <2>3. CASE Directory[0].present
    <3>1. mem' = [mem EXCEPT ![DirFrame][0] = BootDirectory[Recursive]]
      BY <1>2, <2>2, <2>3, Window DEF RemoveIdentityMap, Store
    <3>2. /\ DOMAIN mem' = DOMAIN mem
          /\ mem'[DirFrame] = [Directory EXCEPT ![0] = BootDirectory[Recursive]]
          /\ \A f \in DOMAIN mem \ {DirFrame} : mem'[f] = mem[f]
      BY <3>1, DomainOfMem DEF Directory
    <3>3. mem'[DirFrame] \in Table /\ \A d \in Slots \ {0} : mem'[DirFrame][d] = Directory[d]
      BY <2>1, <3>2, DomainOfMem DEF Table
    <3>4. ~mem'[DirFrame][0].present
      BY <2>1, <3>2, DomainOfMem, Layout DEF Table
    <3>5. \A f \in DOMAIN mem : mem'[f] \in Table
      BY <3>2, <3>3, DomainOfMem
    <3>6. mem' = [f \in DOMAIN mem |-> mem'[f]]
      BY <3>1, <3>2
    <3> QED
      BY <1>1, <3>2, <3>3, <3>4, <3>5, <3>6, DomainOfMem
  <2>4. CASE ~Directory[0].present
    <3>1. mem' = mem
      BY <2>2, <2>4 DEF RemoveIdentityMap
    <3> QED
      BY <1>1, <2>4, <3>1, DomainOfMem DEF Directory
  <2> QED
    BY <2>3, <2>4
<1>5. ASSUME NEW v \in Pages, v[1] # 0, v[1] # Recursive, Directory[v[1]].present
      PROVE  Translate(mem', v) = Translate(mem, v)
  <2>1. v[1] \in Slots /\ Directory[v[1]].frame \in DOMAIN mem \ {DirFrame}
    BY <1>5, TablesPlace DEF Pages
  <2>2. /\ mem'[DirFrame][v[1]] = mem[DirFrame][v[1]]
        /\ mem'[mem[DirFrame][v[1]].frame] = mem[mem[DirFrame][v[1]].frame]
    BY <1>4, <1>5, <2>1 DEF Directory
  <2> QED
    BY <1>4, <2>2 DEF Translate, Present
<1>6. TypeOK'
  BY <1>1, <1>3, <1>4 DEF IInv, TypeOK, Steps
<1>7. TablesApart'
  <2>1. \A d \in Slots : mem'[DirFrame][d].present =>
          Directory[d].present /\ mem'[DirFrame][d] = Directory[d]
    BY <1>4
  <2>2. InUse' = InUse
    BY <1>1 DEF InUse
  <2> QED
    BY <2>1, <2>2 DEF IInv, TablesApart, Directory
<1>8. DirectoryFound'
  BY <1>1, <1>2, <1>4, Window, Layout DEF DirectoryFound, Directory
<1>9. Coherent'
  BY <1>3 DEF Coherent
<1>10. KernelThere'
  <2>1. \A k \in 0 .. KernelPages - 1 : Translate(mem', <<KernelSlot, k>>) = KernelFrame + k
    BY <1>5, KernelFound, Layout DEF IInv, KernelThere
  <2>2. Translate(mem', VgaPage) = VgaFrame
    <3>1. VgaPage[1] = KernelSlot
      BY DEF VgaPage
    <3> QED
      BY <1>2, <1>5, <3>1, KernelFound, Layout DEF IInv, KernelThere
  <2>3. managed # {} => Translate(mem', StackPage) = StackFrame
    <3>1. StackPage[1] = StackSlot
      BY DEF StackPage
    <3>2. managed # {} => StackPage \in Pages /\ Directory[StackSlot].present
      BY <1>2, <3>1, KernelFound DEF Present, Directory
    <3> QED
      BY <1>2, <1>5, <3>1, <3>2, Layout DEF IInv, KernelThere
  <2> QED
    BY <1>1, <1>2, <2>1, <2>2, <2>3 DEF KernelThere
<1>11. CallersServed'
  <2>1. pool' \subseteq Frames /\ held' \subseteq Frames
    BY <1>1, DomainOfMem DEF IInv, TypeOK
  <2> QED
    BY <1>1, <2>1, NobodyAsked
<1> QED
  BY <1>1, <1>6, <1>7, <1>8, <1>9, <1>10, <1>11 DEF IInv

-----------------------------------------------------------------------------
(* Callers *)

\* Callers find the kernel running.
LEMMA AtKshell ==
  ASSUME pc = "kshell"
  PROVE  ~Early /\ ~BeforeVga /\ ~BeforeStack
  BY DEF Early, BeforeVga, BeforeStack

LEMMA CallerAllocatesStep ==
  ASSUME IInv, CallerAllocates
  PROVE  IInv'
<1>1. pc = "kshell" /\ UNCHANGED <<pc, pagedir, mem, tlb, asked, owed>>
  BY DEF CallerAllocates, callers
<1>2. PICK b \in pool : pool' = pool \ {b} /\ held' = held \cup {b} /\ managed' = managed
  BY DEF CallerAllocates, Pool!Take
<1>3. TypeOK'
  BY <1>1, <1>2 DEF IInv, TypeOK
<1>4. TablesApart'
  <2>1. InUse \subseteq InUse'
    BY <1>2 DEF InUse
  <2> QED
    BY <1>1, <2>1 DEF IInv, TablesApart, Directory
<1>5. DirectoryFound' /\ Coherent'
  BY <1>1 DEF IInv, DirectoryFound, Coherent, Early, Directory
<1>6. KernelThere'
  BY <1>1, <1>2, AtKshell DEF IInv, KernelThere, BeforeVga, BeforeStack
<1>7. CallersServed'
  <2>1. \A v \in CallerPages : asked'[v] \in held' => asked'[v] \in held
    BY <1>1, <1>2 DEF IInv, CallersServed
  <2> QED
    BY <1>1, <1>2, <2>1 DEF IInv, CallersServed, Directory, Tables
<1> QED
  BY <1>2, <1>3, <1>4, <1>5, <1>6, <1>7 DEF IInv

\* A frame callers may map is in no use: it is a device's, or a block of theirs
\* that is no table and in no page.
LEMMA MayMapFree ==
  ASSUME IInv, NEW p, MayMap(p)
  PROVE  p \notin pool /\
         (p \in managed => p \in held /\ p \notin Tables /\ \A w \in CallerPages : asked[w] # p)
<1>1. CASE p \in CallerFrames
  BY <1>1, PoolsLayout DEF IInv, TypeOK
<1>2. CASE p \notin CallerFrames
  BY <1>2 DEF MayMap, IInv, TypeOK
<1> QED
  BY <1>1, <1>2

LEMMA CallerMapsStep ==
  ASSUME IInv, NEW v \in CallerPages, CallerMaps(v)
  PROVE  IInv'
<1>1. pc = "kshell" /\ pc' = pc /\ pagedir' = pagedir /\ v \notin owed
      /\ ~Early /\ ~BeforeVga /\ ~BeforeStack /\ ~Early' /\ ~BeforeVga' /\ ~BeforeStack'
  BY AtKshell DEF CallerMaps, Early, BeforeVga, BeforeStack
<1>2. v \in Pages /\ v[1] # Recursive /\ v[1] # StackSlot /\ v[1] \in Slots
  BY CallerLayout
<1>3. ASSUME NEW p \in Frames, MayMap(p), MapPage(v, p),
             asked' = [asked EXCEPT ![v] = p],
             owed' = owed \cup ({v} \cap DOMAIN tlb),
             tlb' = Remembering(mem', {v, pagedir, <<Recursive, v[1]>>})
      PROVE  IInv'
  <2>1. PICK F \in DOMAIN mem : Placed(v, p, F)
    BY <1>1, <1>2, <1>3, MapPagePlaces
  <2>2. managed' = managed /\ pool' \subseteq pool /\ held' = managed' \ pool'
        /\ mem' \in [BootTables \cup managed' -> Table]
    BY <2>1 DEF Placed
  <2>3. /\ Present(mem', v) /\ Translate(mem', v) = p
        /\ \A w \in Pages \ {v} :
             /\ Present(mem, w) => Present(mem', w) /\ Translate(mem', w) = Translate(mem, w)
             /\ w[1] # Recursive /\ Directory[w[1]].present =>
                  Translate(mem', w) = Translate(mem, w)
    BY <1>1, <1>2, <1>3, <2>1, PlacedLookups
  <2>4. /\ TablesApart' /\ mem'[DirFrame][Recursive] = Entered(DirFrame)
        /\ \A d \in Slots : Directory[d].present => mem'[DirFrame][d] = Directory[d]
        /\ Tables' \subseteq Tables \cup pool
    BY <1>1, <1>2, <1>3, <2>1, PlacedTables
  <2>5. \A w \in DOMAIN tlb \ owed' : Present(mem', w) /\ tlb[w] = Translate(mem', w)
    <3>1. \A w \in DOMAIN tlb \ owed' :
            w \in Pages \ {v} /\ Present(mem, w) /\ tlb[w] = Translate(mem, w)
      BY <1>3 DEF IInv, TypeOK, Coherent
    <3> QED
      BY <2>3, <3>1
  <2>6. /\ \A w \in DOMAIN tlb' \ owed' : Present(mem', w) /\ tlb'[w] = Translate(mem', w)
        /\ DOMAIN tlb' \subseteq Pages /\ \A w \in DOMAIN tlb' : tlb'[w] \in Frames
    <3> DEFINE us == {v, pagedir, <<Recursive, v[1]>>}
               R == Remembering(mem', us)
    <3>1. us \in SUBSET Pages
      BY <1>2, Layout DEF IInv, TypeOK, Pages
    <3>2. DirFrame \in BootTables \cup managed'
      BY DEF BootTables
    <3> HIDE DEF us
    <3>3. /\ \A w \in DOMAIN R \ owed' : Present(mem', w) /\ R[w] = Translate(mem', w)
          /\ DOMAIN R \subseteq Pages /\ \A w \in DOMAIN R : R[w] \in Frames
      BY <2>2, <2>5, <3>1, <3>2, RememberingTells
    <3>4. tlb' = R
      BY <1>3 DEF us
    <3> HIDE DEF R
    <3> QED
      BY <3>3, <3>4
  <2>7. /\ asked' \in [CallerPages -> Frames \cup {NoFrame, Never}]
        /\ asked'[v] = p /\ \A w \in CallerPages \ {v} : asked'[w] = asked[w]
    BY <1>3 DEF IInv, TypeOK
  <2>8. TypeOK'
    <3>1. pc' \in Steps /\ pagedir' \in Pages /\ owed' \subseteq CallerPages
      BY <1>1, <1>3 DEF IInv, TypeOK
    <3>2. pool' \subseteq managed'
      BY <2>2 DEF IInv, TypeOK
    <3> QED
      BY <2>2, <2>6, <2>7, <3>1, <3>2 DEF TypeOK
  <2>9. DirectoryFound'
    BY <1>1, <2>4, Window DEF DirectoryFound, Directory
  <2>10. Coherent'
    BY <2>6 DEF Coherent
  <2>11. KernelThere'
    <3>1. \A k \in 0 .. KernelPages - 1 : Translate(mem', <<KernelSlot, k>>) = KernelFrame + k
      <4>1. \A k \in 0 .. KernelPages - 1 : <<KernelSlot, k>> # v
        BY CallerLayout, Layout DEF Slots
      <4> QED
        BY <2>3, <4>1, KernelFound DEF IInv, KernelThere
    <3>2. Translate(mem', VgaPage) = VgaFrame
      <4>1. VgaPage # v
        BY CallerLayout, Layout DEF VgaPage, Slots
      <4> QED
        BY <1>1, <2>3, <4>1, KernelFound DEF IInv, KernelThere
    <3>3. managed # {} => Translate(mem', StackPage) = StackFrame
      <4>1. StackPage # v
        BY <1>2 DEF StackPage
      <4> QED
        BY <1>1, <2>3, <4>1, KernelFound DEF IInv, KernelThere
    <3> QED
      BY <1>1, <2>2, <3>1, <3>2, <3>3 DEF KernelThere
  <2>12. CallersServed'
    <3>1. ASSUME NEW w \in CallerPages, asked'[w] # Never
          PROVE  mem'[DirFrame][w[1]].present /\ Translate(mem', w) = asked'[w]
      <4>1. CASE w = v
        BY <2>1, <2>3, <2>7, <4>1 DEF Placed
      <4>2. CASE w # v
        <5>1. asked[w] # Never /\ Directory[w[1]].present /\ Translate(mem, w) = asked[w]
          BY <2>7, <3>1, <4>2 DEF IInv, CallersServed
        <5>2. w \in Pages /\ w[1] \in Slots /\ w[1] # Recursive
          BY CallerLayout
        <5> QED
          BY <2>3, <2>4, <2>7, <4>2, <5>1, <5>2
      <4> QED
        BY <4>1, <4>2
    <3>2. \A w \in CallerPages : asked'[w] \notin pool'
      BY <1>3, <2>2, <2>7, MayMapFree DEF IInv, CallersServed
    <3>3. p \in managed => p \in held /\ p \notin Tables' /\ \A w \in CallerPages : asked[w] # p
      BY <1>3, <2>4, MayMapFree
    <3>4. ASSUME NEW w \in CallerPages, asked'[w] \in held'
          PROVE  asked'[w] \notin Tables' /\ \A u \in CallerPages : asked'[u] = asked'[w] => u = w
      <4>1. CASE w = v
        BY <2>2, <2>7, <3>3, <3>4, <4>1
      <4>2. CASE w # v
        <5>1. asked[w] \in managed /\ asked[w] \notin pool
          BY <2>2, <2>7, <3>4, <4>2 DEF IInv, CallersServed
        <5>2. asked[w] \in held
          BY <5>1 DEF IInv, TypeOK
        <5>3. asked[w] \notin Tables /\ \A u \in CallerPages : asked[u] = asked[w] => u = w
          BY <5>2 DEF IInv, CallersServed
        <5>4. asked[w] # p
          BY <3>3, <5>1
        <5> QED
          BY <2>4, <2>7, <4>2, <5>1, <5>3, <5>4
      <4> QED
        BY <4>1, <4>2
    <3> QED
      BY <1>1, <3>1, <3>2, <3>4 DEF CallersServed, Directory
  <2> QED
    BY <2>2, <2>4, <2>8, <2>9, <2>10, <2>11, <2>12 DEF IInv
<1>4. CASE MapPageFails(v) /\ UNCHANGED <<tlb, callers>>
  <2>1. UNCHANGED <<pc, pagedir, mem, managed, pool, held, tlb, asked, owed>>
    BY <1>1, <1>4 DEF MapPageFails, Pool!TakeFails, callers
  <2>2. TypeOK' /\ TablesApart' /\ DirectoryFound' /\ Coherent'
    BY <2>1 DEF IInv, TypeOK, TablesApart, DirectoryFound, Coherent, InUse, Directory, Early
  <2>3. KernelThere' /\ CallersServed'
    BY <2>1 DEF IInv, KernelThere, CallersServed, Directory, Tables, BeforeVga, BeforeStack
  <2> QED
    BY <2>1, <2>2, <2>3 DEF IInv
<1> QED
  BY <1>3, <1>4 DEF CallerMaps

LEMMA CallerFreesStep ==
  ASSUME IInv, NEW v \in CallerPages, CallerFrees(v)
  PROVE  IInv'
<1> DEFINE F == Directory[v[1]].frame
           b == asked[v]
<1>1. pc = "kshell" /\ pc' = pc /\ pagedir' = pagedir /\ v \notin owed /\ b \in held
      /\ ~Early /\ ~BeforeVga /\ ~BeforeStack /\ ~Early' /\ ~BeforeVga' /\ ~BeforeStack'
  BY AtKshell DEF CallerFrees, Early, BeforeVga, BeforeStack
<1>2. v \in Pages /\ v[1] # Recursive /\ v[1] # StackSlot /\ v[1] \in Slots /\ v[2] \in Slots
  BY CallerLayout DEF Pages
<1>3. /\ b \in managed /\ b \in Frames /\ b \notin pool /\ b \notin Tables
      /\ \A w \in CallerPages : asked[w] = b => w = v
  BY <1>1, DomainOfMem DEF IInv, TypeOK, CallersServed
<1>4. Directory[v[1]].present /\ Present(mem, v) /\ Translate(mem, v) = b
  <2>1. b # Never
    BY <1>3, Layout
  <2>2. Translate(mem, v) = b
    BY <2>1 DEF IInv, CallersServed
  <2> QED
    BY <1>2, <1>3, <2>2, Found
<1>5. F \in DOMAIN mem /\ F # DirFrame /\ mem[F] \in Table
  BY <1>2, <1>4, TablesPlace, DomainOfMem
<1>6. mem[F][v[2]].frame = b
  BY <1>4 DEF Translate, Directory
<1>7. Load(mem, <<Recursive, v[1]>>, v[2]) = mem[F][v[2]]
  BY <1>1, <1>2, <1>4, Window DEF Load
<1>8. pool' = pool \cup {b} /\ held' = held \ {b} /\ managed' = managed
  <2>1. PICK c \in held : /\ pool' = pool \cup {c} /\ held' = held \ {c} /\ managed' = managed
                          /\ reply'.arg = c * 1
    BY DEF CallerFrees, FreePage, Pool!Give, Pool!Reply, Pool!BlockAddress
  <2>2. c \in Nat
    BY <2>1, DomainOfMem DEF IInv, TypeOK, Frames
  <2>3. reply'.arg = b
    BY <1>6, <1>7 DEF CallerFrees, FreePage
  <2>4. c * 1 = c
    BY <2>2
  <2> QED
    BY <2>1, <2>3, <2>4
<1>9. mem' = [mem EXCEPT ![F][v[2]] = Cleared(mem[F][v[2]])]
  BY <1>1, <1>2, <1>4, <1>7, Window DEF CallerFrees, FreePage, Store
<1>10. asked' = [asked EXCEPT ![v] = NoFrame] /\ owed' = owed \cup ({v} \cap DOMAIN tlb)
       /\ tlb' = Remembering(mem, {<<Recursive, v[1]>>})
  BY DEF CallerFrees
<1> HIDE DEF F, b
<1>11. /\ DOMAIN mem' = DOMAIN mem
       /\ mem'[F] = [mem[F] EXCEPT ![v[2]] = Cleared(mem[F][v[2]])]
       /\ \A f \in DOMAIN mem \ {F} : mem'[f] = mem[f]
  BY <1>5, <1>9
<1>12. /\ \A k \in Slots \ {v[2]} : mem'[F][k] = mem[F][k]
       /\ ~mem'[F][v[2]].present
       /\ mem'[F] \in Table
  <2>1. mem[F][v[2]] \in Entry
    BY <1>2, <1>5 DEF Table
  <2>2. Cleared(mem[F][v[2]]) \in Entry /\ ~Cleared(mem[F][v[2]]).present
    BY <2>1 DEF Cleared, Entry
  <2> QED
    BY <1>2, <1>5, <1>11, <2>2 DEF Table
<1>13. mem'[DirFrame] = Directory
  BY <1>5, <1>11, DomainOfMem DEF Directory
<1>14. ASSUME NEW w \in Pages, w # v
       PROVE  Present(mem', w) = Present(mem, w) /\ Translate(mem', w) = Translate(mem, w)
  <2>1. w[1] \in Slots /\ w[2] \in Slots
    BY DEF Pages
  <2>2. CASE Directory[w[1]].present
    <3>1. mem'[Directory[w[1]].frame][w[2]] = mem[Directory[w[1]].frame][w[2]]
      <4>1. Directory[w[1]].frame \in DOMAIN mem
        BY <2>1, <2>2, TablesPlace
      <4>2. CASE Directory[w[1]].frame # F
        BY <1>11, <4>1, <4>2
      <4>3. CASE Directory[w[1]].frame = F
        <5>1. w[1] = v[1]
          BY <1>2, <1>4, <2>1, <2>2, <4>3 DEF IInv, TablesApart, F
        <5>2. w[2] # v[2]
          BY <1>2, <1>14, <5>1 DEF Pages
        <5> QED
          BY <1>12, <2>1, <4>3, <5>2
      <4> QED
        BY <4>2, <4>3
    <3> QED
      BY <1>11, <1>13, <3>1 DEF Present, Translate, Directory
  <2>3. CASE ~Directory[w[1]].present
    BY <1>13, <2>3 DEF Present, Translate, Directory
  <2> QED
    BY <2>2, <2>3
<1>15. Translate(mem', v) = NoFrame
  BY <1>12, <1>13 DEF Translate, Present, F
<1>16. /\ \A w \in DOMAIN tlb' \ owed' : Present(mem, w) /\ tlb'[w] = Translate(mem, w)
       /\ DOMAIN tlb' \subseteq DOMAIN tlb \cup {<<Recursive, v[1]>>}
       /\ DOMAIN tlb' \subseteq Pages /\ \A w \in DOMAIN tlb' : tlb'[w] \in Frames
  <2> DEFINE us == {<<Recursive, v[1]>>}
             R == Remembering(mem, us)
  <2>1. us \in SUBSET Pages
    BY <1>2, Layout DEF Pages
  <2>2. \A w \in DOMAIN tlb \ owed' : Present(mem, w) /\ tlb[w] = Translate(mem, w)
    BY <1>10 DEF IInv, Coherent
  <2> HIDE DEF us
  <2>3. /\ \A w \in DOMAIN R \ owed' : Present(mem, w) /\ R[w] = Translate(mem, w)
        /\ DOMAIN R \subseteq DOMAIN tlb \cup us
        /\ DOMAIN R \subseteq Pages /\ \A w \in DOMAIN R : R[w] \in Frames
    BY <2>1, <2>2, DomainOfMem, RememberingTells
  <2>4. tlb' = R
    BY <1>10 DEF us
  <2> HIDE DEF R
  <2> QED
    BY <2>3, <2>4 DEF us
<1>17. Coherent'
  <2>1. v \notin DOMAIN tlb' \ owed'
    <3>1. v # <<Recursive, v[1]>>
      BY <1>2
    <3>2. v \in DOMAIN tlb' => v \in DOMAIN tlb
      BY <1>16, <3>1
    <3> QED
      BY <1>10, <3>2
  <2>2. \A w \in DOMAIN tlb' \ owed' : w # v /\ w \in Pages
    BY <1>16, <2>1
  <2> QED
    BY <1>14, <1>16, <2>2 DEF Coherent
<1>18. /\ asked' \in [CallerPages -> Frames \cup {NoFrame, Never}]
       /\ asked'[v] = NoFrame /\ \A w \in CallerPages \ {v} : asked'[w] = asked[w]
  BY <1>10 DEF IInv, TypeOK
<1>19. TypeOK'
  <2>1. mem' \in [BootTables \cup managed' -> Table]
    <3>1. \A f \in DOMAIN mem : mem'[f] \in Table
      BY <1>11, <1>12, DomainOfMem
    <3>2. mem' = [f \in DOMAIN mem |-> mem'[f]]
      BY <1>9, <1>11
    <3> QED
      BY <1>8, <3>1, <3>2, DomainOfMem
  <2>2. pool' \subseteq managed' /\ held' = managed' \ pool'
    BY <1>3, <1>8 DEF IInv, TypeOK
  <2>3. pc' \in Steps /\ pagedir' \in Pages /\ owed' \subseteq CallerPages
    BY <1>1, <1>10 DEF IInv, TypeOK
  <2> QED
    BY <1>16, <1>18, <2>1, <2>2, <2>3 DEF TypeOK
<1>20. Tables' = Tables
  BY <1>13 DEF Tables, Directory
<1>21. TablesApart'
  <2>1. \A d \in Slots : Directory[d].present => Directory[d].frame # b
    BY <1>3 DEF Tables, Directory
  <2>2. \A d \in Slots : Directory[d].present => Directory[d].frame \in InUse'
    BY <1>8, <2>1 DEF IInv, TablesApart, InUse
  <2> QED
    BY <1>13, <2>2 DEF IInv, TablesApart, Directory
<1>22. DirectoryFound'
  BY <1>1, <1>13, Window DEF DirectoryFound, Directory
<1>23. KernelThere'
  <2>1. \A k \in 0 .. KernelPages - 1 : Translate(mem', <<KernelSlot, k>>) = KernelFrame + k
    <3>1. \A k \in 0 .. KernelPages - 1 : <<KernelSlot, k>> # v
      BY CallerLayout, Layout DEF Slots
    <3> QED
      BY <1>14, <3>1, KernelFound DEF IInv, KernelThere
  <2>2. Translate(mem', VgaPage) = VgaFrame
    <3>1. VgaPage # v
      BY CallerLayout, Layout DEF VgaPage, Slots
    <3> QED
      BY <1>1, <1>14, <3>1, KernelFound DEF IInv, KernelThere
  <2>3. managed # {} => Translate(mem', StackPage) = StackFrame
    <3>1. StackPage # v
      BY <1>2 DEF StackPage
    <3> QED
      BY <1>1, <1>14, <3>1, KernelFound DEF IInv, KernelThere
  <2> QED
    BY <1>1, <1>8, <2>1, <2>2, <2>3 DEF KernelThere
<1>24. CallersServed'
  <2>1. ASSUME NEW w \in CallerPages, asked'[w] # Never
        PROVE  mem'[DirFrame][w[1]].present /\ Translate(mem', w) = asked'[w]
    <3>1. CASE w = v
      BY <1>4, <1>13, <1>15, <1>18, <3>1
    <3>2. CASE w # v
      <4>1. Directory[w[1]].present /\ Translate(mem, w) = asked[w]
        BY <1>18, <2>1, <3>2 DEF IInv, CallersServed
      <4>2. w \in Pages
        BY CallerLayout
      <4> QED
        BY <1>13, <1>14, <1>18, <3>2, <4>1, <4>2
    <3> QED
      BY <3>1, <3>2
  <2>2. \A w \in CallerPages : asked'[w] \notin pool'
    <3>1. NoFrame \notin pool'
      BY <1>3, <1>8, Layout, DomainOfMem DEF IInv, TypeOK
    <3> QED
      BY <1>3, <1>8, <1>18, <3>1 DEF IInv, CallersServed
  <2>3. NoFrame \notin held'
    BY <1>8, Layout, DomainOfMem DEF IInv, TypeOK
  <2>4. ASSUME NEW w \in CallerPages, asked'[w] \in held'
        PROVE  asked'[w] \notin Tables /\ \A u \in CallerPages : asked'[u] = asked'[w] => u = w
    <3>1. w # v
      BY <1>18, <2>3, <2>4
    <3>2. asked[w] \in held /\ asked'[w] = asked[w]
      BY <1>8, <1>18, <2>4, <3>1
    <3>3. asked[w] \notin Tables /\ \A u \in CallerPages : asked[u] = asked[w] => u = w
      BY <3>2 DEF IInv, CallersServed
    <3>4. asked'[v] # asked'[w]
      BY <1>18, <2>3, <2>4
    <3> QED
      BY <1>18, <3>2, <3>3, <3>4
  <2> QED
    BY <1>1, <1>20, <2>1, <2>2, <2>4 DEF CallersServed, Directory
<1> QED
  BY <1>8, <1>17, <1>19, <1>21, <1>22, <1>23, <1>24 DEF IInv

LEMMA CallerFlushesStep ==
  ASSUME IInv, NEW v \in CallerPages, CallerFlushes(v)
  PROVE  IInv'
<1>1. /\ owed' = owed \ {v} /\ UNCHANGED <<pc, pagedir, mem, managed, pool, held, asked>>
      /\ DOMAIN tlb' = DOMAIN tlb \ {v} /\ \A w \in DOMAIN tlb' : tlb'[w] = tlb[w]
  BY DEF CallerFlushes, Forgetting, poolVars
<1>2. TypeOK'
  BY <1>1 DEF IInv, TypeOK
<1>3. TablesApart' /\ DirectoryFound'
  BY <1>1 DEF IInv, TablesApart, DirectoryFound, InUse, Directory, Early
<1>4. Coherent'
  BY <1>1 DEF IInv, Coherent
<1>5. KernelThere' /\ CallersServed'
  BY <1>1 DEF IInv, KernelThere, CallersServed, Directory, Tables, BeforeVga, BeforeStack
<1> QED
  BY <1>1, <1>2, <1>3, <1>4, <1>5 DEF IInv

LEMMA StutterStep ==
  ASSUME IInv, UNCHANGED vars
  PROVE  IInv'
<1>1. UNCHANGED <<pc, pagedir, mem, managed, pool, held, tlb, asked, owed>>
  BY DEF vars, poolVars, callers
<1>2. TypeOK' /\ TablesApart' /\ DirectoryFound' /\ Coherent'
  BY <1>1 DEF IInv, TypeOK, TablesApart, DirectoryFound, Coherent, InUse, Directory, Early
<1>3. KernelThere' /\ CallersServed'
  BY <1>1 DEF IInv, KernelThere, CallersServed, Directory, Tables, BeforeVga, BeforeStack
<1> QED
  BY <1>1, <1>2, <1>3 DEF IInv

LEMMA IInvHolds == Spec => []IInv
<1>1. Init => IInv
  BY InitIInv
<1>2. IInv /\ [Next]_vars => IInv'
  <2> SUFFICES ASSUME IInv, [Next]_vars
               PROVE  IInv'
    OBVIOUS
  <2>1. CASE UNCHANGED vars
    BY <2>1, StutterStep
  <2>2. CASE Kmain
    BY <2>2, QuietStep, SetRecursiveMapStep, MapVgaStep, MapStackStep DEF Kmain
  <2>3. CASE RemoveIdentityMap
    BY <2>3, RemoveIdentityMapStep
  <2>4. CASE CallerAllocates
    BY <2>4, CallerAllocatesStep
  <2>5. CASE \E v \in CallerPages : CallerMaps(v) \/ CallerFrees(v) \/ CallerFlushes(v)
    BY <2>5, CallerMapsStep, CallerFreesStep, CallerFlushesStep
  <2> QED
    BY <2>1, <2>2, <2>3, <2>4, <2>5 DEF Next
<1> QED
  BY <1>1, <1>2, PTL DEF Spec

-----------------------------------------------------------------------------
(* Theorems *)

\* virtmem.c's variables, the tables and what callers know keep their types:
\* no entry, and nothing the TLB remembers, names a frame that does not exist.
THEOREM PagingTypeOK == Spec => []TypeOK
<1>1. IInv => TypeOK
  BY DEF IInv
<1> QED
  BY <1>1, IInvHolds, PTL

\* For tables of any size, whatever was in the blocks that become tables:
\* neither a table nor a frame callers have mapped can be allocated again, and
\* no frame serves as two tables.
THEOREM PagingNothingFreeInUse == Spec => []NothingFreeInUse
<1>1. IInv => NothingFreeInUse
  <2> SUFFICES ASSUME IInv
               PROVE  NothingFreeInUse
    OBVIOUS
  <2>1. \A v \in CallerPages : asked[v] \notin pool
    BY DEF IInv, CallersServed
  <2>2. \A d \in Slots : mem[DirFrame][d].present => mem[DirFrame][d].frame \notin pool
    BY TablesPlace DEF Directory
  <2>3. pool \cap (Tables \cup {asked[v] : v \in CallerPages}) = {}
    BY <2>1, <2>2 DEF Tables
  <2> QED
    BY <2>3 DEF IInv, TablesApart, NothingFreeInUse, Directory
<1> QED
  BY <1>1, IInvHolds, PTL

\* Whatever is mapped, freed and flushed, and in which order: a page that needs
\* no flush is where the last call of map_page put it, and nowhere once freed.
THEOREM PagingMappedAsAsked == Spec => []MappedAsAsked
<1>1. IInv => MappedAsAsked
  <2> SUFFICES ASSUME IInv, NEW v \in CallerPages, v \notin owed, asked[v] # Never
               PROVE  Seen(mem, v) = asked[v]
    BY DEF MappedAsAsked
  <2> QED
    BY CallerLayout, SeenIsTranslate DEF IInv, CallersServed
<1> QED
  BY <1>1, IInvHolds, PTL

\* With any block to allocate, each step of kmain, and any calls after it, leave
\* the pages that the kernel uses next where it expects them.
THEOREM PagingNeedsMapped == Spec => []NeedsMapped
<1>1. IInv => NeedsMapped
  <2> SUFFICES ASSUME IInv, managed # {}, NEW n \in Needs
               PROVE  Seen(mem, n[1]) = n[2]
    BY DEF NeedsMapped
  <2> DEFINE AfterStack == pc \in {"remove_identity_map", "kshell", "reset"}
             OnTop == IF AfterStack THEN <<StackPage, StackFrame>>
                                    ELSE <<<<0, StackFrame>>, StackFrame>>
  <2>0. Seen(mem, pagedir) = DirFrame
    <3>1. CASE Early
      <4>1. pagedir = <<0, DirFrame>> /\ pc # "kshell" /\ owed = {}
        BY <3>1 DEF Early, IInv, DirectoryFound, CallersServed
      <4>2. DirFrame \in Slots /\ pagedir \in Pages
        BY Layout DEF BootTables, IInv, TypeOK
      <4> QED
        BY <4>1, <4>2, SeenIsTranslate DEF IInv, KernelThere
    <3>2. CASE ~Early
      BY <3>2, Window
    <3> QED
      BY <3>1, <3>2
  <2>1. ASSUME pc # "kshell", NEW k \in Slots
        PROVE  Seen(mem, <<0, k>>) = k
    <3>1. <<0, k>> \in Pages /\ owed = {}
      BY <2>1, Layout DEF Pages, IInv, CallersServed
    <3> QED
      BY <2>1, <3>1, SeenIsTranslate DEF IInv, KernelThere
  <2>2. \A k \in 0 .. KernelPages - 1 : Seen(mem, <<KernelSlot, k>>) = KernelFrame + k
    <3>1. \A k \in 0 .. KernelPages - 1 : <<KernelSlot, k>> \notin CallerPages
      BY CallerLayout, Layout DEF Slots
    <3> QED
      BY <3>1, SeenIsTranslate, KernelFound DEF IInv, KernelThere, TypeOK
  <2>3. ASSUME ~BeforeStack PROVE Seen(mem, StackPage) = StackFrame
    <3>1. StackPage \notin CallerPages
      BY CallerLayout DEF StackPage
    <3> QED
      BY <2>3, <3>1, SeenIsTranslate, KernelFound DEF IInv, KernelThere, TypeOK
  <2>4. ASSUME ~BeforeVga PROVE Seen(mem, VgaPage) = VgaFrame
    <3>1. VgaPage \notin CallerPages
      BY CallerLayout, Layout DEF VgaPage, Slots
    <3> QED
      BY <2>4, <3>1, SeenIsTranslate, KernelFound DEF IInv, KernelThere, TypeOK
  <2>5. Seen(mem, OnTop[1]) = OnTop[2]
    <3>1. CASE AfterStack
      BY <2>3, <3>1 DEF BeforeStack, BeforeVga
    <3>2. CASE ~AfterStack
      BY <2>1, <3>2, Layout
    <3> QED
      BY <3>1, <3>2
  <2>6. CASE \E k \in 0 .. KernelPages - 1 : n = <<<<KernelSlot, k>>, KernelFrame + k>>
    BY <2>2, <2>6
  <2>7. CASE n = OnTop
    BY <2>5, <2>7
  <2>8. CASE n = <<pagedir, DirFrame>>
    BY <2>0, <2>8
  <2>9. CASE pc = "pmmngr_init" /\ n = <<<<0, MmapFrame>>, MmapFrame>>
    BY <2>1, <2>9, Layout
  <2>10. CASE pc \in {"clear_screen", "kshell"} /\ n = <<VgaPage, VgaFrame>>
    BY <2>4, <2>10 DEF BeforeVga
  <2> QED
    BY <2>6, <2>7, <2>8, <2>9, <2>10 DEF Needs
<1> QED
  BY <1>1, IInvHolds, PTL

-----------------------------------------------------------------------------
(* Page replacement: how often a page is in a sequence *)

One(b) == IF b THEN 1 ELSE 0
Where(pages, id) == {k \in 1 .. Len(pages) : pages[k].id = id}

LEMMA CopiesIs ==
  ASSUME NEW S, NEW s \in Seq(S), NEW id
  PROVE  /\ Copies(s, id) = Cardinality(Where(s, id)) /\ IsFiniteSet(Where(s, id))
         /\ Copies(s, id) \in Nat /\ Len(s) \in Nat
         /\ Copies(s, id) = 0 <=> \A k \in 1 .. Len(s) : s[k].id # id
<1>1. Len(s) \in Nat /\ DOMAIN s = 1 .. Len(s)
  BY LenProperties
<1>2. Copies(s, id) = Cardinality(Where(s, id))
  BY <1>1 DEF Copies, Where
<1>3. IsFiniteSet(Where(s, id))
  <2>1. IsFiniteSet(1 .. Len(s))
    BY <1>1, FS_Interval
  <2>2. Where(s, id) \in SUBSET (1 .. Len(s))
    BY DEF Where
  <2> QED
    BY <2>1, <2>2, FS_Subset
<1>4. Copies(s, id) \in Nat
  BY <1>2, <1>3, FS_CardinalityType
<1>5. Copies(s, id) = 0 <=> Where(s, id) = {}
  BY <1>2, <1>3, FS_EmptySet
<1> QED
  BY <1>1, <1>2, <1>3, <1>4, <1>5 DEF Where

\* Sequences that agree on the pages have them as often.
LEMMA CopiesSame ==
  ASSUME NEW S, NEW s \in Seq(S), NEW t \in Seq(S), NEW id, Len(s) = Len(t),
         \A k \in 1 .. Len(s) : s[k].id = t[k].id
  PROVE  Copies(s, id) = Copies(t, id)
<1>1. Where(s, id) = Where(t, id)
  BY DEF Where
<1> QED
  BY <1>1, CopiesIs

LEMMA CopiesOne ==
  ASSUME NEW S, NEW s \in Seq(S), NEW k \in 1 .. Len(s),
         \A j \in 1 .. Len(s) : s[j].id = s[k].id => j = k
  PROVE  Copies(s, s[k].id) = 1
<1>1. Where(s, s[k].id) = {k}
  BY DEF Where
<1>2. Cardinality({k}) = 1
  BY FS_Singleton
<1>3. Copies(s, s[k].id) = Cardinality(Where(s, s[k].id))
  BY CopiesIs
<1> QED
  BY <1>1, <1>2, <1>3

LEMMA CopiesEmpty ==
  ASSUME NEW id
  PROVE  Copies(<<>>, id) = 0
<1>1. <<>> \in Seq({}) /\ Len(<<>>) = 0
  OBVIOUS
<1>2. \A k \in 1 .. Len(<<>>) : <<>>[k].id # id
  BY <1>1
<1> QED
  BY <1>1, <1>2, CopiesIs

\* u is s followed by t.
Joined(u, s, t) ==
  /\ Len(u) = Len(s) + Len(t)
  /\ \A k \in 1 .. Len(s) : u[k] = s[k]
  /\ \A k \in 1 .. Len(t) : u[Len(s) + k] = t[k]

LEMMA ConcatPlaces ==
  ASSUME NEW S, NEW s \in Seq(S), NEW t \in Seq(S)
  PROVE  s \o t \in Seq(S) /\ Joined(s \o t, s, t)
<1> DEFINE u == s \o t
           m == Len(s)
<1>1. /\ u \in Seq(S) /\ Len(u) = m + Len(t) /\ m \in Nat /\ Len(t) \in Nat
      /\ \A k \in 1 .. m + Len(t) : u[k] = IF k <= m THEN s[k] ELSE t[k - m]
  BY ConcatProperties, LenProperties
<1> HIDE DEF u, m
<1>2. \A k \in 1 .. m : u[k] = s[k]
  BY <1>1
<1>3. \A k \in 1 .. Len(t) : u[m + k] = t[k]
  <2> TAKE k \in 1 .. Len(t)
  <2>1. m + k \in 1 .. m + Len(t) /\ ~(m + k <= m) /\ (m + k) - m = k
    BY <1>1
  <2> QED
    BY <1>1, <2>1
<1> QED
  BY <1>1, <1>2, <1>3 DEF u, m, Joined

LEMMA CopiesConcat ==
  ASSUME NEW S, NEW s \in Seq(S), NEW t \in Seq(S), NEW id
  PROVE  Copies(s \o t, id) = Copies(s, id) + Copies(t, id)
<1> DEFINE u == s \o t
           m == Len(s)
           A == Where(s, id)
           B == Where(t, id)
           C == {k \in m + 1 .. m + Len(t) : u[k].id = id}
           shift == [k \in B |-> m + k]
<1>1. /\ u \in Seq(S) /\ Len(u) = m + Len(t) /\ m \in Nat /\ Len(t) \in Nat
      /\ \A k \in 1 .. m + Len(t) : u[k] = IF k <= m THEN s[k] ELSE t[k - m]
  BY ConcatProperties, LenProperties
<1> HIDE DEF u, m
<1>2. \A k \in 1 .. m : k \in 1 .. m + Len(t) /\ u[k] = s[k]
  BY <1>1
<1>3. \A k \in 1 .. Len(t) : m + k \in 1 .. m + Len(t) /\ u[m + k] = t[k]
  BY <1>1
<1>4. Where(u, id) = A \cup C /\ A \cap C = {}
  <2>1. A = {k \in 1 .. m : u[k].id = id}
    BY <1>2 DEF Where, m
  <2>2. 1 .. m + Len(t) = (1 .. m) \cup (m + 1 .. m + Len(t)) /\ (1 .. m) \cap (m + 1 .. m + Len(t)) = {}
    BY <1>1
  <2> QED
    BY <1>1, <2>1, <2>2 DEF Where
<1>5. shift \in Bijection(B, C)
  <2>1. \A k \in B : k \in 1 .. Len(t) /\ m + k \in C
    BY <1>1, <1>3 DEF Where
  <2>2. \A j, k \in B : m + j = m + k => j = k
    BY <1>1, <2>1
  <2>3. ASSUME NEW c \in C PROVE \E k \in B : m + k = c
    <3>1. c \in m + 1 .. m + Len(t) /\ u[c].id = id
      OBVIOUS
    <3>2. c - m \in 1 .. Len(t) /\ m + (c - m) = c
      BY <1>1, <3>1
    <3>3. c - m \in B
      BY <1>3, <3>1, <3>2 DEF Where
    <3> QED
      BY <3>2, <3>3
  <2> HIDE DEF B, C
  <2> QED
    BY <2>1, <2>2, <2>3 DEF Bijection, Injection, Surjection, IsInjective
<1>6. IsFiniteSet(A) /\ IsFiniteSet(B) /\ Copies(s, id) = Cardinality(A) /\ Copies(t, id) = Cardinality(B)
  BY CopiesIs
<1>7. Copies(u, id) = Cardinality(Where(u, id))
  BY <1>1, CopiesIs
<1> HIDE DEF A, B, C, shift
<1>8. IsFiniteSet(C) /\ Cardinality(C) = Cardinality(B)
  BY <1>5, <1>6, FS_Bijection DEF ExistsBijection
<1>9. Cardinality(A \cup C) = Cardinality(A) + Cardinality(C)
  <2>1. Cardinality(A \cup C) = Cardinality(A) + Cardinality(C) - Cardinality({})
    BY <1>4, <1>6, <1>8, FS_Union
  <2> QED
    BY <1>6, <1>8, <2>1, FS_EmptySet, FS_CardinalityType
<1> QED
  BY <1>4, <1>6, <1>7, <1>8, <1>9 DEF u

LEMMA CopiesSingle ==
  ASSUME NEW x, NEW id
  PROVE  Copies(<<x>>, id) = One(x.id = id)
<1> DEFINE s == <<x>>
<1>1. s \in Seq({x}) /\ Len(s) = 1 /\ s[1] = x
  OBVIOUS
<1> HIDE DEF s
<1>2. CASE x.id = id
  <2>1. 1 \in 1 .. Len(s) /\ \A j \in 1 .. Len(s) : j = 1
    BY <1>1
  <2>2. Copies(s, s[1].id) = 1
    BY <1>1, <2>1, CopiesOne
  <2> QED
    BY <1>1, <1>2, <2>2 DEF One, s
<1>3. CASE x.id # id
  <2>1. \A k \in 1 .. Len(s) : s[k].id # id
    BY <1>1, <1>3
  <2> QED
    BY <1>1, <1>3, <2>1, CopiesIs DEF One, s
<1> QED
  BY <1>2, <1>3

LEMMA CopiesAppend ==
  ASSUME NEW S, NEW s \in Seq(S), NEW x \in S, NEW id
  PROVE  Copies(Append(s, x), id) = Copies(s, id) + One(x.id = id)
<1>1. Append(s, x) = s \o <<x>> /\ <<x>> \in Seq(S)
  BY AppendIsConcat
<1>2. Copies(s \o <<x>>, id) = Copies(s, id) + Copies(<<x>>, id)
  BY <1>1, CopiesConcat
<1>3. Copies(<<x>>, id) = One(x.id = id)
  BY CopiesSingle
<1> QED
  BY <1>1, <1>2, <1>3

\* A page put in the place of another.
LEMMA CopiesExcept ==
  ASSUME NEW S, NEW s \in Seq(S), NEW k \in 1 .. Len(s), NEW x \in S, NEW id
  PROVE  Copies([s EXCEPT ![k] = x], id) + One(s[k].id = id) = Copies(s, id) + One(x.id = id)
<1> DEFINE t == [s EXCEPT ![k] = x]
           R == Where(s, id) \ {k}
<1>1. /\ t \in Seq(S) /\ Len(t) = Len(s)
      /\ \A j \in 1 .. Len(s) : t[j] = IF j = k THEN x ELSE s[j]
  BY ExceptSeq
<1> HIDE DEF t
<1>2. /\ IsFiniteSet(Where(s, id)) /\ Copies(s, id) = Cardinality(Where(s, id))
      /\ Copies(t, id) = Cardinality(Where(t, id))
  BY <1>1, CopiesIs
<1>3. /\ Where(s, id) = IF s[k].id = id THEN R \cup {k} ELSE R
      /\ Where(t, id) = IF x.id = id THEN R \cup {k} ELSE R
      /\ k \notin R
  BY <1>1 DEF Where
<1> HIDE DEF R
<1>4. IsFiniteSet(R)
  <2>1. R \in SUBSET Where(s, id)
    BY <1>3
  <2> QED
    BY <1>2, <2>1, FS_Subset
<1>5. Cardinality(R \cup {k}) = Cardinality(R) + 1 /\ Cardinality(R) \in Nat
  BY <1>3, <1>4, FS_AddElement, FS_CardinalityType
<1> QED
  BY <1>2, <1>3, <1>5 DEF One, t

\* A page taken out: the parts a before it and b behind it are what is left.
\* r is s without its k-th element.
Without(r, s, k, S) ==
  \E a, b \in Seq(S) : r = a \o b /\ s = (a \o <<s[k]>>) \o b

LEMMA RemoveAtPlaces ==
  ASSUME NEW S, NEW s \in Seq(S), NEW k \in 1 .. Len(s)
  PROVE  /\ RemoveAt(s, k) \in Seq(S) /\ Len(RemoveAt(s, k)) = Len(s) - 1
         /\ \A j \in 1 .. Len(RemoveAt(s, k)) :
              RemoveAt(s, k)[j] = IF j < k THEN s[j] ELSE s[j + 1]
         /\ Without(RemoveAt(s, k), s, k, S)
<1> DEFINE a == SubSeq(s, 1, k - 1)
           b == SubSeq(s, k + 1, Len(s))
           c == <<s[k]>>
<1>1. Len(s) \in Nat /\ k \in Nat /\ k >= 1 /\ k <= Len(s) /\ \A j \in 1 .. Len(s) : s[j] \in S
  BY LenProperties, ElementOfSeq
<1>2. /\ a \in Seq(S) /\ Len(a) = k - 1
      /\ \A j \in 1 .. k - 1 : a[j] = s[j]
  <2> DEFINE m == 1
             n == k - 1
  <2>1. m \in Int /\ n \in Int /\ \A j \in m .. n : s[j] \in S
    BY <1>1
  <2> HIDE DEF m, n
  <2>2. /\ SubSeq(s, m, n) \in Seq(S)
        /\ Len(SubSeq(s, m, n)) = IF m <= n THEN n - m + 1 ELSE 0
        /\ \A j \in 1 .. n - m + 1 : SubSeq(s, m, n)[j] = s[m + j - 1]
    BY <2>1, SubSeqProperties
  <2> QED
    BY <1>1, <2>2 DEF m, n
<1>3. /\ b \in Seq(S) /\ Len(b) = Len(s) - k
      /\ \A j \in 1 .. Len(s) - k : b[j] = s[k + j]
  <2> DEFINE m == k + 1
             n == Len(s)
  <2>1. m \in Int /\ n \in Int /\ \A j \in m .. n : s[j] \in S
    BY <1>1
  <2> HIDE DEF m, n
  <2>2. /\ SubSeq(s, m, n) \in Seq(S)
        /\ Len(SubSeq(s, m, n)) = IF m <= n THEN n - m + 1 ELSE 0
        /\ \A j \in 1 .. n - m + 1 : SubSeq(s, m, n)[j] = s[m + j - 1]
    BY <2>1, SubSeqProperties
  <2> QED
    BY <1>1, <2>2 DEF m, n
<1>4. c \in Seq(S) /\ Len(c) = 1 /\ c[1] = s[k]
  BY <1>1
<1>6. RemoveAt(s, k) = a \o b
  BY DEF RemoveAt
<1> HIDE DEF a, b, c
<1>7. /\ a \o b \in Seq(S) /\ Len(a \o b) = Len(s) - 1
      /\ \A j \in 1 .. Len(a) : (a \o b)[j] = a[j]
      /\ \A j \in 1 .. Len(b) : (a \o b)[Len(a) + j] = b[j]
  <2>2. a \o b \in Seq(S) /\ Joined(a \o b, a, b)
    BY <1>2, <1>3, ConcatPlaces
  <2> QED
    BY <1>1, <1>2, <1>3, <2>2 DEF Joined
<1>8. ASSUME NEW j \in 1 .. Len(a \o b)
      PROVE  (a \o b)[j] = IF j < k THEN s[j] ELSE s[j + 1]
  <2>1. CASE j < k
    <3>1. j \in 1 .. Len(a) /\ j \in 1 .. k - 1
      BY <1>1, <1>2, <2>1
    <3> QED
      BY <1>2, <1>7, <2>1, <3>1
  <2>2. CASE ~(j < k)
    <3>1. /\ j - (k - 1) \in 1 .. Len(b) /\ Len(a) + (j - (k - 1)) = j
          /\ j - (k - 1) \in 1 .. Len(s) - k /\ k + (j - (k - 1)) = j + 1
      BY <1>1, <1>2, <1>3, <1>7, <2>2
    <3> QED
      BY <1>3, <1>7, <2>2, <3>1
  <2> QED
    BY <2>1, <2>2
<1>9. s = a \o c \o b
  <2>1. /\ a \o c \in Seq(S) /\ Len(a \o c) = k
        /\ \A j \in 1 .. k - 1 : (a \o c)[j] = s[j]
        /\ (a \o c)[k] = s[k]
    <3>1. a \o c \in Seq(S) /\ Joined(a \o c, a, c)
      BY <1>2, <1>4, ConcatPlaces
    <3>2. 1 \in 1 .. Len(c) /\ Len(a) + 1 = k
      BY <1>1, <1>2, <1>4
    <3> QED
      BY <1>1, <1>2, <1>4, <3>1, <3>2 DEF Joined
  <2> DEFINE d == a \o c
  <2> HIDE DEF d
  <2>2. /\ d \in Seq(S) /\ Len(d) = k /\ \A j \in 1 .. k : d[j] = s[j]
    BY <1>1, <2>1 DEF d
  <2>3. d \o b \in Seq(S) /\ Joined(d \o b, d, b)
    BY <1>3, <2>2, ConcatPlaces
  <2>4. Len(d \o b) = Len(s)
    BY <1>1, <1>3, <2>2, <2>3 DEF Joined
  <2>5. ASSUME NEW j \in 1 .. Len(s)
        PROVE  s[j] = (d \o b)[j]
    <3>1. CASE j <= k
      <4>1. j \in 1 .. k
        BY <1>1, <3>1
      <4>2. (d \o b)[j] = d[j]
        BY <2>2, <2>3, <4>1 DEF Joined
      <4> QED
        BY <2>2, <4>1, <4>2
    <3>2. CASE j > k
      <4>1. PICK i \in 1 .. Len(b) : Len(d) + i = j /\ i \in 1 .. Len(s) - k /\ k + i = j
        <5>1. j - k \in 1 .. Len(b) /\ Len(d) + (j - k) = j /\ j - k \in 1 .. Len(s) - k /\ k + (j - k) = j
          BY <1>1, <1>3, <2>2, <3>2
        <5> QED
          BY <5>1
      <4>2. (d \o b)[Len(d) + i] = b[i]
        BY <2>3 DEF Joined
      <4>3. b[i] = s[k + i]
        BY <1>3, <4>1
      <4> QED
        BY <4>1, <4>2, <4>3
    <3>3. j <= k \/ j > k
      BY <1>1
    <3> QED
      BY <3>1, <3>2, <3>3
  <2> QED
    BY <2>3, <2>4, <2>5, SeqEqual DEF d
<1>10. s = (a \o <<s[k]>>) \o b
  BY <1>9 DEF c
<1>11. Without(RemoveAt(s, k), s, k, S)
  BY Zenon, <1>2, <1>3, <1>6, <1>10 DEF Without
<1>12. /\ RemoveAt(s, k) \in Seq(S) /\ Len(RemoveAt(s, k)) = Len(s) - 1
       /\ \A j \in 1 .. Len(RemoveAt(s, k)) :
            RemoveAt(s, k)[j] = IF j < k THEN s[j] ELSE s[j + 1]
  BY <1>6, <1>7, <1>8
<1> QED
  BY Zenon, <1>11, <1>12

LEMMA CopiesRemoveAt ==
  ASSUME NEW S, NEW s \in Seq(S), NEW k \in 1 .. Len(s), NEW id
  PROVE  Copies(RemoveAt(s, k), id) + One(s[k].id = id) = Copies(s, id)
<1>1. PICK a, b \in Seq(S) : RemoveAt(s, k) = a \o b /\ s = (a \o <<s[k]>>) \o b
  <2>1. Without(RemoveAt(s, k), s, k, S)
    BY RemoveAtPlaces
  <2> QED
    BY Zenon, <2>1 DEF Without
<1> DEFINE c == <<s[k]>>
           d == a \o c
<1>2. c \in Seq(S)
  BY ElementOfSeq
<1>3. Copies(c, id) = One(s[k].id = id)
  BY CopiesSingle
<1>4. s = d \o b
  BY <1>1
<1> HIDE DEF c
<1>5. d \in Seq(S) /\ Copies(d, id) = Copies(a, id) + Copies(c, id)
  BY <1>2, CopiesConcat, ConcatPlaces
<1> HIDE DEF d
<1>6. Copies(d \o b, id) = Copies(d, id) + Copies(b, id)
  BY <1>5, CopiesConcat
<1>7. Copies(a \o b, id) = Copies(a, id) + Copies(b, id)
  BY CopiesConcat
<1>8. /\ Copies(a, id) \in Nat /\ Copies(b, id) \in Nat /\ Copies(c, id) \in Nat
  BY <1>2, CopiesIs
<1>9. Copies(a \o b, id) + Copies(c, id) = Copies(d \o b, id)
  BY <1>5, <1>6, <1>7, <1>8
<1> QED
  BY <1>1, <1>3, <1>4, <1>9

-----------------------------------------------------------------------------
(* Page replacement: what moving a page between the sequences does *)

Page == [id : PageIds, lastUsed : Nat, referenced : BOOLEAN]
Ids(pages) == {pages[k].id : k \in 1 .. Len(pages)}
Single(pages) == \A j, k \in 1 .. Len(pages) : pages[j].id = pages[k].id => j = k

\* Page id was moved from disk d to frames f, what came of them being e and g.
Moves(f, d, g, e, id) ==
  /\ g \in Seq(Page) /\ e \in Seq(Page) /\ Single(g)
  /\ id \in Ids(g) /\ Ids(g) \subseteq Ids(f) \cup {id}
  /\ Ids(e) \subseteq Ids(f) \cup Ids(d)

Balanced(f, d, g, e) ==
  \A i \in PageIds : Copies(g, i) + Copies(e, i) = Copies(f, i) + Copies(d, i)

LEMMA IdsAppend ==
  ASSUME NEW s \in Seq(Page), NEW x \in Page
  PROVE  /\ Append(s, x) \in Seq(Page) /\ Len(Append(s, x)) = Len(s) + 1
         /\ Ids(Append(s, x)) = Ids(s) \cup {x.id}
         /\ \A k \in 1 .. Len(s) : Append(s, x)[k] = s[k]
         /\ Append(s, x)[Len(s) + 1] = x
<1> DEFINE t == Append(s, x)
<1>1. /\ t \in Seq(Page) /\ Len(t) = Len(s) + 1 /\ Len(s) \in Nat
      /\ \A k \in 1 .. Len(s) : t[k] = s[k]
      /\ t[Len(s) + 1] = x
  BY AppendProperties, LenProperties
<1> HIDE DEF t
<1>2. 1 .. Len(t) = (1 .. Len(s)) \cup {Len(s) + 1}
  BY <1>1
<1>3. Ids(t) = Ids(s) \cup {x.id}
  BY <1>1, <1>2 DEF Ids
<1> QED
  BY <1>1, <1>3 DEF t

LEMMA IdsRemoveAt ==
  ASSUME NEW s \in Seq(Page), NEW k \in 1 .. Len(s)
  PROVE  RemoveAt(s, k) \in Seq(Page) /\ Ids(RemoveAt(s, k)) \subseteq Ids(s)
<1> DEFINE t == RemoveAt(s, k)
<1>1. /\ t \in Seq(Page) /\ Len(t) = Len(s) - 1 /\ Len(s) \in Nat
      /\ \A j \in 1 .. Len(t) : t[j] = IF j < k THEN s[j] ELSE s[j + 1]
  BY RemoveAtPlaces, LenProperties
<1> HIDE DEF t
<1>2. \A j \in 1 .. Len(t) : j \in 1 .. Len(s) /\ j + 1 \in 1 .. Len(s)
  BY <1>1
<1>3. ASSUME NEW j \in 1 .. Len(t) PROVE t[j].id \in Ids(s)
  <2>1. CASE j < k
    BY <1>1, <1>2, <2>1 DEF Ids
  <2>2. CASE ~(j < k)
    BY <1>1, <1>2, <2>2 DEF Ids
  <2> QED
    BY <2>1, <2>2
<1> QED
  BY <1>1, <1>3 DEF Ids, t

\* A free frame is filled.
LEMMA Filling ==
  ASSUME NEW f \in Seq(Page), NEW d \in Seq(Page), NEW k \in 1 .. Len(d), NEW x \in Page,
         Single(f), x.id = d[k].id, x.id \notin Ids(f)
  PROVE  /\ Moves(f, d, Append(f, x), RemoveAt(d, k), x.id)
         /\ Balanced(f, d, Append(f, x), RemoveAt(d, k))
<1> DEFINE g == Append(f, x)
           e == RemoveAt(d, k)
<1>1. /\ g \in Seq(Page) /\ Len(g) = Len(f) + 1 /\ Ids(g) = Ids(f) \cup {x.id}
      /\ \A j \in 1 .. Len(f) : g[j] = f[j]
      /\ g[Len(f) + 1] = x
  BY IdsAppend
<1>2. e \in Seq(Page) /\ Ids(e) \subseteq Ids(d)
  BY IdsRemoveAt
<1>3. ASSUME NEW i \in PageIds
      PROVE  Copies(g, i) + Copies(e, i) = Copies(f, i) + Copies(d, i)
  <2>1. Copies(g, i) = Copies(f, i) + One(x.id = i)
    BY CopiesAppend
  <2>2. Copies(e, i) + One(x.id = i) = Copies(d, i)
    BY CopiesRemoveAt
  <2>3. Copies(f, i) \in Nat /\ Copies(e, i) \in Nat /\ One(x.id = i) \in Nat
    BY <1>2, CopiesIs DEF One
  <2> HIDE DEF g, e
  <2> QED
    BY <2>1, <2>2, <2>3
<1> HIDE DEF g, e
<1>4. Single(g)
  <2> SUFFICES ASSUME NEW i \in 1 .. Len(g), NEW j \in 1 .. Len(g), g[i].id = g[j].id
               PROVE  i = j
    BY DEF Single
  <2>1. Len(f) \in Nat
    BY LenProperties
  <2>2. i \in 1 .. Len(f) \/ i = Len(f) + 1
    BY <1>1, <2>1
  <2>3. j \in 1 .. Len(f) \/ j = Len(f) + 1
    BY <1>1, <2>1
  <2>4. \A m \in 1 .. Len(f) : g[m].id # x.id
    BY <1>1 DEF Ids
  <2> QED
    BY <1>1, <2>2, <2>3, <2>4 DEF Single
<1> QED
  BY <1>1, <1>2, <1>3, <1>4 DEF Moves, Balanced, g, e

\* The disk d after page o came to it and page k left.
LEMMA DiskIds ==
  ASSUME NEW d \in Seq(Page), NEW k \in 1 .. Len(d), NEW o \in Page
  PROVE  /\ RemoveAt(Append(d, o), k) \in Seq(Page)
         /\ Ids(RemoveAt(Append(d, o), k)) \subseteq Ids(d) \cup {o.id}
<1> DEFINE a == Append(d, o)
<1>1. /\ a \in Seq(Page) /\ Len(a) = Len(d) + 1 /\ Ids(a) = Ids(d) \cup {o.id} /\ Len(d) \in Nat
  BY IdsAppend, LenProperties
<1> HIDE DEF a
<1>2. k \in 1 .. Len(a)
  BY <1>1
<1>3. RemoveAt(a, k) \in Seq(Page) /\ Ids(RemoveAt(a, k)) \subseteq Ids(a)
  BY <1>1, <1>2, IdsRemoveAt
<1> QED
  BY <1>1, <1>3 DEF a

LEMMA DiskCopies ==
  ASSUME NEW d \in Seq(Page), NEW k \in 1 .. Len(d), NEW o \in Page, NEW i
  PROVE  Copies(RemoveAt(Append(d, o), k), i) + One(d[k].id = i) = Copies(d, i) + One(o.id = i)
<1> DEFINE a == Append(d, o)
<1>1. /\ a \in Seq(Page) /\ Len(a) = Len(d) + 1 /\ a[k] = d[k] /\ Len(d) \in Nat
  BY IdsAppend, LenProperties
<1>2. Copies(a, i) = Copies(d, i) + One(o.id = i)
  BY CopiesAppend
<1> HIDE DEF a
<1>3. k \in 1 .. Len(a)
  BY <1>1
<1>4. Copies(RemoveAt(a, k), i) + One(a[k].id = i) = Copies(a, i)
  BY <1>1, <1>3, CopiesRemoveAt
<1> QED
  BY <1>1, <1>2, <1>4 DEF a

\* A page takes the frame of another, h being the frames but for their marks.
LEMMA SwapCopies ==
  ASSUME NEW h \in Seq(Page), NEW v \in 1 .. Len(h), NEW x \in Page, NEW i \in PageIds,
         NEW d \in Seq(Page), NEW k \in 1 .. Len(d), x.id = d[k].id
  PROVE  Copies([h EXCEPT ![v] = x], i) + Copies(RemoveAt(Append(d, h[v]), k), i)
           = Copies(h, i) + Copies(d, i)
<1> DEFINE X == One(d[k].id = i)
           H == One(h[v].id = i)
           cg == Copies([h EXCEPT ![v] = x], i)
           ce == Copies(RemoveAt(Append(d, h[v]), k), i)
           ch == Copies(h, i)
           cd == Copies(d, i)
<1>1. h[v] \in Page
  BY ElementOfSeq
<1>2. cg + H = ch + X
  BY CopiesExcept
<1>3. ce + X = cd + H
  BY <1>1, DiskCopies
<1>4. [h EXCEPT ![v] = x] \in Seq(Page) /\ RemoveAt(Append(d, h[v]), k) \in Seq(Page)
  BY <1>1, ExceptSeq, DiskIds
<1>5. X \in Nat /\ H \in Nat
  BY DEF One
<1>6. cg \in Nat /\ ce \in Nat /\ ch \in Nat /\ cd \in Nat
  BY <1>4, CopiesIs
<1> HIDE DEF X, H, cg, ce, ch, cd
<1>7. cg + ce = ch + cd
  BY <1>2, <1>3, <1>5, <1>6
<1> QED
  BY <1>7 DEF cg, ce, ch, cd

LEMMA Swapping ==
  ASSUME NEW f \in Seq(Page), NEW d \in Seq(Page), NEW k \in 1 .. Len(d), NEW x \in Page,
         Single(f), x.id = d[k].id, x.id \notin Ids(f),
         NEW h \in Seq(Page), NEW v \in 1 .. Len(f), Len(h) = Len(f),
         \A j \in 1 .. Len(f) : h[j].id = f[j].id
  PROVE  /\ Moves(f, d, [h EXCEPT ![v] = x], RemoveAt(Append(d, h[v]), k), x.id)
         /\ Balanced(f, d, [h EXCEPT ![v] = x], RemoveAt(Append(d, h[v]), k))
<1> DEFINE g == [h EXCEPT ![v] = x]
           e == RemoveAt(Append(d, h[v]), k)
<1>1. v \in 1 .. Len(h) /\ h[v] \in Page /\ h[v].id = f[v].id
  BY ElementOfSeq
<1>2. /\ g \in Seq(Page) /\ Len(g) = Len(f)
      /\ \A j \in 1 .. Len(f) : g[j] = IF j = v THEN x ELSE h[j]
  BY <1>1, ExceptSeq
<1>3. e \in Seq(Page) /\ Ids(e) \subseteq Ids(d) \cup {f[v].id}
  BY <1>1, DiskIds
<1>4. ASSUME NEW i \in PageIds
      PROVE  Copies(g, i) + Copies(e, i) = Copies(f, i) + Copies(d, i)
  <2>1. Copies(g, i) + Copies(e, i) = Copies(h, i) + Copies(d, i)
    BY <1>1, SwapCopies
  <2>2. Copies(h, i) = Copies(f, i)
    BY CopiesSame
  <2> HIDE DEF g, e
  <2> QED
    BY <2>1, <2>2
<1> HIDE DEF g, e
<1>5. Single(g)
  BY <1>2 DEF Single, Ids
<1>6. x.id \in Ids(g) /\ Ids(g) \subseteq Ids(f) \cup {x.id} /\ f[v].id \in Ids(f)
  <2>1. g[v].id = x.id
    BY <1>2
  <2>2. \A j \in 1 .. Len(f) : g[j].id = x.id \/ g[j].id = f[j].id
    BY <1>2
  <2>3. x.id \in Ids(g)
    BY <1>2, <2>1 DEF Ids
  <2>4. Ids(g) \subseteq Ids(f) \cup {x.id}
    BY <1>2, <2>2 DEF Ids
  <2> QED
    BY <2>3, <2>4 DEF Ids
<1> QED
  BY <1>2, <1>3, <1>4, <1>5, <1>6 DEF Moves, Balanced, g, e

\* A page comes in behind the others and the first goes out.
LEMMA QueueCopies ==
  ASSUME NEW f \in Seq(Page), f # <<>>, NEW i \in PageIds,
         NEW d \in Seq(Page), NEW k \in 1 .. Len(d)
  PROVE  Copies(Append(Tail(f), d[k]), i) + Copies(RemoveAt(Append(d, f[1]), k), i)
           = Copies(f, i) + Copies(d, i)
<1> DEFINE X == One(d[k].id = i)
           H == One(f[1].id = i)
           t == Tail(f)
           c == <<f[1]>>
           ct == Copies(t, i)
           cg == Copies(Append(t, d[k]), i)
           ce == Copies(RemoveAt(Append(d, f[1]), k), i)
           cf == Copies(f, i)
           cd == Copies(d, i)
<1>1. t \in Seq(Page) /\ f[1] \in Page /\ d[k] \in Page /\ c \in Seq(Page) /\ f = c \o t
  BY HeadTailProperties, ElementOfSeq
<1>2. cf = H + ct
  <2>1. Copies(c, i) = H
    BY CopiesSingle
  <2> HIDE DEF c, t, H
  <2>2. Copies(c \o t, i) = Copies(c, i) + Copies(t, i)
    BY <1>1, CopiesConcat
  <2> QED
    BY <1>1, <2>1, <2>2
<1>3. cg = ct + X
  <2> HIDE DEF t
  <2> QED
    BY <1>1, CopiesAppend
<1>4. ce + X = cd + H
  BY <1>1, DiskCopies
<1>5. RemoveAt(Append(d, f[1]), k) \in Seq(Page)
  BY <1>1, DiskIds
<1>6. X \in Nat /\ H \in Nat
  BY DEF One
<1>7. ct \in Nat /\ ce \in Nat /\ cd \in Nat
  <2> HIDE DEF t
  <2> QED
    BY <1>1, <1>5, CopiesIs
<1> HIDE DEF X, H, t, c, ct, cg, ce, cf, cd
<1>8. cg + ce = cf + cd
  BY <1>2, <1>3, <1>4, <1>6, <1>7
<1> QED
  BY <1>8 DEF cg, ce, cf, cd, t

LEMMA Queueing ==
  ASSUME NEW f \in Seq(Page), NEW d \in Seq(Page), NEW k \in 1 .. Len(d), f # <<>>,
         Single(f), d[k].id \notin Ids(f)
  PROVE  /\ Moves(f, d, Append(Tail(f), d[k]), RemoveAt(Append(d, f[1]), k), d[k].id)
         /\ Balanced(f, d, Append(Tail(f), d[k]), RemoveAt(Append(d, f[1]), k))
         /\ Len(Append(Tail(f), d[k])) = Len(f)
         /\ \A j \in 1 .. Len(f) - 1 : Append(Tail(f), d[k])[j] = f[j + 1]
         /\ Append(Tail(f), d[k])[Len(f)] = d[k]
<1> DEFINE t == Tail(f)
           g == Append(t, d[k])
           e == RemoveAt(Append(d, f[1]), k)
<1>1. /\ t \in Seq(Page) /\ Len(t) = Len(f) - 1 /\ Len(f) \in Nat /\ Len(f) >= 1
      /\ \A j \in 1 .. Len(t) : t[j] = f[j + 1]
  BY HeadTailProperties, LenProperties
<1>2. 1 \in 1 .. Len(f) /\ f[1] \in Page /\ d[k] \in Page
  BY <1>1, ElementOfSeq
<1>3. \A i \in PageIds : Copies(g, i) + Copies(e, i) = Copies(f, i) + Copies(d, i)
  BY QueueCopies
<1>4. e \in Seq(Page) /\ Ids(e) \subseteq Ids(d) \cup {f[1].id}
  BY <1>2, DiskIds
<1> HIDE DEF t, e
<1>5. /\ g \in Seq(Page) /\ Len(g) = Len(t) + 1 /\ Ids(g) = Ids(t) \cup {d[k].id}
      /\ \A j \in 1 .. Len(t) : g[j] = t[j]
      /\ g[Len(t) + 1] = d[k]
  BY <1>1, <1>2, IdsAppend
<1> HIDE DEF g
<1>6. Len(g) = Len(f) /\ g[Len(f)] = d[k] /\ \A j \in 1 .. Len(f) - 1 : g[j] = f[j + 1]
  <2>1. Len(t) + 1 = Len(f)
    BY <1>1
  <2> QED
    BY <1>1, <1>5, <2>1
<1>7. \A j \in 1 .. Len(f) - 1 : j + 1 \in 1 .. Len(f) /\ g[j].id \in Ids(f)
  <2> TAKE j \in 1 .. Len(f) - 1
  <2>1. j + 1 \in 1 .. Len(f) /\ g[j] = f[j + 1]
    BY <1>1, <1>6
  <2> QED
    BY <2>1 DEF Ids
<1>8. Single(g)
  <2> SUFFICES ASSUME NEW i \in 1 .. Len(g), NEW j \in 1 .. Len(g), g[i].id = g[j].id
               PROVE  i = j
    BY DEF Single
  <2>1. i \in 1 .. Len(f) - 1 \/ i = Len(f)
    BY <1>1, <1>6
  <2>2. j \in 1 .. Len(f) - 1 \/ j = Len(f)
    BY <1>1, <1>6
  <2>3. CASE i \in 1 .. Len(f) - 1 /\ j \in 1 .. Len(f) - 1
    <3>1. f[i + 1].id = f[j + 1].id /\ i + 1 \in 1 .. Len(f) /\ j + 1 \in 1 .. Len(f)
      BY <1>6, <1>7, <2>3
    <3>2. i + 1 = j + 1
      BY <3>1 DEF Single
    <3> QED
      BY <3>2
  <2> QED
    BY <1>6, <1>7, <2>1, <2>2, <2>3
<1>9. Ids(t) \subseteq Ids(f) /\ f[1].id \in Ids(f)
  <2>1. \A j \in 1 .. Len(t) : t[j].id \in Ids(f)
    <3> TAKE j \in 1 .. Len(t)
    <3>1. j + 1 \in 1 .. Len(f) /\ t[j] = f[j + 1]
      BY <1>1
    <3> QED
      BY <3>1 DEF Ids
  <2> QED
    BY <1>2, <2>1 DEF Ids
<1>10. Moves(f, d, g, e, d[k].id) /\ Balanced(f, d, g, e)
  BY <1>3, <1>4, <1>5, <1>8, <1>9 DEF Moves, Balanced
<1> QED
  BY <1>6, <1>10 DEF g, e, t

-----------------------------------------------------------------------------
(* Page replacement: what the searches find *)

LEMMA PageAt ==
  ASSUME NEW s \in Seq(Page), NEW k \in 1 .. Len(s)
  PROVE  /\ s[k] \in Page /\ s[k].id \in PageIds /\ s[k].id \in Ids(s)
         /\ s[k].lastUsed \in Nat /\ s[k].referenced \in BOOLEAN
<1>1. s[k] \in Page
  BY ElementOfSeq
<1> QED
  BY <1>1 DEF Page, Ids

LEMMA LeastOfNats ==
  ASSUME NEW S, S \subseteq Nat, S # {}
  PROVE  \E x \in S : \A y \in S : x <= y
<1> DEFINE R == OpToRel(<, Nat)
<1>1. \E x \in S : \A y \in S : ~(<<y, x>> \in R)
  <2>1. IsWellFoundedOn(R, Nat)
    BY NatLessThanWellFounded
  <2> HIDE DEF R
  <2> QED
    BY <2>1, WFMin
<1>2. \A x, y \in Nat : y < x => <<y, x>> \in R
  BY DEF OpToRel
<1> HIDE DEF R
<1>3. PICK x \in S : \A y \in S : ~(<<y, x>> \in R)
  BY <1>1
<1>4. \A y \in S : x <= y
  <2> TAKE y \in S
  <2>1. x \in Nat /\ y \in Nat /\ ~(y < x)
    BY <1>2, <1>3
  <2> QED
    BY <2>1
<1> QED
  BY <1>4

LEMMA GreatestUpTo ==
  ASSUME NEW n \in Nat, NEW S, S \subseteq 1 .. n, S # {}
  PROVE  \E x \in S : \A y \in S : x >= y
<1> DEFINE T == {m \in Nat : \E x \in S : m = n - x}
<1>1. T # {}
  <2>1. PICK x \in S : TRUE
    OBVIOUS
  <2>2. n - x \in T
    BY <2>1
  <2> QED
    BY <2>2
<1>2. PICK m \in T : \A l \in T : m <= l
  <2>1. T \subseteq Nat
    OBVIOUS
  <2> HIDE DEF T
  <2> QED
    BY <1>1, <2>1, LeastOfNats
<1>3. PICK x \in S : m = n - x
  OBVIOUS
<1>4. ASSUME NEW y \in S PROVE x >= y
  <2>1. n - y \in T
    OBVIOUS
  <2>2. n - x <= n - y
    BY <1>2, <1>3, <2>1
  <2> QED
    BY <2>2
<1> QED
  BY <1>4

LEMMA IndexIs ==
  ASSUME NEW s \in Seq(Page), NEW id
  PROVE  /\ Index(s, id) = 0 <=> id \notin Ids(s)
         /\ Index(s, id) # 0 => Index(s, id) \in 1 .. Len(s) /\ s[Index(s, id)].id = id
<1> DEFINE I == {k \in 1 .. Len(s) : s[k].id = id}
<1>1. Index(s, id) = IF I # {} THEN Min(I) ELSE 0
  BY DEF Index, SelectInSeq
<1>2. I # {} => Min(I) \in I
  <2>1. I \subseteq Nat
    OBVIOUS
  <2>2. I # {} => \E x \in I : \A y \in I : x <= y
    <3> HIDE DEF I
    <3> QED
      BY <2>1, LeastOfNats
  <2> HIDE DEF I
  <2> QED
    BY <2>2 DEF Min
<1>3. I = {} <=> id \notin Ids(s)
  BY DEF Ids
<1>4. 0 \notin I /\ \A k \in I : k \in 1 .. Len(s) /\ s[k].id = id
  OBVIOUS
<1> HIDE DEF I
<1> QED
  BY <1>1, <1>2, <1>3, <1>4

\* LRU takes a frame that was marked first.
LEMMA LRUVictimIs ==
  ASSUME frames \in Seq(Page), frames # <<>>
  PROVE  /\ LRUVictim \in 1 .. Len(frames)
         /\ \A n \in 1 .. Len(frames) : frames[LRUVictim].lastUsed <= frames[n].lastUsed
<1> DEFINE least == {j \in 1 .. Len(frames) :
                       \A n \in 1 .. Len(frames) : frames[j].lastUsed <= frames[n].lastUsed}
           M == {frames[j].lastUsed : j \in 1 .. Len(frames)}
<1>1. Len(frames) \in Nat /\ DOMAIN frames = 1 .. Len(frames) /\ 1 \in 1 .. Len(frames)
  BY LenProperties
<1>2. \A j \in 1 .. Len(frames) : frames[j] \in Page /\ frames[j].lastUsed \in Nat
  BY PageAt
<1>3. least # {}
  <2>1. M \subseteq Nat /\ M # {}
    BY <1>1, <1>2
  <2>2. PICK x \in M : \A y \in M : x <= y
    <3> HIDE DEF M
    <3> QED
      BY <2>1, LeastOfNats
  <2>3. PICK j \in 1 .. Len(frames) : frames[j].lastUsed = x
    OBVIOUS
  <2>4. j \in least
    BY <2>2, <2>3
  <2> QED
    BY <2>4
<1>4. Max(least) \in least
  <2>1. least \subseteq 1 .. Len(frames)
    OBVIOUS
  <2> HIDE DEF least
  <2>2. \E x \in least : \A y \in least : x >= y
    BY <1>1, <1>3, <2>1, GreatestUpTo
  <2> QED
    BY <2>2 DEF Max
<1>5. LRUVictim = IF 1 \in least THEN 1 ELSE Max(least)
  BY <1>1 DEF LRUVictim
<1>6. LRUVictim \in least
  <2> HIDE DEF least
  <2> QED
    BY <1>4, <1>5
<1> QED
  BY <1>6

\* The hand goes through all frames.
LEMMA TurnIs ==
  ASSUME hand \in Nat
  PROVE  /\ \A n \in Nat : Turn(n) \in 1 .. MemoryFrames
         /\ \A j \in 1 .. MemoryFrames : \E n \in 0 .. MemoryFrames - 1 : Turn(n) = j
<1> DEFINE F == MemoryFrames
           h == hand % F
<1>1. F \in Nat \ {0}
  BY BoundsAssumption
<1>2. h \in 0 .. F - 1
  BY <1>1
<1>3. \A n : Turn(n) = ((h + n) % F) + 1
  BY DEF Turn
<1> HIDE DEF h, F
<1>4. \A x \in Nat : x % F \in 0 .. F - 1
  BY <1>1
<1>5. \A x \in 0 .. F - 1 : x % F = x
  BY <1>1
<1>6. \A x \in 0 .. F - 1 : (x + F) % F = x
  BY <1>1
<1>7. ASSUME NEW n \in Nat PROVE Turn(n) \in 1 .. F
  <2>1. h + n \in Nat
    BY <1>1, <1>2
  <2>2. (h + n) % F \in 0 .. F - 1
    BY <1>4, <2>1
  <2> QED
    BY <1>1, <1>3, <2>2
<1>8. ASSUME NEW j \in 1 .. F PROVE \E n \in 0 .. F - 1 : Turn(n) = j
  <2>1. j - 1 \in 0 .. F - 1
    BY <1>1
  <2>2. CASE h <= j - 1
    <3>1. (j - 1) - h \in 0 .. F - 1 /\ h + ((j - 1) - h) = j - 1
      BY <1>1, <1>2, <2>1, <2>2
    <3>2. (h + ((j - 1) - h)) % F = j - 1
      BY <1>5, <2>1, <3>1
    <3> QED
      BY <1>3, <3>1, <3>2
  <2>3. CASE h > j - 1
    <3>1. ((j - 1) - h) + F \in 0 .. F - 1 /\ h + (((j - 1) - h) + F) = (j - 1) + F
      BY <1>1, <1>2, <2>1, <2>3
    <3>2. (h + (((j - 1) - h) + F)) % F = j - 1
      BY <1>6, <2>1, <3>1
    <3> QED
      BY <1>3, <3>1, <3>2
  <2> QED
    BY <1>2, <2>1, <2>2, <2>3
<1> QED
  BY <1>7, <1>8 DEF F

LEMMA ClockVictimIs ==
  ASSUME frames \in Seq(Page), hand \in Nat, Len(frames) = MemoryFrames
  PROVE  ClockVictim \in 1 .. Len(frames)
<1>1. MemoryFrames \in Nat \ {0} /\ DOMAIN frames = 1 .. MemoryFrames
  BY BoundsAssumption, LenProperties
<1> DEFINE free == {n \in 0 .. MemoryFrames - 1 : ~frames[Turn(n)].referenced}
           First(n) == /\ ~frames[Turn(n)].referenced
                       /\ \A m \in 0 .. n - 1 : frames[Turn(m)].referenced
<1>2. Passed \in Nat
  <2>1. CASE \A j \in DOMAIN frames : frames[j].referenced
    BY <1>1, <2>1 DEF Passed
  <2>2. CASE ~(\A j \in DOMAIN frames : frames[j].referenced)
    <3>1. PICK j \in 1 .. MemoryFrames : ~frames[j].referenced
      BY <1>1, <2>2
    <3>2. PICK i \in 0 .. MemoryFrames - 1 : Turn(i) = j
      BY TurnIs
    <3>3. free # {} /\ free \subseteq Nat
      BY <3>1, <3>2
    <3>4. PICK n \in free : \A m \in free : n <= m
      <4> HIDE DEF free
      <4> QED
        BY <3>3, LeastOfNats
    <3>5. ASSUME NEW m \in 0 .. n - 1 PROVE frames[Turn(m)].referenced
      <4>1. m \in 0 .. MemoryFrames - 1 /\ ~(n <= m)
        BY <1>1
      <4> QED
        BY <3>4, <4>1
    <3>6. n \in 0 .. MemoryFrames - 1 /\ First(n)
      BY <3>5
    <3>7. Passed = CHOOSE k \in 0 .. MemoryFrames - 1 : First(k)
      BY <2>2 DEF Passed
    <3>8. Passed \in 0 .. MemoryFrames - 1
      <4> HIDE DEF First
      <4> QED
        BY <3>6, <3>7
    <3> QED
      BY <1>1, <3>8
  <2> QED
    BY <2>1, <2>2
<1> QED
  BY <1>2, TurnIs DEF ClockVictim

-----------------------------------------------------------------------------
(* Page replacement: what the algorithms do *)

Fit == /\ Len(frames) <= MemoryFrames
       /\ algorithm = "OPTIMAL" => Len(frames) <= 1

\* FIFO's frames are in the order in which they were loaded; LRU's marks are
\* the times of the last uses or the next ones.
Stamped ==
  /\ \A i \in PageIds : since[i] <= elapsed
  /\ algorithm = "FIFO" =>
       \A j, k \in 1 .. Len(frames) : j <= k => since[frames[j].id] <= since[frames[k].id]
  /\ algorithm = "LRU" =>
       \A k \in 1 .. Len(frames) :
         frames[k].lastUsed \in {since[frames[k].id], since[frames[k].id] + 1}

MemoryTypes ==
  /\ frames \in Seq(Page) /\ disk \in Seq(Page) /\ hand \in Nat
  /\ since \in [PageIds -> Nat] /\ elapsed \in Nat
  /\ algorithm \in {"FIFO", "LRU", "CLOCK", "OPTIMAL"}

MemoryInv == MemoryTypes /\ Fit /\ Single(frames) /\ Stamped

\* The page that leaves was loaded, or used but for a tick, before those that stay.
FirstOut ==
  Full =>
    \A k \in 1 .. Len(frames) : frames[k].id \notin Ids(frames') =>
      \A j \in 1 .. Len(frames) :
        /\ algorithm = "FIFO" => since[frames[k].id] <= since[frames[j].id]
        /\ algorithm = "LRU"  => since[frames[k].id] <= since[frames[j].id] + 1

\* The clock may advance when the page is in.
Later == elapsed' \in {elapsed, elapsed + 1} /\ UNCHANGED <<workload, algorithm>>

LEMMA FIFOMoves ==
  ASSUME MemoryInv, algorithm = "FIFO", NEW k \in 1 .. Len(disk), disk[k].id \notin Ids(frames),
         FIFO(k), since' = [since EXCEPT ![disk[k].id] = elapsed], Later
  PROVE  /\ Moves(frames, disk, frames', disk', disk[k].id)
         /\ Balanced(frames, disk, frames', disk')
         /\ hand' \in Nat /\ Fit' /\ Stamped' /\ FirstOut
<1> DEFINE x == disk[k]
           n == Len(frames)
<1>1. /\ frames \in Seq(Page) /\ disk \in Seq(Page) /\ hand \in Nat /\ n \in Nat
      /\ n <= MemoryFrames /\ MemoryFrames \in Nat \ {0} /\ elapsed \in Nat
      /\ since \in [PageIds -> Nat] /\ Single(frames) /\ x \in Page /\ x.id \in PageIds
  BY BoundsAssumption, LenProperties, PageAt DEF MemoryInv, MemoryTypes, Fit
<1>2. /\ PageIds' = PageIds /\ algorithm' = algorithm /\ hand' = hand
      /\ \A i \in PageIds : since'[i] = IF i = x.id THEN elapsed ELSE since[i]
  BY <1>1 DEF Later, PageIds, Procs, FIFO
<1>3. /\ \A i \in PageIds : since[i] \in Nat /\ since[i] <= elapsed
      /\ \A i, j \in 1 .. n : i <= j => since[frames[i].id] <= since[frames[j].id]
      /\ \A j \in 1 .. n : frames[j].id \in PageIds /\ frames[j].id # x.id
  BY <1>1, PageAt DEF MemoryInv, Stamped
<1>4. \A i \in PageIds : since'[i] <= elapsed'
  BY <1>1, <1>2, <1>3 DEF Later
<1>5. CASE Full
  <2>1. n = MemoryFrames /\ frames # <<>>
    BY <1>1, <1>5 DEF Full
  <2>2. frames' = Append(Tail(frames), x) /\ disk' = RemoveAt(Append(disk, frames[1]), k)
    BY <1>5 DEF FIFO, RemovedFrom
  <2>3. /\ Moves(frames, disk, frames', disk', x.id) /\ Balanced(frames, disk, frames', disk')
        /\ Len(frames') = n /\ frames'[n] = x
        /\ \A j \in 1 .. n - 1 : frames'[j] = frames[j + 1]
    BY <1>1, <2>1, <2>2, Queueing
  <2>4. Fit'
    BY <1>1, <1>2, <2>3 DEF Fit
  <2>5. \A j \in 1 .. n - 1 : /\ j + 1 \in 1 .. n
                              /\ since'[frames'[j].id] = since[frames[j + 1].id]
    <3> TAKE j \in 1 .. n - 1
    <3>1. j + 1 \in 1 .. n /\ frames'[j] = frames[j + 1]
      BY <1>1, <2>3
    <3> QED
      BY <1>2, <1>3, <3>1
  <2>6. since'[frames'[n].id] = elapsed
    BY <1>1, <1>2, <2>3
  <2>7. ASSUME NEW i \in 1 .. n, NEW j \in 1 .. n, i <= j
        PROVE  since'[frames'[i].id] <= since'[frames'[j].id]
    <3>1. CASE j \in 1 .. n - 1
      <4>1. i \in 1 .. n - 1 /\ i + 1 \in 1 .. n /\ j + 1 \in 1 .. n /\ i + 1 <= j + 1
        BY <1>1, <2>7, <3>1
      <4> QED
        BY <1>3, <2>5, <3>1, <4>1
    <3>2. CASE j = n /\ i \in 1 .. n - 1
      BY <1>3, <2>5, <2>6, <3>2
    <3>3. CASE j = n /\ i = n
      BY <1>1, <2>6, <3>3
    <3> QED
      BY <1>1, <2>7, <3>1, <3>2, <3>3
  <2>8. Stamped'
    BY <1>2, <1>4, <2>3, <2>7 DEF Stamped
  <2>9. ASSUME NEW i \in 1 .. n, frames[i].id \notin Ids(frames')
        PROVE  i = 1
    <3>1. SUFFICES ASSUME i # 1 PROVE FALSE
      OBVIOUS
    <3>2. i - 1 \in 1 .. n - 1 /\ i - 1 \in 1 .. Len(frames') /\ (i - 1) + 1 = i
      BY <1>1, <2>3, <3>1
    <3>3. frames'[i - 1].id = frames[i].id
      BY <2>3, <3>2
    <3> QED
      BY <2>9, <3>2, <3>3 DEF Ids
  <2>10. \A j \in 1 .. n : 1 \in 1 .. n /\ since[frames[1].id] <= since[frames[j].id]
    BY <1>1, <1>3
  <2>11. FirstOut
    BY <2>9, <2>10 DEF FirstOut
  <2> QED
    BY <1>1, <1>2, <2>3, <2>4, <2>8, <2>11
<1>6. CASE ~Full
  <2>1. n < MemoryFrames
    BY <1>1, <1>6 DEF Full
  <2>2. frames' = Append(frames, x) /\ disk' = RemoveAt(disk, k)
    BY <1>6 DEF FIFO, RemovedFrom
  <2>3. Moves(frames, disk, frames', disk', x.id) /\ Balanced(frames, disk, frames', disk')
    BY <1>1, <2>2, Filling
  <2>4. /\ Len(frames') = n + 1 /\ frames'[n + 1] = x
        /\ \A j \in 1 .. n : frames'[j] = frames[j]
    BY <1>1, <2>2, IdsAppend
  <2>5. Fit'
    BY <1>1, <1>2, <2>1, <2>4 DEF Fit
  <2>6. /\ since'[frames'[n + 1].id] = elapsed
        /\ \A j \in 1 .. n : since'[frames'[j].id] = since[frames[j].id]
    BY <1>1, <1>2, <1>3, <2>4
  <2>7. ASSUME NEW i \in 1 .. n + 1, NEW j \in 1 .. n + 1, i <= j
        PROVE  since'[frames'[i].id] <= since'[frames'[j].id]
    <3>1. CASE j \in 1 .. n
      <4>1. i \in 1 .. n
        BY <1>1, <2>7, <3>1
      <4> QED
        BY <1>3, <2>6, <2>7, <3>1, <4>1
    <3>2. CASE j = n + 1 /\ i \in 1 .. n
      BY <1>3, <2>6, <3>2
    <3>3. CASE j = n + 1 /\ i = n + 1
      BY <1>1, <2>6, <3>3
    <3> QED
      BY <1>1, <2>7, <3>1, <3>2, <3>3
  <2>8. Stamped'
    BY <1>2, <1>4, <2>4, <2>7 DEF Stamped
  <2> QED
    BY <1>1, <1>2, <1>6, <2>3, <2>5, <2>8 DEF FirstOut
<1> QED
  BY <1>5, <1>6

LEMMA LRUMoves ==
  ASSUME MemoryInv, algorithm = "LRU", NEW k \in 1 .. Len(disk), disk[k].id \notin Ids(frames),
         LRU(k), since' = [since EXCEPT ![disk[k].id] = elapsed], Later
  PROVE  /\ Moves(frames, disk, frames', disk', disk[k].id)
         /\ Balanced(frames, disk, frames', disk')
         /\ hand' \in Nat /\ Fit' /\ Stamped' /\ FirstOut
<1> DEFINE o == disk[k]
           x == [o EXCEPT !.lastUsed = elapsed]
           n == Len(frames)
<1>1. /\ frames \in Seq(Page) /\ disk \in Seq(Page) /\ hand \in Nat /\ n \in Nat
      /\ n <= MemoryFrames /\ MemoryFrames \in Nat \ {0} /\ elapsed \in Nat
      /\ since \in [PageIds -> Nat] /\ Single(frames) /\ o \in Page /\ o.id \in PageIds
  BY BoundsAssumption, LenProperties, PageAt DEF MemoryInv, MemoryTypes, Fit
<1>2. /\ PageIds' = PageIds /\ algorithm' = algorithm /\ hand' = hand
      /\ \A i \in PageIds : since'[i] = IF i = o.id THEN elapsed ELSE since[i]
  BY <1>1 DEF Later, PageIds, Procs, LRU
<1>3. /\ \A i \in PageIds : since[i] \in Nat /\ since[i] <= elapsed
      /\ \A j \in 1 .. n : frames[j].lastUsed \in {since[frames[j].id], since[frames[j].id] + 1}
      /\ \A j \in 1 .. n : frames[j].id \in PageIds /\ frames[j].id # o.id
  BY <1>1, PageAt DEF MemoryInv, Stamped
<1>4. \A i \in PageIds : since'[i] <= elapsed'
  BY <1>1, <1>2, <1>3 DEF Later
<1>5. x \in Page /\ x.id = o.id /\ x.lastUsed = elapsed
  BY <1>1 DEF Page
<1> HIDE DEF x
<1>6. CASE Full
  <2> DEFINE v == LRUVictim
  <2>1. n = MemoryFrames /\ frames # <<>>
    BY <1>1, <1>6 DEF Full
  <2>2. v \in 1 .. n /\ \A j \in 1 .. n : frames[v].lastUsed <= frames[j].lastUsed
    BY <1>1, <2>1, LRUVictimIs
  <2>3. frames' = [frames EXCEPT ![v] = x] /\ disk' = RemoveAt(Append(disk, frames[v]), k)
    BY <1>6 DEF LRU, RemovedFrom, x
  <2> HIDE DEF v
  <2>4. Moves(frames, disk, frames', disk', o.id) /\ Balanced(frames, disk, frames', disk')
    BY <1>1, <1>5, <2>2, <2>3, Swapping
  <2>5. /\ Len(frames') = n
        /\ \A j \in 1 .. n : frames'[j] = IF j = v THEN x ELSE frames[j]
    BY <1>1, <1>5, <2>2, <2>3, ExceptSeq
  <2>6. Fit'
    BY <1>1, <1>2, <2>5 DEF Fit
  <2>7. ASSUME NEW j \in 1 .. n
        PROVE  frames'[j].lastUsed \in {since'[frames'[j].id], since'[frames'[j].id] + 1}
    BY <1>1, <1>2, <1>3, <1>5, <2>5
  <2>8. Stamped'
    BY <1>2, <1>4, <2>5, <2>7 DEF Stamped
  <2>9. ASSUME NEW i \in 1 .. n, frames[i].id \notin Ids(frames')
        PROVE  i = v
    BY <2>5, <2>9 DEF Ids
  <2>10. ASSUME NEW j \in 1 .. n
         PROVE  since[frames[v].id] <= since[frames[j].id] + 1
    <3>1. /\ frames[v].lastUsed <= frames[j].lastUsed
          /\ since[frames[v].id] \in Nat /\ since[frames[j].id] \in Nat
          /\ frames[v].lastUsed \in {since[frames[v].id], since[frames[v].id] + 1}
          /\ frames[j].lastUsed \in {since[frames[j].id], since[frames[j].id] + 1}
      BY <1>3, <2>2
    <3> DEFINE a == frames[v].lastUsed
               b == frames[j].lastUsed
               c == since[frames[v].id]
               d == since[frames[j].id]
    <3>2. a <= b /\ c \in Nat /\ d \in Nat /\ a \in {c, c + 1} /\ b \in {d, d + 1}
      BY <3>1
    <3> HIDE DEF a, b, c, d
    <3>3. c <= d + 1
      BY <3>2
    <3> QED
      BY <3>3 DEF c, d
  <2>11. FirstOut
    BY <2>9, <2>10 DEF FirstOut
  <2> QED
    BY <1>1, <1>2, <2>4, <2>6, <2>8, <2>11
<1>7. CASE ~Full
  <2>1. n < MemoryFrames
    BY <1>1, <1>7 DEF Full
  <2>2. frames' = Append(frames, x) /\ disk' = RemoveAt(disk, k)
    BY <1>7 DEF LRU, RemovedFrom, x
  <2>3. Moves(frames, disk, frames', disk', o.id) /\ Balanced(frames, disk, frames', disk')
    BY <1>1, <1>5, <2>2, Filling
  <2>4. /\ Len(frames') = n + 1 /\ frames'[n + 1] = x
        /\ \A j \in 1 .. n : frames'[j] = frames[j]
    BY <1>1, <1>5, <2>2, IdsAppend
  <2>5. Fit'
    BY <1>1, <1>2, <2>1, <2>4 DEF Fit
  <2>6. ASSUME NEW j \in 1 .. n + 1
        PROVE  frames'[j].lastUsed \in {since'[frames'[j].id], since'[frames'[j].id] + 1}
    <3>1. CASE j \in 1 .. n
      BY <1>2, <1>3, <2>4, <3>1
    <3>2. CASE j = n + 1
      BY <1>1, <1>2, <1>5, <2>4, <3>2
    <3> QED
      BY <1>1, <3>1, <3>2
  <2>7. Stamped'
    BY <1>2, <1>4, <2>4, <2>6 DEF Stamped
  <2> QED
    BY <1>1, <1>2, <1>7, <2>3, <2>5, <2>7 DEF FirstOut
<1> QED
  BY <1>6, <1>7

LEMMA CLOCKMoves ==
  ASSUME MemoryInv, algorithm = "CLOCK", NEW k \in 1 .. Len(disk), disk[k].id \notin Ids(frames),
         CLOCK(k), since' = since, Later
  PROVE  /\ Moves(frames, disk, frames', disk', disk[k].id)
         /\ Balanced(frames, disk, frames', disk')
         /\ hand' \in Nat /\ Fit' /\ Stamped' /\ FirstOut
<1> DEFINE o == disk[k]
           x == [o EXCEPT !.referenced = TRUE]
           n == Len(frames)
           unmarked == [j \in DOMAIN frames |->
                          IF j \in {Turn(m) : m \in 0 .. Passed - 1}
                          THEN [frames[j] EXCEPT !.referenced = FALSE] ELSE frames[j]]
<1>1. /\ frames \in Seq(Page) /\ disk \in Seq(Page) /\ hand \in Nat /\ n \in Nat
      /\ n <= MemoryFrames /\ MemoryFrames \in Nat \ {0} /\ elapsed \in Nat
      /\ since \in [PageIds -> Nat] /\ Single(frames) /\ o \in Page /\ o.id \in PageIds
      /\ DOMAIN frames = 1 .. n
  BY BoundsAssumption, LenProperties, PageAt DEF MemoryInv, MemoryTypes, Fit
<1>2. PageIds' = PageIds /\ algorithm' = algorithm
  BY DEF Later, PageIds, Procs
<1>3. x \in Page /\ x.id = o.id
  BY <1>1 DEF Page
<1>4. Stamped'
  BY <1>1, <1>2 DEF Later, MemoryInv, Stamped
<1>5. FirstOut
  BY DEF FirstOut
<1>6. CASE Full
  <2> DEFINE v == ClockVictim
  <2>1. n = MemoryFrames
    <3>1. n >= MemoryFrames
      BY <1>6 DEF Full
    <3> HIDE DEF n, unmarked, x, o
    <3> QED
      BY <1>1, <3>1
  <2>2. v \in 1 .. n
    BY <1>1, <2>1, ClockVictimIs
  <2>3. unmarked \in Seq(Page) /\ Len(unmarked) = n /\ \A j \in 1 .. n : unmarked[j].id = frames[j].id
    <3>1. \A j \in 1 .. n : /\ frames[j] \in Page
                            /\ [frames[j] EXCEPT !.referenced = FALSE] \in Page
                            /\ [frames[j] EXCEPT !.referenced = FALSE].id = frames[j].id
      <4> TAKE j \in 1 .. n
      <4>1. frames[j] \in Page
        BY <1>1, PageAt
      <4> QED
        BY <4>1 DEF Page
    <3>2. /\ unmarked \in [1 .. n -> Page] /\ \A j \in 1 .. n : unmarked[j].id = frames[j].id
      BY <1>1, <3>1
    <3>3. n \in Nat /\ unmarked \in [1 .. n -> Page]
      BY <1>1, <3>2
    <3> HIDE DEF unmarked, n
    <3>4. unmarked \in Seq(Page) /\ Len(unmarked) = n
      BY <3>3
    <3> QED
      BY <3>2, <3>4 DEF n
  <2>4. /\ frames' = [unmarked EXCEPT ![v] = x] /\ disk' = RemoveAt(Append(disk, unmarked[v]), k)
        /\ hand' = v
    BY <1>6 DEF CLOCK, RemovedFrom
  <2> HIDE DEF v, x, unmarked
  <2>5. Moves(frames, disk, frames', disk', o.id) /\ Balanced(frames, disk, frames', disk')
    BY <1>1, <1>3, <2>2, <2>3, <2>4, Swapping
  <2>6. Len(frames') = n
    BY <1>3, <2>2, <2>3, <2>4, ExceptSeq
  <2> QED
    BY <1>1, <1>2, <1>4, <1>5, <2>2, <2>4, <2>5, <2>6 DEF Fit
<1>7. CASE ~Full
  <2>1. n < MemoryFrames
    BY <1>1, <1>7 DEF Full
  <2>2. frames' = Append(frames, x) /\ disk' = RemoveAt(disk, k) /\ hand' = hand
    BY <1>7 DEF CLOCK, RemovedFrom
  <2> HIDE DEF x
  <2>3. Moves(frames, disk, frames', disk', o.id) /\ Balanced(frames, disk, frames', disk')
    BY <1>1, <1>3, <2>2, Filling
  <2>4. Len(frames') = n + 1
    BY <1>1, <1>3, <2>2, IdsAppend
  <2> QED
    BY <1>1, <1>2, <1>4, <1>5, <2>1, <2>2, <2>3, <2>4 DEF Fit
<1> QED
  BY <1>6, <1>7

\* OPTIMAL empties the only frame it uses, and may double what it loads.
LEMMA OPTIMALMoves ==
  ASSUME MemoryInv, algorithm = "OPTIMAL", NEW k \in 1 .. Len(disk),
         OPTIMAL(k), since' = since, Later
  PROVE  /\ Moves(frames, disk, frames', disk', disk[k].id)
         /\ \A i \in PageIds :
              Copies(frames', i) + Copies(disk', i) >= Copies(frames, i) + Copies(disk, i)
         /\ hand' \in Nat /\ Fit' /\ Stamped' /\ FirstOut
<1> DEFINE x == disk[k]
           g == <<x>>
<1>1. /\ frames \in Seq(Page) /\ disk \in Seq(Page) /\ hand \in Nat /\ Len(frames) \in Nat
      /\ Len(frames) <= 1 /\ MemoryFrames \in Nat \ {0} /\ elapsed \in Nat
      /\ since \in [PageIds -> Nat] /\ x \in Page
  BY BoundsAssumption, LenProperties, PageAt DEF MemoryInv, MemoryTypes, Fit
<1>2. PageIds' = PageIds /\ algorithm' = algorithm
  BY DEF Later, PageIds, Procs
<1>3. Stamped'
  BY <1>1, <1>2 DEF Later, MemoryInv, Stamped
<1>4. FirstOut
  BY DEF FirstOut
<1>5. /\ g \in Seq(Page) /\ Len(g) = 1 /\ g[1] = x /\ Single(g) /\ Ids(g) = {x.id}
  BY <1>1 DEF Single, Ids
<1>6. \A i \in PageIds : Copies(g, i) = One(x.id = i)
  BY CopiesSingle
<1>7. frames' = g /\ hand' = hand
  BY DEF OPTIMAL
<1> HIDE DEF g
<1>8. Fit' /\ hand' \in Nat
  <2>1. Len(frames') = 1 /\ 1 <= MemoryFrames
    BY <1>1, <1>5, <1>7
  <2> QED
    BY <1>1, <1>2, <1>7, <2>1 DEF Fit
<1>9. CASE frames = <<>>
  <2>1. disk' = RemoveAt(disk, k)
    BY <1>9 DEF OPTIMAL
  <2>2. disk' \in Seq(Page) /\ Ids(disk') \subseteq Ids(disk)
    BY <1>1, <2>1, IdsRemoveAt
  <2>3. ASSUME NEW i \in PageIds
        PROVE  Copies(frames', i) + Copies(disk', i) >= Copies(frames, i) + Copies(disk, i)
    <3>1. Copies(disk', i) + One(x.id = i) = Copies(disk, i)
      BY <1>1, <2>1, CopiesRemoveAt
    <3>2. Copies(frames, i) = 0 /\ Copies(disk', i) \in Nat /\ One(x.id = i) \in Nat
      BY <1>9, <2>2, CopiesEmpty, CopiesIs DEF One
    <3> QED
      BY <1>6, <1>7, <3>1, <3>2
  <2>4. Moves(frames, disk, frames', disk', x.id)
    BY <1>5, <1>7, <2>2 DEF Moves
  <2> QED
    BY <1>3, <1>4, <1>8, <2>3, <2>4
<1>10. CASE frames # <<>>
  <2> DEFINE y == frames[1]
  <2>1. disk' = Append(disk, y) /\ Len(frames) = 1 /\ 1 \in 1 .. Len(frames)
    BY <1>1, <1>10 DEF OPTIMAL
  <2>2. y \in Page /\ y.id \in Ids(frames)
    BY <1>1, <2>1, PageAt
  <2>3. frames = <<y>>
    BY <1>1, <2>1
  <2> HIDE DEF y
  <2>4. disk' \in Seq(Page) /\ Ids(disk') = Ids(disk) \cup {y.id}
    BY <1>1, <2>1, <2>2, IdsAppend
  <2>5. ASSUME NEW i \in PageIds
        PROVE  Copies(frames', i) + Copies(disk', i) >= Copies(frames, i) + Copies(disk, i)
    <3>1. Copies(disk', i) = Copies(disk, i) + One(y.id = i)
      BY <1>1, <2>1, <2>2, CopiesAppend
    <3>2. Copies(frames, i) = One(y.id = i)
      BY <2>3, CopiesSingle
    <3>3. Copies(disk, i) \in Nat /\ One(y.id = i) \in Nat /\ Copies(frames', i) \in Nat
      BY <1>1, <1>5, <1>7, CopiesIs DEF One
    <3> QED
      BY <3>1, <3>2, <3>3
  <2>6. Moves(frames, disk, frames', disk', x.id)
    BY <1>5, <1>7, <2>2, <2>4 DEF Moves
  <2> QED
    BY <1>3, <1>4, <1>8, <2>5, <2>6
<1> QED
  BY <1>9, <1>10

\* A page has come to memory.
Loaded(id) ==
  /\ exited' = exited
  /\ Moves(frames, disk, frames', disk', id)
  /\ \A i \in PageIds :
       /\ Copies(frames', i) + Copies(disk', i) >= Copies(frames, i) + Copies(disk, i)
       /\ algorithm # "OPTIMAL" =>
            Copies(frames', i) + Copies(disk', i) = Copies(frames, i) + Copies(disk, i)
  /\ since' \in [PageIds -> Nat] /\ hand' \in Nat
  /\ Fit' /\ Stamped' /\ FirstOut

LEMMA BalancedLoads ==
  ASSUME MemoryInv, NEW id, exited' = exited, Moves(frames, disk, frames', disk', id),
         Balanced(frames, disk, frames', disk'),
         since' \in [PageIds -> Nat], hand' \in Nat, Fit', Stamped', FirstOut
  PROVE  Loaded(id)
<1>1. /\ frames \in Seq(Page) /\ disk \in Seq(Page) /\ frames' \in Seq(Page) /\ disk' \in Seq(Page)
  BY DEF MemoryInv, MemoryTypes, Moves
<1>2. ASSUME NEW i \in PageIds
      PROVE  /\ Copies(frames', i) + Copies(disk', i) = Copies(frames, i) + Copies(disk, i)
             /\ Copies(frames', i) + Copies(disk', i) >= Copies(frames, i) + Copies(disk, i)
  <2>1. Copies(frames', i) \in Nat /\ Copies(disk', i) \in Nat
    BY <1>1, CopiesIs
  <2>2. Copies(frames', i) + Copies(disk', i) = Copies(frames, i) + Copies(disk, i)
    BY DEF Balanced
  <2> QED
    BY <2>1, <2>2
<1> QED
  BY <1>2 DEF Loaded

\* What pageReplacementAlgorithm does when the page is known and, but for
\* OPTIMAL, not in memory.
LEMMA ReplaceMoves ==
  ASSUME MemoryInv, Later, NEW p \in Procs, NEW u \in Use, Replace(p, u),
         u.life # 0 => /\ <<p, u.value>> \in Ids(frames) \cup Ids(disk)
                       /\ algorithm # "OPTIMAL" => <<p, u.value>> \notin Ids(frames)
  PROVE  \/ UNCHANGED memory /\ u.life = 0
         \/ /\ u.life # 0 /\ algorithm = "OPTIMAL" /\ <<p, u.value>> \in Ids(frames)
            /\ UNCHANGED <<frames, disk, hand, since>> /\ exited' \in {exited, TRUE}
         \/ u.life # 0 /\ Loaded(<<p, u.value>>)
<1> DEFINE id == <<p, u.value>>
           k == Index(disk, id)
<1>1. /\ frames \in Seq(Page) /\ disk \in Seq(Page) /\ elapsed \in Nat
      /\ since \in [PageIds -> Nat] /\ u.life \in Nat
      /\ algorithm \in {"FIFO", "LRU", "CLOCK", "OPTIMAL"}
  BY DEF MemoryInv, MemoryTypes, Use
<1>2. /\ k = 0 <=> id \notin Ids(disk)
      /\ k # 0 => k \in 1 .. Len(disk) /\ disk[k].id = id
  BY <1>1, IndexIs
<1>3. disk = <<>> => Ids(disk) = {}
  BY DEF Ids
<1>4. CASE u.life = 0
  BY <1>4 DEF Replace
<1>5. CASE u.life # 0 /\ (disk = <<>> \/ k = 0)
  <2>1. algorithm = "OPTIMAL" /\ id \in Ids(frames)
    BY <1>2, <1>3, <1>5
  <2>2. UNCHANGED <<frames, disk, hand, since>> /\ exited' \in {exited, TRUE}
    BY <1>5 DEF Replace, memory
  <2> QED
    BY <1>5, <2>1, <2>2
<1>6. CASE u.life # 0 /\ disk # <<>> /\ k # 0
  <2>1. /\ CASE algorithm = "FIFO"  -> FIFO(k)
             [] algorithm = "LRU"   -> LRU(k)
             [] algorithm = "CLOCK" -> CLOCK(k)
             [] algorithm = "OPTIMAL" -> OPTIMAL(k)
        /\ since' = IF algorithm \in {"CLOCK", "OPTIMAL"} THEN since ELSE [since EXCEPT ![id] = elapsed]
        /\ exited' = exited
    BY <1>6 DEF Replace
  <2> HIDE DEF k, id
  <2>2. k \in 1 .. Len(disk) /\ disk[k].id = id /\ id \in PageIds
    BY <1>1, <1>2, <1>6, PageAt
  <2>3. since' \in [PageIds -> Nat]
    BY <1>1, <2>1, <2>2
  <2>4. algorithm # "OPTIMAL" => disk[k].id \notin Ids(frames)
    BY <1>6, <2>2 DEF id
  <2>5. CASE algorithm = "FIFO"
    <3>1. FIFO(k) /\ since' = [since EXCEPT ![disk[k].id] = elapsed]
      BY <2>1, <2>2, <2>5
    <3>2. /\ Moves(frames, disk, frames', disk', disk[k].id) /\ Balanced(frames, disk, frames', disk')
          /\ hand' \in Nat /\ Fit' /\ Stamped' /\ FirstOut
      BY <2>2, <2>4, <2>5, <3>1, FIFOMoves
    <3>3. Loaded(id)
      BY <2>1, <2>2, <2>3, <3>2, BalancedLoads
    <3> QED
      BY <1>6, <3>3 DEF id
  <2>6. CASE algorithm = "LRU"
    <3>1. LRU(k) /\ since' = [since EXCEPT ![disk[k].id] = elapsed]
      BY <2>1, <2>2, <2>6
    <3>2. /\ Moves(frames, disk, frames', disk', disk[k].id) /\ Balanced(frames, disk, frames', disk')
          /\ hand' \in Nat /\ Fit' /\ Stamped' /\ FirstOut
      BY <2>2, <2>4, <2>6, <3>1, LRUMoves
    <3>3. Loaded(id)
      BY <2>1, <2>2, <2>3, <3>2, BalancedLoads
    <3> QED
      BY <1>6, <3>3 DEF id
  <2>7. CASE algorithm = "CLOCK"
    <3>1. CLOCK(k) /\ since' = since
      BY <2>1, <2>7
    <3>2. /\ Moves(frames, disk, frames', disk', disk[k].id) /\ Balanced(frames, disk, frames', disk')
          /\ hand' \in Nat /\ Fit' /\ Stamped' /\ FirstOut
      BY <2>2, <2>4, <2>7, <3>1, CLOCKMoves
    <3>3. Loaded(id)
      BY <2>1, <2>2, <2>3, <3>2, BalancedLoads
    <3> QED
      BY <1>6, <3>3 DEF id
  <2>8. CASE algorithm = "OPTIMAL"
    <3>1. OPTIMAL(k) /\ since' = since
      BY <2>1, <2>8
    <3>2. /\ Moves(frames, disk, frames', disk', disk[k].id)
          /\ \A i \in PageIds :
               Copies(frames', i) + Copies(disk', i) >= Copies(frames, i) + Copies(disk, i)
          /\ hand' \in Nat /\ Fit' /\ Stamped' /\ FirstOut
      BY <2>2, <2>8, <3>1, OPTIMALMoves
    <3>3. Loaded(id)
      BY <2>1, <2>2, <2>3, <2>8, <3>2 DEF Loaded
    <3> QED
      BY <1>6, <3>3 DEF id
  <2> QED
    BY <1>1, <2>5, <2>6, <2>7, <2>8
<1> QED
  BY <1>4, <1>5, <1>6

-----------------------------------------------------------------------------
(* Page replacement: what stays in memory when a process leaves *)

LEMMA RemovePagesIs ==
  ASSUME frames \in Seq(Page), NEW p
  PROVE  \E f : /\ f = [n \in 0 .. Len(frames) |->
                         IF n = 0 THEN <<>>
                         ELSE IF frames[n].id[1] # p THEN Append(f[n - 1], frames[n]) ELSE f[n - 1]]
               /\ RemovePages(p) = f[Len(frames)]
<1> DEFINE Body(f, n) == IF n = 0 THEN <<>>
                         ELSE IF frames[n].id[1] # p THEN Append(f[n - 1], frames[n]) ELSE f[n - 1]
           Good(f, n) == f = [k \in 0 .. n |-> f[k]] /\ \A k \in 0 .. n : f[k] = Body(f, k)
           Bad == {n \in Nat : ~ \E f : Good(f, n)}
<1>1. Len(frames) \in Nat
  BY LenProperties
<1>2. Bad = {}
  <2> SUFFICES ASSUME Bad # {}
               PROVE  FALSE
    OBVIOUS
  <2>1. PICK m \in Bad : \A n \in Bad : m <= n
    <3>1. Bad \subseteq Nat
      OBVIOUS
    <3> HIDE DEF Bad
    <3> QED
      BY <3>1, LeastOfNats
  <2>2. m \in Nat /\ ~ \E f : Good(f, m)
    OBVIOUS
  <2>3. CASE m = 0
    <3> DEFINE g == [k \in 0 .. 0 |-> <<>>]
    <3>1. Good(g, 0)
      OBVIOUS
    <3> HIDE DEF Good
    <3> QED
      BY <2>2, <2>3, <3>1
  <2>4. CASE m # 0
    <3>1. m - 1 \in Nat /\ ~(m <= m - 1)
      BY <2>2, <2>4
    <3>2. m - 1 \notin Bad
      BY <2>1, <3>1
    <3>3. PICK f : Good(f, m - 1)
      BY <3>1, <3>2
    <3> DEFINE g == [k \in 0 .. m |-> IF k = m THEN Body(f, m) ELSE f[k]]
    <3>4. \A k \in 0 .. m - 1 : g[k] = f[k]
      BY <2>2
    <3>5. ASSUME NEW k \in 0 .. m PROVE g[k] = Body(g, k)
      <4>1. CASE k = 0
        <5>1. 0 \in 0 .. m - 1
          BY <2>2, <2>4
        <5>2. g[0] = f[0] /\ f[0] = Body(f, 0)
          BY <3>3, <3>4, <5>1
        <5> HIDE DEF g
        <5> QED
          BY <4>1, <5>2
      <4>2. CASE k # 0
        <5>1. k - 1 \in 0 .. m - 1
          BY <2>2, <4>2
        <5>2. g[k - 1] = f[k - 1]
          BY <3>4, <5>1
        <5>3. Body(g, k) = Body(f, k)
          BY <4>2, <5>2
        <5>4. CASE k = m
          BY <5>3, <5>4
        <5>5. CASE k # m
          <6>1. k \in 0 .. m - 1
            BY <2>2, <5>5
          <6> QED
            BY <3>3, <3>4, <5>3, <6>1
        <5> QED
          BY <5>4, <5>5
      <4> QED
        BY <4>1, <4>2
    <3>6. Good(g, m)
      <4>1. g = [k \in 0 .. m |-> g[k]]
        OBVIOUS
      <4> HIDE DEF g, Body
      <4> QED
        BY <3>5, <4>1
    <3> HIDE DEF g, Good
    <3> QED
      BY <2>2, <3>6
  <2> QED
    BY <2>3, <2>4
<1>3. PICK f : Good(f, Len(frames))
  BY <1>1, <1>2
<1> DEFINE Eq(g) == g = [n \in 0 .. Len(frames) |-> Body(g, n)]
           h == CHOOSE g : Eq(g)
<1>4. \E g : Eq(g)
  <2>1. f = [n \in 0 .. Len(frames) |-> f[n]]
    BY <1>3
  <2>2. Eq(f)
    BY <1>3, <2>1
  <2> HIDE DEF Eq
  <2> QED
    BY <2>2
<1>5. Eq(h)
  <2> HIDE DEF Eq
  <2> QED
    BY <1>4
<1>6. RemovePages(p) = h[Len(frames)]
  BY Zenon DEF RemovePages
<1> HIDE DEF h
<1> QED
  BY <1>5, <1>6

\* r is what p does not own of the first n frames, in their order.
Stays(r, n, p) ==
  /\ r \in Seq(Page) /\ Len(r) <= n
  /\ \A j \in 1 .. Len(r) : \E m \in 1 .. n : r[j] = frames[m] /\ frames[m].id[1] # p
  /\ \A m \in 1 .. n : frames[m].id[1] # p => \E j \in 1 .. Len(r) : r[j] = frames[m]
  /\ Single(r)
  /\ algorithm = "FIFO" =>
       \A j, k \in 1 .. Len(r) : j <= k => since[r[j].id] <= since[r[k].id]

LEMMA StaysEmpty ==
  ASSUME NEW p
  PROVE  Stays(<<>>, 0, p)
<1>1. <<>> \in Seq(Page) /\ Len(<<>>) = 0 /\ 1 .. 0 = {}
  OBVIOUS
<1> QED
  BY <1>1 DEF Stays, Single

LEMMA StaysSkip ==
  ASSUME MemoryInv, NEW p, NEW n \in 1 .. Len(frames), NEW r, Stays(r, n - 1, p),
         frames[n].id[1] = p
  PROVE  Stays(r, n, p)
<1>1. Len(frames) \in Nat /\ Len(r) \in Nat
  BY LenProperties DEF MemoryInv, MemoryTypes, Stays
<1>2. 1 .. n = (1 .. n - 1) \cup {n} /\ Len(r) <= n
  BY <1>1 DEF Stays
<1> QED
  BY <1>2 DEF Stays

LEMMA StaysAppend ==
  ASSUME MemoryInv, NEW p, NEW n \in 1 .. Len(frames), NEW r, Stays(r, n - 1, p),
         frames[n].id[1] # p
  PROVE  Stays(Append(r, frames[n]), n, p)
<1> DEFINE x == frames[n]
           t == Append(r, x)
           l == Len(r)
<1>1. /\ frames \in Seq(Page) /\ Len(frames) \in Nat /\ r \in Seq(Page) /\ l \in Nat /\ l <= n - 1
      /\ x \in Page /\ x.id \in PageIds /\ Single(frames)
  BY LenProperties, PageAt DEF MemoryInv, MemoryTypes, Stays
<1>2. /\ t \in Seq(Page) /\ Len(t) = l + 1
      /\ \A j \in 1 .. l : t[j] = r[j]
      /\ t[l + 1] = x
  BY <1>1, IdsAppend
<1> HIDE DEF t
<1>3. 1 .. n = (1 .. n - 1) \cup {n} /\ 1 .. l + 1 = (1 .. l) \cup {l + 1} /\ l + 1 <= n
      /\ \A m \in 1 .. n - 1 : m \in 1 .. Len(frames) /\ m # n /\ m <= n
  BY <1>1
<1>4. \A j \in 1 .. l : \E m \in 1 .. n - 1 : r[j] = frames[m] /\ frames[m].id[1] # p
  BY DEF Stays
<1>5. \A j \in 1 .. Len(t) : \E m \in 1 .. n : t[j] = frames[m] /\ frames[m].id[1] # p
  BY <1>2, <1>3, <1>4
<1>6. \A m \in 1 .. n : frames[m].id[1] # p => \E j \in 1 .. Len(t) : t[j] = frames[m]
  <2> TAKE m \in 1 .. n
  <2> HAVE frames[m].id[1] # p
  <2>1. CASE m = n
    <3>1. l + 1 \in 1 .. Len(t)
      BY <1>1, <1>2
    <3> QED
      BY <1>2, <2>1, <3>1
  <2>2. CASE m # n
    <3>1. m \in 1 .. n - 1
      BY <1>3, <2>2
    <3>2. PICK j \in 1 .. l : r[j] = frames[m]
      BY <3>1 DEF Stays
    <3> QED
      BY <1>2, <1>3, <3>2
  <2> QED
    BY <2>1, <2>2
<1>7. \A j \in 1 .. l : t[j].id # x.id
  <2> TAKE j \in 1 .. l
  <2>1. PICK m \in 1 .. n - 1 : r[j] = frames[m]
    BY <1>4
  <2>2. frames[m].id # frames[n].id
    BY <1>1, <1>3 DEF Single
  <2> QED
    BY <1>2, <2>1, <2>2
<1>8. Single(t)
  <2> SUFFICES ASSUME NEW j \in 1 .. l + 1, NEW k \in 1 .. l + 1, t[j].id = t[k].id
               PROVE  j = k
    BY <1>2 DEF Single
  <2>1. CASE j \in 1 .. l /\ k \in 1 .. l
    BY <1>2, <2>1 DEF Stays, Single
  <2>2. CASE j = l + 1 \/ k = l + 1
    BY <1>2, <1>3, <1>7, <2>2
  <2> QED
    BY <1>3, <2>1, <2>2
<1>9. ASSUME algorithm = "FIFO", NEW j \in 1 .. l + 1, NEW k \in 1 .. l + 1, j <= k
      PROVE  since[t[j].id] <= since[t[k].id]
  <2>1. CASE k \in 1 .. l
    <3>1. j \in 1 .. l
      BY <1>1, <1>9, <2>1
    <3>2. since[r[j].id] <= since[r[k].id]
      BY <1>9, <2>1, <3>1 DEF Stays
    <3> QED
      BY <1>2, <2>1, <3>1, <3>2
  <2>2. CASE k = l + 1 /\ j \in 1 .. l
    <3>1. PICK m \in 1 .. n - 1 : r[j] = frames[m]
      BY <1>4, <2>2
    <3>2. since[frames[m].id] <= since[frames[n].id]
      BY <1>3, <1>9 DEF MemoryInv, Stamped
    <3> QED
      BY <1>2, <2>2, <3>1, <3>2
  <2>3. CASE k = l + 1 /\ j = l + 1
    <3>1. since[x.id] \in Nat
      BY <1>1 DEF MemoryInv, MemoryTypes
    <3> QED
      BY <1>2, <2>3, <3>1
  <2> QED
    BY <1>3, <2>1, <2>2, <2>3
<1> QED
  BY <1>2, <1>3, <1>5, <1>6, <1>8, <1>9 DEF Stays, t

LEMMA RemovePagesStays ==
  ASSUME MemoryInv, NEW p
  PROVE  Stays(RemovePages(p), Len(frames), p)
<1>1. frames \in Seq(Page) /\ Len(frames) \in Nat
  BY LenProperties DEF MemoryInv, MemoryTypes
<1>2. PICK f : /\ f = [n \in 0 .. Len(frames) |->
                       IF n = 0 THEN <<>>
                       ELSE IF frames[n].id[1] # p THEN Append(f[n - 1], frames[n]) ELSE f[n - 1]]
               /\ RemovePages(p) = f[Len(frames)]
  BY <1>1, RemovePagesIs
<1>3. /\ f[0] = <<>>
      /\ \A n \in 1 .. Len(frames) :
           f[n] = IF frames[n].id[1] # p THEN Append(f[n - 1], frames[n]) ELSE f[n - 1]
  <2>1. \A n \in 0 .. Len(frames) :
          f[n] = IF n = 0 THEN <<>>
                 ELSE IF frames[n].id[1] # p THEN Append(f[n - 1], frames[n]) ELSE f[n - 1]
    BY <1>2, Zenon
  <2> QED
    BY <1>1, <2>1
<1> DEFINE Bad == {n \in 0 .. Len(frames) : ~Stays(f[n], n, p)}
<1>4. Bad = {}
  <2> SUFFICES ASSUME Bad # {}
               PROVE  FALSE
    OBVIOUS
  <2>1. PICK m \in Bad : \A n \in Bad : m <= n
    <3>1. Bad \subseteq Nat
      OBVIOUS
    <3> HIDE DEF Bad
    <3> QED
      BY <3>1, LeastOfNats
  <2>2. m \in 0 .. Len(frames) /\ ~Stays(f[m], m, p)
    OBVIOUS
  <2>3. CASE m = 0
    BY <1>3, <2>2, <2>3, StaysEmpty
  <2>4. CASE m # 0
    <3>1. m \in 1 .. Len(frames) /\ m - 1 \in 0 .. Len(frames) /\ ~(m <= m - 1)
      BY <1>1, <2>2, <2>4
    <3>2. Stays(f[m - 1], m - 1, p)
      <4>1. m - 1 \notin Bad
        BY <2>1, <3>1
      <4> QED
        BY <3>1, <4>1
    <3>3. CASE frames[m].id[1] # p
      BY <1>3, <2>2, <3>1, <3>2, <3>3, StaysAppend
    <3>4. CASE frames[m].id[1] = p
      BY <1>3, <2>2, <3>1, <3>2, <3>4, StaysSkip
    <3> QED
      BY <3>3, <3>4
  <2> QED
    BY <2>3, <2>4
<1>5. Stays(f[Len(frames)], Len(frames), p)
  BY <1>1, <1>4
<1> QED
  BY <1>2, <1>5

\* A sequence without a page twice has it or has it not.
LEMMA SingleCopies ==
  ASSUME NEW s \in Seq(Page), Single(s), NEW i
  PROVE  Copies(s, i) = One(i \in Ids(s))
<1>1. CASE i \in Ids(s)
  <2>1. PICK k \in 1 .. Len(s) : s[k].id = i
    BY <1>1 DEF Ids
  <2>2. \A j \in 1 .. Len(s) : s[j].id = s[k].id => j = k
    BY DEF Single
  <2>3. Copies(s, s[k].id) = 1
    BY <2>2, CopiesOne
  <2> QED
    BY <1>1, <2>1, <2>3 DEF One
<1>2. CASE i \notin Ids(s)
  <2>1. \A k \in 1 .. Len(s) : s[k].id # i
    BY <1>2 DEF Ids
  <2> QED
    BY <1>2, <2>1, CopiesIs DEF One
<1> QED
  BY <1>1, <1>2

\* RemovePages takes the pages of the process, and keeps those of the others.
LEMMA RemovePagesMoves ==
  ASSUME MemoryInv, NEW p, frames' = RemovePages(p),
         UNCHANGED <<workload, algorithm, disk, hand, since, elapsed>>
  PROVE  /\ frames' \in Seq(Page) /\ Fit' /\ Single(frames') /\ Stamped'
         /\ \A i : i \in Ids(frames') <=> i \in Ids(frames) /\ i[1] # p
         /\ \A i : i[1] # p => Copies(frames', i) = Copies(frames, i)
<1> DEFINE n == Len(frames)
           r == frames'
<1>1. Stays(r, n, p)
  BY RemovePagesStays
<1>2. /\ frames \in Seq(Page) /\ n \in Nat /\ r \in Seq(Page) /\ Len(r) \in Nat /\ Len(r) <= n
      /\ Single(frames) /\ Single(r) /\ MemoryFrames \in Nat \ {0} /\ n <= MemoryFrames
  BY <1>1, LenProperties, BoundsAssumption DEF MemoryInv, MemoryTypes, Fit, Stays
<1>3. PageIds' = PageIds
  BY DEF PageIds, Procs
<1>4. Fit'
  BY <1>2 DEF MemoryInv, Fit
<1>5. \A i : i \in Ids(r) <=> i \in Ids(frames) /\ i[1] # p
  <2> TAKE i
  <2>1. ASSUME i \in Ids(r) PROVE i \in Ids(frames) /\ i[1] # p
    <3>1. PICK j \in 1 .. Len(r) : r[j].id = i
      BY <2>1 DEF Ids
    <3>2. PICK m \in 1 .. n : r[j] = frames[m] /\ frames[m].id[1] # p
      BY <1>1 DEF Stays
    <3> QED
      BY <3>1, <3>2 DEF Ids
  <2>2. ASSUME i \in Ids(frames), i[1] # p PROVE i \in Ids(r)
    <3>1. PICK m \in 1 .. n : frames[m].id = i
      BY <2>2 DEF Ids
    <3>2. PICK j \in 1 .. Len(r) : r[j] = frames[m]
      BY <1>1, <2>2, <3>1 DEF Stays
    <3> QED
      BY <3>1, <3>2 DEF Ids
  <2> QED
    BY <2>1, <2>2
<1>6. \A i : i[1] # p => Copies(r, i) = Copies(frames, i)
  <2> TAKE i
  <2> HAVE i[1] # p
  <2>1. Copies(r, i) = One(i \in Ids(r)) /\ Copies(frames, i) = One(i \in Ids(frames))
    BY <1>2, SingleCopies
  <2>2. i \in Ids(r) <=> i \in Ids(frames)
    BY <1>5
  <2> QED
    BY <2>1, <2>2 DEF One
<1>7. Stamped'
  <2>1. algorithm = "FIFO" =>
          \A j, k \in 1 .. Len(r) : j <= k => since[r[j].id] <= since[r[k].id]
    BY <1>1 DEF Stays
  <2>2. ASSUME algorithm = "LRU", NEW k \in 1 .. Len(r)
        PROVE  r[k].lastUsed \in {since[r[k].id], since[r[k].id] + 1}
    <3>1. PICK m \in 1 .. n : r[k] = frames[m]
      BY <1>1 DEF Stays
    <3> QED
      BY <2>2, <3>1 DEF MemoryInv, Stamped
  <2>3. \A i \in PageIds : since[i] <= elapsed
    BY DEF MemoryInv, Stamped
  <2> QED
    BY <1>3, <2>1, <2>2, <2>3 DEF Stamped
<1> QED
  BY <1>2, <1>4, <1>5, <1>6, <1>7

-----------------------------------------------------------------------------
(* Page replacement: the inductive invariant *)

Places    == {"incoming", "waiting", "ready", "running", "left"}
Submitted == {"waiting", "ready", "running"}
Admitted  == {"ready", "running"}

PagesTypes ==
  /\ workload \in Workloads /\ algorithm \in Algorithms
  /\ place \in [Procs -> Places] /\ uses \in [Procs -> Seq(Use)] /\ done \in [Procs -> Nat]
  /\ exited \in BOOLEAN

\* The uses us are of pages that p listed.
Lists(p, us) ==
  \A k \in 1 .. Len(us) : \E j \in 1 .. Len(workload[p].pages) :
    workload[p].pages[j].value = us[k].value

Using ==
  \A p \in Procs :
    /\ Lists(p, uses[p])
    /\ place[p] \in {"incoming", "waiting"} => uses[p] = workload[p].pages
    /\ place[p] # "left" => done[p] < workload[p].exec

\* In memory are pages of admitted processes, on disk of those submitted or gone.
InMemory    == \A i \in Ids(frames) : place[i[1]] \in Admitted
Unsubmitted == \A i \in Ids(disk) : place[i[1]] # "incoming"

\* Nothing is lost, and nothing doubled but by OPTIMAL.
Conserved ==
  \A i \in PageIds : place[i[1]] \in Submitted =>
    /\ Copies(frames, i) + Copies(disk, i) >= Listed(i[1], i[2])
    /\ algorithm # "OPTIMAL" => Copies(frames, i) + Copies(disk, i) = Listed(i[1], i[2])

GaveUp ==
  exited => /\ algorithm = "OPTIMAL"
            /\ \E p \in Running : <<p, uses[p][1].value>> \in Ids(frames)

Settled  == InMemory /\ Unsubmitted /\ Conserved
PagesInv == PagesTypes /\ MemoryInv /\ Using /\ Settled /\ GaveUp

LEMMA ProcessIs ==
  ASSUME PagesTypes, NEW p \in Procs
  PROVE  /\ workload[p].exec \in Nat \ {0} /\ workload[p].pages \in Seq(Use)
         /\ workload[p].pages # <<>>
         /\ place[p] \in Places /\ uses[p] \in Seq(Use) /\ done[p] \in Nat
<1>1. workload \in Seq([exec : Nat \ {0}, pages : Seq(Use) \ {<<>>}])
  BY BoundsAssumption DEF PagesTypes
<1>2. p \in 1 .. Len(workload)
  BY <1>1, LenProperties DEF Procs
<1>3. workload[p] \in [exec : Nat \ {0}, pages : Seq(Use) \ {<<>>}]
  BY <1>1, <1>2, ElementOfSeq
<1> QED
  BY <1>3 DEF PagesTypes

LEMMA PageIdIs ==
  ASSUME NEW i \in PageIds
  PROVE  i[1] \in Procs /\ i = <<i[1], i[2]>>
BY DEF PageIds

LEMMA ListedIs ==
  ASSUME PagesTypes, NEW p \in Procs, NEW v
  PROVE  /\ Listed(p, v) \in Nat
         /\ (\E j \in 1 .. Len(workload[p].pages) : workload[p].pages[j].value = v) =>
              Listed(p, v) >= 1 /\ <<p, v>> \in PageIds
<1> DEFINE ps == workload[p].pages
           L == {k \in 1 .. Len(ps) : ps[k].value = v}
<1>1. ps \in Seq(Use) /\ Len(ps) \in Nat /\ DOMAIN ps = 1 .. Len(ps)
  BY ProcessIs, LenProperties
<1>2. Listed(p, v) = Cardinality(L)
  BY <1>1 DEF Listed
<1>3. IsFiniteSet(L)
  <2>1. IsFiniteSet(1 .. Len(ps)) /\ L \in SUBSET (1 .. Len(ps))
    BY <1>1, FS_Interval
  <2> QED
    BY <2>1, FS_Subset
<1>4. Cardinality(L) \in Nat /\ (Cardinality(L) = 0 <=> L = {})
  BY <1>3, FS_CardinalityType, FS_EmptySet
<1>5. ASSUME NEW j \in 1 .. Len(ps), ps[j].value = v
      PROVE  Listed(p, v) >= 1 /\ <<p, v>> \in PageIds
  <2>1. L # {}
    BY <1>5
  <2>2. ps[j] \in ToSet(ps)
    BY <1>1 DEF ToSet
  <2>3. ps[j] \in UNION {ToSet(workload[q].pages) : q \in Procs}
    BY <2>2
  <2>4. <<p, ps[j].value>> \in PageIds
    BY <2>3 DEF PageIds
  <2> HIDE DEF L
  <2> QED
    BY <1>2, <1>4, <1>5, <2>1, <2>4
<1> QED
  BY <1>2, <1>4, <1>5

\* A page that a submitted process listed is in memory or on disk.
LEMMA ListedFound ==
  ASSUME PagesTypes, MemoryInv, Conserved, NEW p \in Procs, NEW v, place[p] \in Submitted,
         \E j \in 1 .. Len(workload[p].pages) : workload[p].pages[j].value = v
  PROVE  <<p, v>> \in Ids(frames) \cup Ids(disk)
<1> DEFINE i == <<p, v>>
<1>1. Listed(p, v) \in Nat /\ Listed(p, v) >= 1 /\ i \in PageIds
  BY ListedIs
<1>2. i[1] = p /\ i[2] = v
  OBVIOUS
<1> HIDE DEF i
<1>3. Copies(frames, i) + Copies(disk, i) >= Listed(p, v)
  BY <1>1, <1>2 DEF Conserved
<1>4. frames \in Seq(Page) /\ disk \in Seq(Page)
  BY DEF MemoryInv, MemoryTypes
<1>5. Copies(frames, i) \in Nat /\ Copies(disk, i) \in Nat
  BY <1>4, CopiesIs
<1>6. Copies(frames, i) # 0 \/ Copies(disk, i) # 0
  BY <1>1, <1>3, <1>5
<1>7. Copies(frames, i) # 0 => i \in Ids(frames)
  BY <1>4, CopiesIs DEF Ids
<1>8. Copies(disk, i) # 0 => i \in Ids(disk)
  BY <1>4, CopiesIs DEF Ids
<1> QED
  BY <1>6, <1>7, <1>8 DEF i

LEMMA RemainingIs ==
  ASSUME NEW us \in Seq(Use), NEW n \in Nat, NEW p \in Procs, Lists(p, us)
  PROVE  Remaining(us, n) \in Seq(Use) /\ Lists(p, Remaining(us, n))
<1> DEFINE t == Tail(us)
<1>1. CASE Remaining(us, n) = us
  BY <1>1
<1>2. CASE Remaining(us, n) # us
  <2>1. us # <<>> /\ Remaining(us, n) = t
    BY <1>2 DEF Remaining
  <2>2. /\ t \in Seq(Use) /\ Len(t) = Len(us) - 1 /\ Len(us) \in Nat
        /\ \A k \in 1 .. Len(t) : t[k] = us[k + 1]
    BY <2>1, HeadTailProperties, LenProperties
  <2> HIDE DEF t
  <2>3. \A k \in 1 .. Len(t) : k + 1 \in 1 .. Len(us) /\ t[k] = us[k + 1]
    BY <2>2
  <2> QED
    BY <2>1, <2>2, <2>3 DEF Lists
<1> QED
  BY <1>1, <1>2

LEMMA AnswerIs ==
  ASSUME NEW us \in Seq(Use), NEW n \in Nat
  PROVE  /\ Answer(us, n) \in Use
         /\ Answer(us, n) # NoUse <=> Answer(us, n).life # 0
         /\ Answer(us, n).life # 0 =>
              /\ Remaining(us, n) # <<>>
              /\ 1 \in 1 .. Len(Remaining(us, n)) /\ Answer(us, n) = Remaining(us, n)[1]
<1> DEFINE left == Remaining(us, n)
<1>1. NoUse \in Use /\ NoUse.life = 0
  BY DEF NoUse, Use
<1>2. left \in Seq(Use)
  BY HeadTailProperties DEF Remaining
<1>3. \/ Answer(us, n) = NoUse
      \/ left # <<>> /\ left[1].life > 0 /\ Answer(us, n) = left[1]
  BY DEF Answer
<1> HIDE DEF left
<1>4. left # <<>> => 1 \in 1 .. Len(left) /\ left[1] \in Use
  BY <1>2, LenProperties, ElementOfSeq
<1>5. left # <<>> => left[1].life \in Nat
  BY <1>4 DEF Use
<1>6. CASE Answer(us, n) = NoUse
  BY <1>1, <1>6
<1>7. CASE left # <<>> /\ left[1].life > 0 /\ Answer(us, n) = left[1]
  <2>1. Answer(us, n).life # 0
    BY <1>5, <1>7
  <2> QED
    BY <1>1, <1>4, <1>7, <2>1 DEF left
<1> QED
  BY <1>3, <1>6, <1>7

\* What getPage answers is a page the process listed.
LEMMA AnswerListed ==
  ASSUME NEW us \in Seq(Use), NEW n \in Nat, NEW p \in Procs, Lists(p, us), Answer(us, n).life # 0
  PROVE  \E j \in 1 .. Len(workload[p].pages) : workload[p].pages[j].value = Answer(us, n).value
<1>1. 1 \in 1 .. Len(Remaining(us, n)) /\ Answer(us, n) = Remaining(us, n)[1]
  BY AnswerIs
<1>2. Lists(p, Remaining(us, n))
  BY RemainingIs
<1> QED
  BY <1>1, <1>2 DEF Lists

-----------------------------------------------------------------------------
(* Page replacement: admissions and ticks *)

\* What an admission or a tick that looks for a page of q leaves.
Paged(q) ==
  /\ MemoryInv'
  /\ \A i \in Ids(frames') : i \in Ids(frames) \/ i[1] = q
  /\ Ids(disk') \subseteq Ids(frames) \cup Ids(disk)
  /\ \A i \in PageIds :
       /\ Copies(frames', i) + Copies(disk', i) >= Copies(frames, i) + Copies(disk, i)
       /\ algorithm # "OPTIMAL" =>
            Copies(frames', i) + Copies(disk', i) = Copies(frames, i) + Copies(disk, i)
  /\ FirstOut

LEMMA LoadedPages ==
  ASSUME MemoryInv, Later, NEW q, NEW v, Loaded(<<q, v>>)
  PROVE  Paged(q)
<1>1. PageIds' = PageIds /\ algorithm' = algorithm /\ elapsed' \in Nat
  BY DEF Later, PageIds, Procs, MemoryInv, MemoryTypes
<1>2. Page' = Page
  BY <1>1 DEF Page
<1>3. MemoryInv'
  BY <1>1, <1>2 DEF MemoryInv, MemoryTypes, Loaded, Moves
<1> QED
  BY <1>3 DEF Paged, Loaded, Moves

\* Nothing leaves memory or comes to it, but marks may change.
LEMMA SamePages ==
  ASSUME MemoryInv, Later, NEW q, UNCHANGED <<disk, hand>>,
         frames' \in Seq(Page), Len(frames') = Len(frames),
         \A k \in 1 .. Len(frames) : frames'[k].id = frames[k].id,
         since' \in [PageIds -> Nat], Stamped'
  PROVE  Paged(q)
<1>1. PageIds' = PageIds /\ algorithm' = algorithm /\ elapsed' \in Nat
  BY DEF Later, PageIds, Procs, MemoryInv, MemoryTypes
<1>2. Page' = Page
  BY <1>1 DEF Page
<1>3. frames \in Seq(Page) /\ disk \in Seq(Page) /\ disk' = disk /\ hand' = hand
  BY DEF MemoryInv, MemoryTypes
<1>4. Single(frames') /\ Ids(frames') = Ids(frames)
  BY DEF MemoryInv, Single, Ids
<1>5. Fit'
  BY <1>1 DEF MemoryInv, Fit
<1>6. MemoryInv'
  BY <1>1, <1>2, <1>3, <1>4, <1>5 DEF MemoryInv, MemoryTypes
<1>7. ASSUME NEW i \in PageIds
      PROVE  /\ Copies(frames', i) + Copies(disk', i) >= Copies(frames, i) + Copies(disk, i)
             /\ Copies(frames', i) + Copies(disk', i) = Copies(frames, i) + Copies(disk, i)
  <2>1. Copies(frames', i) = Copies(frames, i)
    BY <1>3, CopiesSame
  <2>2. Copies(frames, i) \in Nat /\ Copies(disk, i) \in Nat
    BY <1>3, CopiesIs
  <2> QED
    BY <1>3, <2>1, <2>2
<1>8. FirstOut
  BY <1>4 DEF FirstOut, Ids
<1> QED
  BY <1>3, <1>4, <1>6, <1>7, <1>8 DEF Paged

LEMMA IdlePages ==
  ASSUME MemoryInv, Later, NEW q, UNCHANGED <<frames, disk, hand, since>>
  PROVE  Paged(q)
<1>1. PageIds' = PageIds /\ algorithm' = algorithm /\ elapsed' \in {elapsed, elapsed + 1}
      /\ frames' = frames /\ since' = since
  BY DEF Later, PageIds, Procs
<1>2. frames \in Seq(Page) /\ since \in [PageIds -> Nat] /\ elapsed \in Nat
  BY DEF MemoryInv, MemoryTypes
<1>3. Stamped'
  BY <1>1, <1>2 DEF MemoryInv, Stamped
<1> QED
  BY <1>1, <1>2, <1>3, SamePages

\* A page found in memory is marked.
LEMMA HitPages ==
  ASSUME MemoryInv, Later, elapsed' = elapsed + 1, NEW q, NEW k \in 1 .. Len(frames),
         frames' = [frames EXCEPT ![k].lastUsed = Stamp, ![k].referenced = TRUE],
         since' = IF algorithm = "LRU" THEN [since EXCEPT ![frames[k].id] = elapsed] ELSE since,
         UNCHANGED <<disk, hand>>
  PROVE  Paged(q) /\ Ids(frames') = Ids(frames)
<1> DEFINE n == Len(frames)
<1>1. /\ frames \in Seq(Page) /\ since \in [PageIds -> Nat] /\ elapsed \in Nat /\ Stamp \in Nat
      /\ n \in Nat /\ DOMAIN frames = 1 .. n /\ Stamp = elapsed + 1
  BY LenProperties DEF MemoryInv, MemoryTypes, Stamp
<1>2. frames[k] \in Page /\ frames[k].id \in PageIds
  BY <1>1, PageAt
<1> DEFINE x == [[frames[k] EXCEPT !.lastUsed = Stamp] EXCEPT !.referenced = TRUE]
<1>3. x \in Page /\ x.id = frames[k].id /\ x.lastUsed = elapsed + 1
  BY <1>1, <1>2 DEF Page
<1>4. frames' = [frames EXCEPT ![k] = x]
  <2>1. frames' = [j \in 1 .. n |-> IF j = k THEN x ELSE frames[j]]
    BY <1>1
  <2> HIDE DEF x
  <2> QED
    BY <1>1, <2>1
<1> HIDE DEF x
<1>5. /\ frames' \in Seq(Page) /\ Len(frames') = n
      /\ \A j \in 1 .. n : frames'[j] = IF j = k THEN x ELSE frames[j]
  <2> DEFINE g == [frames EXCEPT ![k] = x]
  <2>1. /\ g \in Seq(Page) /\ Len(g) = Len(frames)
        /\ \A j \in 1 .. Len(frames) : g[j] = IF j = k THEN x ELSE frames[j]
    BY <1>1, <1>3, ExceptSeq
  <2>2. frames' = g
    BY <1>4
  <2> HIDE DEF g
  <2> QED
    BY <2>1, <2>2
<1>6. \A j \in 1 .. n : frames'[j].id = frames[j].id
  BY <1>3, <1>5
<1>7. since' \in [PageIds -> Nat]
  BY <1>1
<1>8. PageIds' = PageIds /\ algorithm' = algorithm
  BY DEF Later, PageIds, Procs
<1>9. \A i \in PageIds : /\ since[i] \in Nat /\ since[i] <= elapsed
                         /\ since'[i] = IF algorithm = "LRU" /\ i = frames[k].id
                                        THEN elapsed ELSE since[i]
  BY <1>1 DEF MemoryInv, Stamped
<1>10. Stamped'
  <2>1. \A i \in PageIds : since'[i] <= elapsed + 1
    BY <1>1, <1>9
  <2>2. ASSUME algorithm = "FIFO", NEW i \in 1 .. n, NEW j \in 1 .. n, i <= j
        PROVE  since'[frames'[i].id] <= since'[frames'[j].id]
    <3>1. since' = since
      BY <2>2
    <3>2. since[frames[i].id] <= since[frames[j].id]
      BY <2>2 DEF MemoryInv, Stamped
    <3> QED
      BY <1>6, <3>1, <3>2
  <2>3. ASSUME algorithm = "LRU", NEW j \in 1 .. n
        PROVE  frames'[j].lastUsed \in {since'[frames'[j].id], since'[frames'[j].id] + 1}
    <3>1. CASE j = k
      BY <1>2, <1>3, <1>5, <1>9, <2>3, <3>1
    <3>2. CASE j # k
      <4>1. frames'[j] = frames[j] /\ frames[j].id # frames[k].id
        BY <1>5, <3>2 DEF MemoryInv, Single
      <4>2. frames[j].id \in PageIds
        BY <1>1, PageAt
      <4>3. since'[frames[j].id] = since[frames[j].id]
        BY <1>9, <4>1, <4>2
      <4>4. frames[j].lastUsed \in {since[frames[j].id], since[frames[j].id] + 1}
        BY <2>3 DEF MemoryInv, Stamped
      <4> QED
        BY <4>1, <4>3, <4>4
    <3> QED
      BY <3>1, <3>2
  <2> QED
    BY <1>5, <1>8, <2>1, <2>2, <2>3 DEF Stamped
<1>11. Paged(q)
  BY <1>5, <1>6, <1>7, <1>10, SamePages
<1>12. Ids(frames') = Ids(frames)
  BY <1>5, <1>6 DEF Ids
<1> QED
  BY <1>11, <1>12

\* The invariant on where pages are outlives a page's coming, for a process that
\* is admitted by then.
LEMMA PagedSettles ==
  ASSUME PagesTypes, MemoryInv, Settled, Later, NEW q, Paged(q),
         place'[q] \in Admitted,
         \A p \in Procs : /\ place[p] \in Admitted => place'[p] \in Admitted
                          /\ place[p] # "incoming" => place'[p] # "incoming"
                          /\ place'[p] \in Submitted => place[p] \in Submitted
  PROVE  Settled'
<1>1. PageIds' = PageIds /\ algorithm' = algorithm
      /\ \A p, v : Listed(p, v)' = Listed(p, v)
  BY DEF Later, PageIds, Procs, Listed
<1>2. frames \in Seq(Page) /\ disk \in Seq(Page) /\ frames' \in Seq(Page) /\ disk' \in Seq(Page)
  <2>1. Page' = Page
    BY <1>1 DEF Page
  <2> QED
    BY <2>1 DEF MemoryInv, MemoryTypes, Paged
<1>3. \A i \in Ids(frames) \cup Ids(disk) : i \in PageIds /\ i[1] \in Procs
  BY <1>2, PageAt, PageIdIs DEF Ids
<1>4. InMemory'
  <2> SUFFICES ASSUME NEW i \in Ids(frames')
               PROVE  place'[i[1]] \in Admitted
    BY DEF InMemory
  <2>1. CASE i[1] = q
    BY <2>1
  <2>2. CASE i \in Ids(frames)
    BY <1>3, <2>2 DEF Settled, InMemory
  <2> QED
    BY <2>1, <2>2 DEF Paged
<1>5. Unsubmitted'
  <2> SUFFICES ASSUME NEW i \in Ids(disk')
               PROVE  place'[i[1]] # "incoming"
    BY DEF Unsubmitted
  <2>1. CASE i \in Ids(disk)
    BY <1>3, <2>1 DEF Settled, Unsubmitted
  <2>2. CASE i \in Ids(frames)
    BY <1>3, <2>2 DEF Settled, InMemory, Admitted
  <2> QED
    BY <2>1, <2>2 DEF Paged
<1>6. Conserved'
  <2> SUFFICES ASSUME NEW i \in PageIds, place'[i[1]] \in Submitted
               PROVE  /\ Copies(frames', i) + Copies(disk', i) >= Listed(i[1], i[2])
                      /\ algorithm # "OPTIMAL" =>
                           Copies(frames', i) + Copies(disk', i) = Listed(i[1], i[2])
    <3>1. \A i \in PageIds : Listed(i[1], i[2])' = Listed(i[1], i[2])
      BY <1>1
    <3> QED
      BY <1>1, <3>1 DEF Conserved
  <2> DEFINE c == Copies(frames, i) + Copies(disk, i)
             d == Copies(frames', i) + Copies(disk', i)
             l == Listed(i[1], i[2])
  <2>1. i[1] \in Procs /\ place[i[1]] \in Submitted
    BY PageIdIs
  <2>2. c >= l /\ (algorithm # "OPTIMAL" => c = l)
    BY <2>1 DEF Settled, Conserved
  <2>3. d >= c /\ (algorithm # "OPTIMAL" => d = c)
    BY DEF Paged
  <2>4. c \in Nat /\ d \in Nat /\ l \in Nat
    <3>1. Copies(frames, i) \in Nat /\ Copies(disk, i) \in Nat
      BY <1>2, CopiesIs
    <3>2. Copies(frames', i) \in Nat /\ Copies(disk', i) \in Nat
      BY <1>2, CopiesIs
    <3>3. l \in Nat
      BY <2>1, ListedIs
    <3> QED
      BY <3>1, <3>2, <3>3
  <2> HIDE DEF c, d, l
  <2>5. d >= l /\ (algorithm # "OPTIMAL" => d = l)
    BY <2>2, <2>3, <2>4
  <2> QED
    BY <2>5 DEF d, l
<1> QED
  BY <1>4, <1>5, <1>6 DEF Settled

\* Dispatch and PageInMemory: afterwards the page that getPage answers is in memory.
LEMMA TouchPages ==
  ASSUME PagesTypes, MemoryInv, Using, Settled, Later, elapsed' = elapsed + 1,
         NEW p \in Procs, place[p] \in Admitted, Touch(p)
  PROVE  /\ Paged(p) /\ exited' = exited
         /\ Answer(uses[p], done[p]) # NoUse
            /\ Answer(Remaining(uses[p], done[p]), done[p]) # NoUse
            => <<p, Answer(Remaining(uses[p], done[p]), done[p]).value>> \in Ids(frames')
<1> DEFINE us     == uses[p]
           n      == done[p]
           first  == Answer(us, n)
           second == Answer(Remaining(us, n), n)
           id     == <<p, second.value>>
           k      == SelectInSeq(frames, LAMBDA page : Matches(page, id))
<1>1. us \in Seq(Use) /\ n \in Nat /\ Lists(p, us) /\ place[p] \in Submitted
  BY ProcessIs DEF Using, Admitted, Submitted
<1>2. Remaining(us, n) \in Seq(Use) /\ Lists(p, Remaining(us, n))
  BY <1>1, RemainingIs
<1>3. second \in Use /\ (second # NoUse <=> second.life # 0)
  BY <1>1, <1>2, AnswerIs
<1>4. first # NoUse <=> first.life # 0
  BY <1>1, AnswerIs
<1>5. second.life # 0 => id \in Ids(frames) \cup Ids(disk)
  <2>1. second.life # 0 =>
          \E j \in 1 .. Len(workload[p].pages) : workload[p].pages[j].value = second.value
    BY <1>1, <1>2, AnswerListed
  <2> QED
    BY <1>1, <2>1, ListedFound DEF Settled
<1>6. k = 0 <=> id \notin Ids(frames)
  <2>1. k = Index(frames, id)
    BY DEF Index, Matches
  <2> QED
    BY <2>1, IndexIs DEF MemoryInv, MemoryTypes
<1>7. k # 0 => k \in 1 .. Len(frames) /\ frames[k].id = id
  <2>1. k = Index(frames, id)
    BY DEF Index, Matches
  <2> QED
    BY <2>1, IndexIs DEF MemoryInv, MemoryTypes
<1>8. \/ first.life = 0 /\ UNCHANGED memory
      \/ /\ second # NoUse /\ k # 0
         /\ frames' = [frames EXCEPT ![k].lastUsed = Stamp, ![k].referenced = TRUE]
         /\ since' = IF algorithm = "LRU" THEN [since EXCEPT ![id] = elapsed] ELSE since
         /\ UNCHANGED <<disk, hand, exited>>
      \/ ~(second # NoUse /\ k # 0) /\ Replace(p, second)
  BY DEF Touch
<1> HIDE DEF us, n, first, second, id, k
<1>9. Paged(p) /\ exited' = exited /\ (first # NoUse /\ second # NoUse => id \in Ids(frames'))
  <2>1. CASE first.life = 0 /\ UNCHANGED memory
    <3>1. UNCHANGED <<frames, disk, hand, since>> /\ exited' = exited
      BY <2>1 DEF memory
    <3> QED
      BY <1>4, <2>1, <3>1, IdlePages
  <2>2. CASE /\ second # NoUse /\ k # 0
             /\ frames' = [frames EXCEPT ![k].lastUsed = Stamp, ![k].referenced = TRUE]
             /\ since' = IF algorithm = "LRU" THEN [since EXCEPT ![id] = elapsed] ELSE since
             /\ UNCHANGED <<disk, hand, exited>>
    <3>1. k \in 1 .. Len(frames) /\ frames[k].id = id
      BY <1>7, <2>2
    <3>2. since' = IF algorithm = "LRU" THEN [since EXCEPT ![frames[k].id] = elapsed] ELSE since
      BY <2>2, <3>1
    <3>3. Paged(p) /\ Ids(frames') = Ids(frames)
      BY <2>2, <3>1, <3>2, HitPages
    <3>4. id \in Ids(frames)
      BY <1>6, <2>2
    <3> QED
      BY <2>2, <3>3, <3>4
  <2>3. CASE ~(second # NoUse /\ k # 0) /\ Replace(p, second)
    <3>1. second.life # 0 => id \notin Ids(frames)
      BY <1>3, <1>6, <2>3
    <3>2. \/ UNCHANGED memory /\ second.life = 0
          \/ second.life # 0 /\ id \in Ids(frames)
          \/ second.life # 0 /\ Loaded(id)
      <4>1. second.life # 0 => /\ <<p, second.value>> \in Ids(frames) \cup Ids(disk)
                               /\ algorithm # "OPTIMAL" => <<p, second.value>> \notin Ids(frames)
        BY <1>5, <3>1 DEF id
      <4>2. \/ UNCHANGED memory /\ second.life = 0
            \/ /\ second.life # 0 /\ algorithm = "OPTIMAL" /\ <<p, second.value>> \in Ids(frames)
               /\ UNCHANGED <<frames, disk, hand, since>> /\ exited' \in {exited, TRUE}
            \/ second.life # 0 /\ Loaded(<<p, second.value>>)
        BY <1>3, <2>3, <4>1, ReplaceMoves
      <4> QED
        BY <4>2 DEF id
    <3>3. CASE UNCHANGED memory /\ second.life = 0
      <4>1. UNCHANGED <<frames, disk, hand, since>> /\ exited' = exited
        BY <3>3 DEF memory
      <4> QED
        BY <1>3, <3>3, <4>1, IdlePages
    <3>4. CASE second.life # 0 /\ Loaded(id)
      <4>1. exited' = exited /\ id \in Ids(frames')
        BY <3>4 DEF Loaded, Moves
      <4>2. Paged(p)
        BY <3>4, LoadedPages DEF id
      <4> QED
        BY <4>1, <4>2
    <3> QED
      BY <3>1, <3>2, <3>3, <3>4
  <2> QED
    BY <1>8, <2>1, <2>2, <2>3
<1> QED
  BY <1>9 DEF us, n, first, second, id

\* Admit: it looks for a page of the process admitted, or OPTIMAL for one of the
\* running process.
LEMMA AdmitPages ==
  ASSUME PagesInv, NEW p \in Procs, Admit(p)
  PROVE  /\ \E q \in Procs : place'[q] \in Admitted /\ Paged(q)
         /\ GaveUp'
<1>1. /\ PagesTypes /\ MemoryInv /\ Using /\ Settled /\ ~exited /\ place[p] = "waiting"
      /\ place' = [place EXCEPT ![p] = "ready"] /\ elapsed' = elapsed
      /\ workload' = workload /\ algorithm' = algorithm /\ Procs' = Procs
  BY DEF PagesInv, Admit, scenario, Procs
<1>2. /\ place'[p] = "ready"
      /\ \A r \in Procs : r # p => place'[r] = place[r]
  BY <1>1 DEF PagesTypes
<1>3. Later
  BY <1>1 DEF Later
<1>4. CASE algorithm # "OPTIMAL"
  <2> DEFINE u == uses[p][1]
  <2>1. Replace(p, u)
    BY <1>4 DEF Admit
  <2>2. uses[p] = workload[p].pages /\ uses[p] \in Seq(Use) /\ uses[p] # <<>>
    BY <1>1, ProcessIs DEF Using
  <2>3. 1 \in 1 .. Len(uses[p]) /\ u \in Use
    BY <2>2, LenProperties, ElementOfSeq
  <2>4. <<p, u.value>> \in Ids(frames) \cup Ids(disk)
    <3>1. \E j \in 1 .. Len(workload[p].pages) : workload[p].pages[j].value = u.value
      BY <2>2, <2>3
    <3> HIDE DEF u
    <3> QED
      BY <1>1, <3>1, ListedFound DEF Settled, Submitted
  <2>5. <<p, u.value>> \notin Ids(frames)
    BY <1>1 DEF Settled, InMemory, Admitted
  <2> HIDE DEF u
  <2>6. \/ UNCHANGED memory
        \/ Loaded(<<p, u.value>>)
    BY <1>1, <1>3, <1>4, <2>1, <2>3, <2>4, <2>5, ReplaceMoves
  <2>7. Paged(p) /\ exited' = exited
    <3>1. CASE UNCHANGED memory
      <4>1. UNCHANGED <<frames, disk, hand, since>> /\ exited' = exited
        BY <3>1 DEF memory
      <4> QED
        BY <1>1, <1>3, <4>1, IdlePages
    <3>2. CASE Loaded(<<p, u.value>>)
      BY <1>1, <1>3, <3>2, LoadedPages DEF Loaded
    <3> QED
      BY <2>6, <3>1, <3>2
  <2>8. GaveUp'
    BY <1>1, <2>7 DEF GaveUp
  <2> QED
    BY <1>2, <2>7, <2>8 DEF Admitted
<1>5. CASE algorithm = "OPTIMAL"
  <2>1. PICK q \in Running : /\ Replace(q, Answer(uses[q], done[q]))
                             /\ uses' = [uses EXCEPT ![q] = Remaining(@, done[q])]
    BY <1>5 DEF Admit
  <2> DEFINE u == Answer(uses[q], done[q])
  <2>2. q \in Procs /\ place[q] = "running" /\ q # p
    BY <1>1, <2>1 DEF Running
  <2>3. uses[q] \in Seq(Use) /\ done[q] \in Nat /\ Lists(q, uses[q])
    BY <1>1, <2>2, ProcessIs DEF Using
  <2>4. u \in Use /\ (u.life # 0 => u = Remaining(uses[q], done[q])[1])
    BY <2>3, AnswerIs
  <2>5. u.life # 0 => <<q, u.value>> \in Ids(frames) \cup Ids(disk)
    <3>1. u.life # 0 =>
            \E j \in 1 .. Len(workload[q].pages) : workload[q].pages[j].value = u.value
      BY <2>2, <2>3, AnswerListed
    <3> HIDE DEF u
    <3> QED
      BY <1>1, <2>2, <3>1, ListedFound DEF Settled, Submitted
  <2>6. Replace(q, u)
    BY <2>1
  <2>7. uses'[q] = Remaining(uses[q], done[q])
    BY <1>1, <2>1, <2>2 DEF PagesTypes
  <2>8. place'[q] = "running" /\ q \in Running'
    BY <1>1, <1>2, <2>2 DEF Running
  <2> HIDE DEF u
  <2>9. \/ UNCHANGED memory
        \/ /\ u.life # 0 /\ <<q, u.value>> \in Ids(frames)
           /\ UNCHANGED <<frames, disk, hand, since>>
        \/ Loaded(<<q, u.value>>)
    BY <1>1, <1>3, <1>5, <2>2, <2>4, <2>5, <2>6, ReplaceMoves
  <2>10. Paged(q) /\ GaveUp'
    <3>1. CASE UNCHANGED memory
      <4>1. UNCHANGED <<frames, disk, hand, since>> /\ exited' = exited
        BY <3>1 DEF memory
      <4>2. Paged(q)
        BY <1>1, <1>3, <4>1, IdlePages
      <4> QED
        BY <1>1, <4>1, <4>2 DEF GaveUp
    <3>2. CASE /\ u.life # 0 /\ <<q, u.value>> \in Ids(frames)
               /\ UNCHANGED <<frames, disk, hand, since>>
      <4>1. Paged(q)
        BY <1>1, <1>3, <3>2, IdlePages
      <4>2. <<q, uses'[q][1].value>> \in Ids(frames')
        BY <2>4, <2>7, <3>2
      <4>3. GaveUp'
        BY <1>1, <1>5, <2>8, <4>2 DEF GaveUp
      <4> QED
        BY <4>1, <4>3
    <3>3. CASE Loaded(<<q, u.value>>)
      <4>1. Paged(q) /\ exited' = exited
        BY <1>1, <1>3, <3>3, LoadedPages DEF Loaded
      <4> QED
        BY <1>1, <4>1 DEF GaveUp
    <3> QED
      BY <2>9, <3>1, <3>2, <3>3
  <2> QED
    BY <2>2, <2>8, <2>10 DEF Admitted
<1> QED
  BY <1>4, <1>5

-----------------------------------------------------------------------------
(* Page replacement: the invariant *)

\* getPage leaves pages that the process listed.
LEMMA UsesRemain ==
  ASSUME PagesTypes, Using, NEW q \in Procs, place[q] \in Admitted,
         UNCHANGED <<workload, done>>,
         uses' = uses \/ uses' = [uses EXCEPT ![q] = Remaining(@, done[q])],
         \A p \in Procs : /\ place'[p] \in {"incoming", "waiting"} =>
                               place[p] \in {"incoming", "waiting"}
                          /\ place'[p] # "left" => place[p] # "left"
  PROVE  uses' \in [Procs -> Seq(Use)] /\ Using'
<1>1. Procs' = Procs /\ workload' = workload /\ done' = done
  BY DEF Procs
<1>2. \A p \in Procs : uses'[p] = uses[p] \/ (p = q /\ uses'[p] = Remaining(uses[p], done[p]))
  BY DEF PagesTypes
<1>3. ASSUME NEW p \in Procs
      PROVE  /\ uses'[p] \in Seq(Use) /\ Lists(p, uses'[p])
             /\ place'[p] \in {"incoming", "waiting"} => uses'[p] = workload[p].pages
             /\ place'[p] # "left" => done[p] < workload[p].exec
  <2>1. uses[p] \in Seq(Use) /\ done[p] \in Nat /\ Lists(p, uses[p])
    BY ProcessIs DEF Using
  <2>2. Remaining(uses[p], done[p]) \in Seq(Use) /\ Lists(p, Remaining(uses[p], done[p]))
    BY <2>1, RemainingIs
  <2>3. place'[p] \in {"incoming", "waiting"} => uses'[p] = workload[p].pages
    <3>1. place'[p] \in {"incoming", "waiting"} => p # q
      BY DEF Admitted
    <3> QED
      BY <1>2, <3>1 DEF Using
  <2>4. place'[p] # "left" => done[p] < workload[p].exec
    BY DEF Using
  <2> QED
    BY <1>2, <2>1, <2>2, <2>3, <2>4
<1>4. uses' \in [Procs -> Seq(Use)]
  <2>1. uses' = [p \in Procs |-> uses'[p]]
    BY DEF PagesTypes
  <2> QED
    BY <1>3, <2>1
<1>5. ASSUME NEW p \in Procs PROVE Lists(p, uses[p])'
  <2>1. Lists(p, uses'[p])
    BY <1>3
  <2> QED
    BY <1>1, <2>1 DEF Lists
<1>6. Using'
  BY <1>1, <1>3, <1>5 DEF Using
<1> QED
  BY <1>4, <1>6

LEMMA AgedIs ==
  ASSUME NEW us \in Seq(Use), NEW p \in Procs, Lists(p, us)
  PROVE  Aged(us) \in Seq(Use) /\ Lists(p, Aged(us))
<1>1. CASE us = <<>> \/ us[1].life = 0
  BY <1>1 DEF Aged
<1>2. CASE ~(us = <<>> \/ us[1].life = 0)
  <2>1. 1 \in 1 .. Len(us) /\ us[1] \in Use
    BY <1>2, LenProperties, ElementOfSeq
  <2> DEFINE y == [us[1] EXCEPT !.life = us[1].life - 1]
             g == [us EXCEPT ![1] = y]
  <2>2. y \in Use /\ y.value = us[1].value
    <3> DEFINE l == us[1].life - 1
    <3>1. l \in Nat
      <4>1. us[1].life \in Nat /\ us[1].life # 0
        BY <1>2, <2>1 DEF Use
      <4> QED
        BY <4>1
    <3> HIDE DEF l
    <3> QED
      BY <2>1, <3>1 DEF Use, l
  <2>3. Aged(us) = g
    BY <1>2, <2>1 DEF Aged
  <2> HIDE DEF y
  <2>4. /\ g \in Seq(Use) /\ Len(g) = Len(us)
        /\ \A j \in 1 .. Len(us) : g[j] = IF j = 1 THEN y ELSE us[j]
    BY <2>1, <2>2, ExceptSeq
  <2> HIDE DEF g
  <2>5. \A j \in 1 .. Len(us) : g[j].value = us[j].value
    BY <2>2, <2>4
  <2> QED
    BY <2>3, <2>4, <2>5 DEF Lists
<1> QED
  BY <1>1, <1>2

\* The pages that a submission puts on disk.
Brought(p) == [k \in DOMAIN uses[p] |-> PageOf(p, uses[p][k])]

LEMMA SubmittedPages ==
  ASSUME PagesTypes, NEW p \in Procs, uses[p] = workload[p].pages
  PROVE  /\ Brought(p) \in Seq(Page)
         /\ \A i \in Ids(Brought(p)) : i[1] = p
         /\ \A i \in PageIds :
              Copies(Brought(p), i) = IF i[1] = p THEN Listed(p, i[2]) ELSE 0
<1> DEFINE us  == workload[p].pages
           new == Brought(p)
<1>1. us \in Seq(Use) /\ Len(us) \in Nat /\ DOMAIN us = 1 .. Len(us) /\ uses[p] = us
  BY ProcessIs, LenProperties
<1>2. ASSUME NEW k \in 1 .. Len(us)
      PROVE  PageOf(p, us[k]) \in Page /\ PageOf(p, us[k]).id = <<p, us[k].value>>
  <2>1. <<p, us[k].value>> \in PageIds
    BY ListedIs
  <2> QED
    BY <2>1 DEF PageOf, Page
<1>3. new = [k \in 1 .. Len(us) |-> PageOf(p, us[k])]
  BY <1>1 DEF Brought
<1> HIDE DEF new
<1>4. /\ new \in Seq(Page) /\ Len(new) = Len(us)
      /\ \A k \in 1 .. Len(us) : /\ new[k].id = <<p, us[k].value>>
                                 /\ new[k].id[1] = p /\ new[k].id[2] = us[k].value
  <2>1. new \in [1 .. Len(us) -> Page]
    BY <1>2, <1>3
  <2>2. \A k \in 1 .. Len(us) : new[k] = PageOf(p, us[k])
    BY <1>3
  <2>3. new \in Seq(Page) /\ Len(new) = Len(us)
    BY <1>1, <2>1
  <2>4. \A v : <<p, v>>[1] = p /\ <<p, v>>[2] = v
    OBVIOUS
  <2>5. ASSUME NEW k \in 1 .. Len(us)
        PROVE  /\ new[k].id = <<p, us[k].value>>
               /\ new[k].id[1] = p /\ new[k].id[2] = us[k].value
    <3>1. new[k].id = <<p, us[k].value>>
      BY <1>2, <2>2
    <3> QED
      BY <2>4, <3>1, Zenon
  <2> HIDE DEF us
  <2> QED
    BY <2>3, <2>5
<1> HIDE DEF us
<1>5. \A i \in Ids(new) : i[1] = p
  BY <1>4 DEF Ids
<1>6. ASSUME NEW i \in PageIds
      PROVE  Copies(new, i) = IF i[1] = p THEN Listed(p, i[2]) ELSE 0
  <2>1. i = <<i[1], i[2]>>
    BY PageIdIs
  <2>2. CASE i[1] = p
    <3>1. Where(new, i) = {k \in DOMAIN us : us[k].value = i[2]}
      <4>1. \A k \in 1 .. Len(us) : new[k].id = i <=> us[k].value = i[2]
        <5>1. i = <<p, i[2]>>
          BY <2>1, <2>2
        <5> QED
          BY <1>4, <5>1
      <4> QED
        BY <1>1, <1>4, <4>1 DEF Where
    <3>2. Copies(new, i) = Cardinality(Where(new, i))
      BY <1>4, CopiesIs
    <3> QED
      BY <2>2, <3>1, <3>2 DEF Listed, us
  <2>3. CASE i[1] # p
    <3>1. \A k \in 1 .. Len(new) : new[k].id # i
      BY <1>4, <2>3
    <3> QED
      BY <1>4, <2>3, <3>1, CopiesIs
  <2> QED
    BY <2>2, <2>3
<1> QED
  BY <1>4, <1>5, <1>6 DEF new

LEMMA SubmitKeeps ==
  ASSUME PagesInv, NEW p \in Procs, Submit(p)
  PROVE  PagesInv'
<1> DEFINE new == Brought(p)
<1>1. /\ PagesTypes /\ MemoryInv /\ Using /\ Settled /\ ~exited /\ place[p] = "incoming"
      /\ elapsed' = elapsed /\ workload' = workload /\ algorithm' = algorithm
      /\ Procs' = Procs /\ PageIds' = PageIds
      /\ uses' = uses /\ done' = done /\ frames' = frames /\ hand' = hand /\ exited' = exited
      /\ since' = since /\ disk' = disk \o new
  BY DEF PagesInv, Submit, scenario, Procs, PageIds, Brought
<1>2. PICK to \in {"waiting", "ready"} : place' = [place EXCEPT ![p] = to]
  BY DEF Submit
<1>3. /\ place'[p] = to
      /\ \A r \in Procs : r # p => place'[r] = place[r]
      /\ place' \in [Procs -> Places]
  BY <1>1, <1>2 DEF PagesTypes, Places
<1>4. uses[p] = workload[p].pages
  BY <1>1 DEF Using
<1>5. /\ new \in Seq(Page)
      /\ \A i \in Ids(new) : i[1] = p
      /\ \A i \in PageIds : Copies(new, i) = IF i[1] = p THEN Listed(p, i[2]) ELSE 0
  BY <1>1, <1>4, SubmittedPages
<1> HIDE DEF new
<1>6. frames \in Seq(Page) /\ disk \in Seq(Page) /\ Page' = Page
  BY <1>1 DEF MemoryInv, MemoryTypes, Page
<1>7. disk' \in Seq(Page) /\ Ids(disk') = Ids(disk) \cup Ids(new)
  <2>1. disk' \in Seq(Page) /\ Joined(disk', disk, new)
    BY <1>1, <1>5, <1>6, ConcatPlaces
  <2>2. Len(disk) \in Nat /\ Len(new) \in Nat
    BY <1>5, <1>6, LenProperties
  <2>3. Ids(disk') \subseteq Ids(disk) \cup Ids(new)
    <3> SUFFICES ASSUME NEW k \in 1 .. Len(disk') PROVE disk'[k].id \in Ids(disk) \cup Ids(new)
      BY DEF Ids
    <3>1. CASE k <= Len(disk)
      <4>1. k \in 1 .. Len(disk) /\ disk'[k] = disk[k]
        BY <2>1, <2>2, <3>1 DEF Joined
      <4> QED
        BY <4>1 DEF Ids
    <3>2. CASE ~(k <= Len(disk))
      <4>1. k - Len(disk) \in 1 .. Len(new) /\ disk'[k] = new[k - Len(disk)]
        BY <2>1, <2>2, <3>2 DEF Joined
      <4> QED
        BY <4>1 DEF Ids
    <3> QED
      BY <3>1, <3>2
  <2>4. Ids(disk) \cup Ids(new) \subseteq Ids(disk')
    <3>1. ASSUME NEW k \in 1 .. Len(disk) PROVE disk[k].id \in Ids(disk')
      <4>1. k \in 1 .. Len(disk') /\ disk'[k] = disk[k]
        BY <2>1, <2>2 DEF Joined
      <4> QED
        BY <4>1 DEF Ids
    <3>2. ASSUME NEW k \in 1 .. Len(new) PROVE new[k].id \in Ids(disk')
      <4>1. Len(disk) + k \in 1 .. Len(disk') /\ disk'[Len(disk) + k] = new[k]
        BY <2>1, <2>2 DEF Joined
      <4> QED
        BY <4>1 DEF Ids
    <3> QED
      BY <3>1, <3>2 DEF Ids
  <2> QED
    BY <2>1, <2>3, <2>4
<1>8. PagesTypes'
  BY <1>1, <1>3 DEF PagesTypes
<1>9. MemoryInv'
  BY <1>1, <1>6, <1>7 DEF MemoryInv, MemoryTypes, Fit, Single, Stamped
<1>10. Using'
  <2>1. \A r \in Procs : Lists(r, uses[r])' = Lists(r, uses[r])
    BY <1>1 DEF Lists
  <2>2. \A r \in Procs : /\ place'[r] \in {"incoming", "waiting"} =>
                              place[r] \in {"incoming", "waiting"}
                         /\ place'[r] # "left" => place[r] # "left"
    BY <1>1, <1>3
  <2> QED
    BY <1>1, <2>1, <2>2 DEF Using
<1>11. \A i \in Ids(frames) \cup Ids(disk) : i \in PageIds /\ i[1] \in Procs
  BY <1>6, PageAt, PageIdIs DEF Ids
<1>12. InMemory'
  <2> SUFFICES ASSUME NEW i \in Ids(frames)
               PROVE  place'[i[1]] \in Admitted
    BY <1>1 DEF InMemory
  <2>1. place[i[1]] \in Admitted /\ i[1] \in Procs
    BY <1>1, <1>11 DEF Settled, InMemory
  <2> QED
    BY <1>1, <1>3, <2>1 DEF Admitted
<1>13. Unsubmitted'
  <2> SUFFICES ASSUME NEW i \in Ids(disk) \cup Ids(new)
               PROVE  place'[i[1]] # "incoming"
    BY <1>7 DEF Unsubmitted
  <2>1. CASE i \in Ids(disk)
    <3>1. place[i[1]] # "incoming" /\ i[1] \in Procs
      BY <1>1, <1>11, <2>1 DEF Settled, Unsubmitted
    <3> QED
      BY <1>3, <3>1
  <2>2. CASE i \in Ids(new)
    BY <1>3, <1>5, <2>2
  <2> QED
    BY <2>1, <2>2
<1>14. Conserved'
  <2> SUFFICES ASSUME NEW i \in PageIds, place'[i[1]] \in Submitted
               PROVE  /\ Copies(frames, i) + Copies(disk', i) >= Listed(i[1], i[2])
                      /\ algorithm # "OPTIMAL" =>
                           Copies(frames, i) + Copies(disk', i) = Listed(i[1], i[2])
    <3>1. \A i \in PageIds : Listed(i[1], i[2])' = Listed(i[1], i[2])
      BY <1>1 DEF Listed
    <3> QED
      BY <1>1, <3>1 DEF Conserved
  <2>1. i[1] \in Procs /\ Listed(i[1], i[2]) \in Nat
    BY <1>1, PageIdIs, ListedIs
  <2>2. Copies(disk', i) = Copies(disk, i) + Copies(new, i)
    BY <1>1, <1>5, <1>6, CopiesConcat
  <2>3. Copies(frames, i) \in Nat /\ Copies(disk, i) \in Nat
    BY <1>6, CopiesIs
  <2>4. CASE i[1] = p
    <3>1. Copies(frames, i) = 0
      <4>1. i \notin Ids(frames)
        BY <1>1, <2>4 DEF Settled, InMemory, Admitted
      <4> QED
        BY <1>6, <4>1, CopiesIs DEF Ids
    <3>2. Copies(disk, i) = 0
      <4>1. i \notin Ids(disk)
        BY <1>1, <2>4 DEF Settled, Unsubmitted
      <4> QED
        BY <1>6, <4>1, CopiesIs DEF Ids
    <3>3. Copies(new, i) = Listed(i[1], i[2])
      BY <1>5, <2>4
    <3> QED
      BY <2>1, <2>2, <3>1, <3>2, <3>3
  <2>5. CASE i[1] # p
    <3>1. Copies(new, i) = 0
      BY <1>5, <2>5
    <3>2. place[i[1]] \in Submitted
      BY <1>3, <2>1, <2>5
    <3>3. /\ Copies(frames, i) + Copies(disk, i) >= Listed(i[1], i[2])
          /\ algorithm # "OPTIMAL" => Copies(frames, i) + Copies(disk, i) = Listed(i[1], i[2])
      BY <1>1, <3>2 DEF Settled, Conserved
    <3>4. Copies(disk', i) = Copies(disk, i)
      BY <2>2, <2>3, <3>1
    <3> QED
      BY <3>3, <3>4
  <2> QED
    BY <2>4, <2>5
<1>15. GaveUp'
  BY <1>1 DEF GaveUp
<1> QED
  BY <1>8, <1>9, <1>10, <1>12, <1>13, <1>14, <1>15 DEF PagesInv, Settled

LEMMA PagesInitially == PagesInit => PagesInv
<1> SUFFICES ASSUME PagesInit PROVE PagesInv
  OBVIOUS
<1>1. /\ workload \in Workloads /\ algorithm \in Algorithms
      /\ place = [p \in Procs |-> "incoming"] /\ uses = [p \in Procs |-> workload[p].pages]
      /\ done = [p \in Procs |-> 0] /\ frames = <<>> /\ disk = <<>> /\ hand = 0
      /\ elapsed = 0 /\ exited = FALSE /\ since = [i \in PageIds |-> 0]
  BY DEF PagesInit
<1>2. workload \in Seq([exec : Nat \ {0}, pages : Seq(Use) \ {<<>>}])
  BY <1>1, BoundsAssumption
<1>3. ASSUME NEW p \in Procs
      PROVE  workload[p].exec \in Nat \ {0} /\ workload[p].pages \in Seq(Use)
  <2>1. p \in 1 .. Len(workload)
    BY <1>2, LenProperties DEF Procs
  <2>2. workload[p] \in [exec : Nat \ {0}, pages : Seq(Use) \ {<<>>}]
    BY <1>2, <2>1, ElementOfSeq
  <2> QED
    BY <2>2
<1>4. PagesTypes
  <2>1. uses \in [Procs -> Seq(Use)] /\ place \in [Procs -> Places] /\ done \in [Procs -> Nat]
    BY <1>1, <1>3 DEF Places
  <2> QED
    BY <1>1, <2>1 DEF PagesTypes
<1>5. <<>> \in Seq(Page) /\ Len(<<>>) = 0 /\ 1 .. 0 = {}
  OBVIOUS
<1>6. MemoryInv
  <2>1. MemoryTypes
    BY <1>1, <1>5, BoundsAssumption DEF MemoryTypes
  <2>2. Fit
    BY <1>1, <1>5, BoundsAssumption DEF Fit
  <2>3. Single(frames)
    BY <1>1, <1>5 DEF Single
  <2>4. Stamped
    BY <1>1, <1>5 DEF Stamped
  <2> QED
    BY <2>1, <2>2, <2>3, <2>4 DEF MemoryInv
<1>7. Using
  <2> SUFFICES ASSUME NEW p \in Procs
               PROVE  Lists(p, uses[p]) /\ uses[p] = workload[p].pages /\ done[p] < workload[p].exec
    BY DEF Using
  <2>1. uses[p] = workload[p].pages /\ done[p] = 0
    BY <1>1
  <2>2. 0 < workload[p].exec
    BY <1>3
  <2> QED
    BY <2>1, <2>2 DEF Lists
<1>8. InMemory /\ Unsubmitted
  BY <1>1, <1>5 DEF InMemory, Unsubmitted, Ids
<1>9. Conserved
  <2> SUFFICES ASSUME NEW i \in PageIds PROVE place[i[1]] \notin Submitted
    BY DEF Conserved
  <2>1. i[1] \in Procs
    BY PageIdIs
  <2> QED
    BY <1>1, <2>1 DEF Submitted
<1>10. GaveUp
  BY <1>1 DEF GaveUp
<1> QED
  BY <1>4, <1>6, <1>7, <1>8, <1>9, <1>10 DEF PagesInv, Settled

LEMMA AdmitKeeps ==
  ASSUME PagesInv, NEW p \in Procs, Admit(p)
  PROVE  PagesInv'
<1>1. /\ PagesTypes /\ MemoryInv /\ Using /\ Settled /\ ~exited /\ place[p] = "waiting"
      /\ place' = [place EXCEPT ![p] = "ready"] /\ elapsed' = elapsed
      /\ workload' = workload /\ algorithm' = algorithm /\ done' = done /\ Procs' = Procs
  BY DEF PagesInv, Admit, scenario, Procs
<1>2. /\ place'[p] = "ready" /\ place' \in [Procs -> Places]
      /\ \A r \in Procs : r # p => place'[r] = place[r]
  BY <1>1 DEF PagesTypes, Places
<1>3. PICK q \in Procs : place'[q] \in Admitted /\ Paged(q)
  BY AdmitPages
<1>4. GaveUp'
  BY AdmitPages
<1>5. \A r \in Procs : /\ place[r] \in Admitted => place'[r] \in Admitted
                       /\ place[r] # "incoming" => place'[r] # "incoming"
                       /\ place'[r] \in Submitted => place[r] \in Submitted
                       /\ place'[r] \in {"incoming", "waiting"} => place[r] \in {"incoming", "waiting"}
                       /\ place'[r] # "left" => place[r] # "left"
  BY <1>1, <1>2 DEF Admitted, Submitted
<1>6. Settled'
  <2>1. Later
    BY <1>1 DEF Later
  <2> QED
    BY <1>1, <1>3, <1>5, <2>1, PagedSettles
<1>7. uses' \in [Procs -> Seq(Use)] /\ Using'
  <2>1. CASE uses' = uses
    <3>1. uses \in [Procs -> Seq(Use)]
      BY <1>1 DEF PagesTypes
    <3>2. \A r \in Procs : Lists(r, uses[r])' = Lists(r, uses[r])
      BY <1>1, <2>1 DEF Lists
    <3>3. Using'
      BY <1>1, <1>5, <2>1, <3>2 DEF Using
    <3> QED
      BY <2>1, <3>1, <3>3
  <2>2. CASE \E r \in Running : uses' = [uses EXCEPT ![r] = Remaining(@, done[r])]
    <3>1. PICK r \in Running : uses' = [uses EXCEPT ![r] = Remaining(@, done[r])]
      BY <2>2
    <3>2. r \in Procs /\ place[r] \in Admitted
      BY DEF Running, Admitted
    <3> QED
      BY <1>1, <1>5, <3>1, <3>2, UsesRemain
  <2>3. uses' = uses \/ \E r \in Running : uses' = [uses EXCEPT ![r] = Remaining(@, done[r])]
    BY DEF Admit
  <2> QED
    BY <2>1, <2>2, <2>3
<1>8. exited' \in BOOLEAN
  <2>1. exited' = exited \/ exited' = TRUE
    BY DEF Admit, Replace, memory
  <2> QED
    BY <1>1, <2>1 DEF PagesTypes
<1>9. PagesTypes'
  BY <1>1, <1>2, <1>7, <1>8 DEF PagesTypes
<1> QED
  BY <1>3, <1>4, <1>6, <1>7, <1>9 DEF PagesInv, Paged

LEMMA TickKeeps ==
  ASSUME PagesInv, NEW p \in Procs, Tick(p)
  PROVE  PagesInv' /\ Paged(p)
<1>1. /\ PagesTypes /\ MemoryInv /\ Using /\ Settled /\ ~exited /\ place[p] \in Admitted
      /\ place' = [place EXCEPT ![p] = "running"] /\ elapsed' = elapsed + 1
      /\ workload' = workload /\ algorithm' = algorithm /\ done' = done /\ Procs' = Procs
      /\ uses' = [uses EXCEPT ![p] = Remaining(@, done[p])] /\ Touch(p)
  BY DEF PagesInv, Tick, Ready, Running, Admitted, scenario, Procs
<1>2. /\ place'[p] = "running" /\ place' \in [Procs -> Places]
      /\ \A r \in Procs : r # p => place'[r] = place[r]
  BY <1>1 DEF PagesTypes, Places
<1>3. Later
  BY <1>1 DEF Later
<1>4. Paged(p) /\ exited' = exited
  BY <1>1, <1>3, TouchPages
<1>5. \A r \in Procs : /\ place[r] \in Admitted => place'[r] \in Admitted
                       /\ place[r] # "incoming" => place'[r] # "incoming"
                       /\ place'[r] \in Submitted => place[r] \in Submitted
                       /\ place'[r] \in {"incoming", "waiting"} => place[r] \in {"incoming", "waiting"}
                       /\ place'[r] # "left" => place[r] # "left"
  BY <1>1, <1>2 DEF Admitted, Submitted
<1>6. Settled'
  BY <1>1, <1>2, <1>3, <1>4, <1>5, PagedSettles DEF Admitted
<1>7. uses' \in [Procs -> Seq(Use)] /\ Using'
  BY <1>1, <1>5, UsesRemain
<1>8. PagesTypes'
  BY <1>1, <1>2, <1>4, <1>7 DEF PagesTypes
<1>9. GaveUp'
  BY <1>1, <1>4 DEF GaveUp
<1> QED
  BY <1>4, <1>6, <1>7, <1>8, <1>9 DEF PagesInv, Paged

LEMMA WorkKeeps ==
  ASSUME PagesInv, NEW p \in Procs, Work(p)
  PROVE  PagesInv'
<1>1. /\ PagesTypes /\ MemoryInv /\ Using /\ Settled /\ ~exited /\ place[p] = "running"
      /\ elapsed' = elapsed /\ workload' = workload /\ algorithm' = algorithm
      /\ Procs' = Procs /\ PageIds' = PageIds
      /\ done' = [done EXCEPT ![p] = @ + 1] /\ uses' = [uses EXCEPT ![p] = Aged(@)]
      /\ disk' = disk /\ hand' = hand /\ exited' = exited /\ since' = since
      /\ frames' = IF done'[p] < workload[p].exec THEN frames ELSE RemovePages(p)
  BY DEF PagesInv, Work, Running, KeepsPages, scenario, Procs, PageIds
<1>2. PICK to \in {"left", "running", "ready"} :
        /\ place' = [place EXCEPT ![p] = to]
        /\ to = "left" <=> done'[p] = workload[p].exec
  BY DEF Work
<1>3. /\ place'[p] = to /\ place' \in [Procs -> Places]
      /\ \A r \in Procs : r # p => place'[r] = place[r]
  BY <1>1, <1>2 DEF PagesTypes, Places
<1>4. /\ done' \in [Procs -> Nat] /\ done'[p] <= workload[p].exec
      /\ \A r \in Procs : r # p => done'[r] = done[r]
  <2>1. done[p] \in Nat /\ workload[p].exec \in Nat /\ done[p] < workload[p].exec
    BY <1>1, ProcessIs DEF Using
  <2>2. done[p] + 1 \in Nat /\ done[p] + 1 <= workload[p].exec
    BY <2>1
  <2> QED
    BY <1>1, <2>2 DEF PagesTypes
<1>5. to = "left" <=> ~(done'[p] < workload[p].exec)
  <2>1. done'[p] \in Nat /\ workload[p].exec \in Nat
    BY <1>1, <1>4, ProcessIs
  <2> QED
    BY <1>2, <1>4, <2>1
<1>6. /\ \A r \in Procs : uses'[r] = IF r = p THEN Aged(uses[r]) ELSE uses[r]
      /\ uses' = [r \in Procs |-> uses'[r]]
  BY <1>1 DEF PagesTypes
<1>7. ASSUME NEW r \in Procs
      PROVE  uses'[r] \in Seq(Use) /\ Lists(r, uses'[r])
  <2>1. uses[r] \in Seq(Use) /\ Lists(r, uses[r])
    BY <1>1, ProcessIs DEF Using
  <2>2. Aged(uses[r]) \in Seq(Use) /\ Lists(r, Aged(uses[r]))
    BY <2>1, AgedIs
  <2> QED
    BY <1>6, <2>1, <2>2
<1>8. PagesTypes'
  <2>1. uses' \in [Procs -> Seq(Use)]
    BY <1>6, <1>7
  <2> QED
    BY <1>1, <1>3, <1>4, <2>1 DEF PagesTypes
<1>9. Using'
  <2>1. \A r \in Procs : Lists(r, uses[r])'
    BY <1>1, <1>7 DEF Lists
  <2>2. ASSUME NEW r \in Procs
        PROVE  /\ place'[r] \in {"incoming", "waiting"} => uses'[r] = workload[r].pages
               /\ place'[r] # "left" => done'[r] < workload[r].exec
    <3>1. CASE r = p
      BY <1>3, <1>5, <3>1
    <3>2. CASE r # p
      BY <1>1, <1>3, <1>4, <1>6, <3>2 DEF Using
    <3> QED
      BY <3>1, <3>2
  <2> QED
    BY <1>1, <2>1, <2>2 DEF Using
<1>10. /\ frames \in Seq(Page) /\ disk \in Seq(Page) /\ Page' = Page
       /\ \A i \in Ids(frames) \cup Ids(disk) : i \in PageIds /\ i[1] \in Procs
  <2>1. frames \in Seq(Page) /\ disk \in Seq(Page) /\ Page' = Page
    BY <1>1 DEF MemoryInv, MemoryTypes, Page
  <2> QED
    BY <2>1, PageAt, PageIdIs DEF Ids
<1>11. /\ frames' \in Seq(Page) /\ Fit' /\ Single(frames') /\ Stamped'
       /\ \A i \in Ids(frames') : i \in Ids(frames) /\ (to = "left" => i[1] # p)
       /\ \A i : i[1] # p \/ to # "left" => Copies(frames', i) = Copies(frames, i)
  <2>1. CASE to = "left"
    <3>1. frames' = RemovePages(p)
      BY <1>1, <1>5, <2>1
    <3>2. /\ frames' \in Seq(Page) /\ Fit' /\ Single(frames') /\ Stamped'
          /\ \A i : i \in Ids(frames') <=> i \in Ids(frames) /\ i[1] # p
          /\ \A i : i[1] # p => Copies(frames', i) = Copies(frames, i)
      BY <1>1, <3>1, RemovePagesMoves
    <3> QED
      BY <2>1, <3>2
  <2>2. CASE to # "left"
    <3>1. frames' = frames
      BY <1>1, <1>5, <2>2
    <3>2. Fit' /\ Single(frames') /\ Stamped'
      BY <1>1, <3>1 DEF MemoryInv, Fit, Single, Stamped
    <3> QED
      BY <1>10, <2>2, <3>1, <3>2
  <2> QED
    BY <2>1, <2>2
<1>12. MemoryInv'
  BY <1>1, <1>10, <1>11 DEF MemoryInv, MemoryTypes
<1>13. InMemory'
  <2> SUFFICES ASSUME NEW i \in Ids(frames')
               PROVE  place'[i[1]] \in Admitted
    BY DEF InMemory
  <2>1. i \in Ids(frames) /\ i[1] \in Procs /\ place[i[1]] \in Admitted /\ (to = "left" => i[1] # p)
    BY <1>1, <1>10, <1>11 DEF Settled, InMemory
  <2>2. CASE i[1] = p
    BY <1>2, <1>3, <2>1, <2>2 DEF Admitted
  <2>3. CASE i[1] # p
    BY <1>3, <2>1, <2>3
  <2> QED
    BY <2>2, <2>3
<1>14. Unsubmitted'
  <2> SUFFICES ASSUME NEW i \in Ids(disk)
               PROVE  place'[i[1]] # "incoming"
    BY <1>1 DEF Unsubmitted
  <2>1. i[1] \in Procs /\ place[i[1]] # "incoming"
    BY <1>1, <1>10 DEF Settled, Unsubmitted
  <2> QED
    BY <1>2, <1>3, <2>1
<1>15. Conserved'
  <2> SUFFICES ASSUME NEW i \in PageIds, place'[i[1]] \in Submitted
               PROVE  /\ Copies(frames', i) + Copies(disk, i) >= Listed(i[1], i[2])
                      /\ algorithm # "OPTIMAL" =>
                           Copies(frames', i) + Copies(disk, i) = Listed(i[1], i[2])
    <3>1. \A i \in PageIds : Listed(i[1], i[2])' = Listed(i[1], i[2])
      BY <1>1 DEF Listed
    <3> QED
      BY <1>1, <3>1 DEF Conserved
  <2>1. i[1] \in Procs
    BY PageIdIs
  <2>2. i[1] # p \/ to # "left"
    BY <1>3 DEF Submitted
  <2>3. place[i[1]] \in Submitted
    BY <1>1, <1>3, <2>1 DEF Submitted
  <2>4. Copies(frames', i) = Copies(frames, i)
    BY <1>11, <2>2
  <2> QED
    BY <1>1, <2>3, <2>4 DEF Settled, Conserved
<1>16. GaveUp'
  BY <1>1 DEF GaveUp
<1> QED
  BY <1>8, <1>9, <1>12, <1>13, <1>14, <1>15, <1>16 DEF PagesInv, Settled

\* NoWork, IdleTick and steps of nothing at all.
LEMMA RestKeeps ==
  ASSUME PagesInv, UNCHANGED <<scenario, place, uses, done, memory>>,
         elapsed' \in {elapsed, elapsed + 1}
  PROVE  PagesInv'
<1>1. /\ workload' = workload /\ algorithm' = algorithm /\ place' = place /\ uses' = uses
      /\ done' = done /\ frames' = frames /\ disk' = disk /\ hand' = hand /\ exited' = exited
      /\ since' = since /\ Procs' = Procs /\ PageIds' = PageIds
  BY DEF scenario, memory, Procs, PageIds
<1>2. MemoryInv'
  <2>1. elapsed \in Nat /\ elapsed' \in Nat /\ Page' = Page
    BY <1>1 DEF PagesInv, MemoryInv, MemoryTypes, Page
  <2>2. \A i \in PageIds : since[i] \in Nat /\ since[i] <= elapsed
    BY DEF PagesInv, MemoryInv, MemoryTypes, Stamped
  <2>3. \A i \in PageIds : since'[i] <= elapsed'
    BY <1>1, <2>1, <2>2
  <2> QED
    BY <1>1, <2>1, <2>3 DEF PagesInv, MemoryInv, MemoryTypes, Fit, Single, Stamped
<1>3. PagesTypes'
  BY <1>1 DEF PagesInv, PagesTypes
<1>4. Using'
  BY <1>1 DEF PagesInv, Using, Lists
<1>5. Settled'
  <2>1. \A p, v : Listed(p, v)' = Listed(p, v)
    BY <1>1 DEF Listed
  <2>2. InMemory' /\ Unsubmitted'
    BY <1>1 DEF PagesInv, Settled, InMemory, Unsubmitted
  <2>3. Conserved'
    BY <1>1, <2>1 DEF PagesInv, Settled, Conserved
  <2> QED
    BY <2>2, <2>3 DEF Settled
<1>6. GaveUp'
  BY <1>1 DEF PagesInv, GaveUp, Running
<1> QED
  BY <1>2, <1>3, <1>4, <1>5, <1>6 DEF PagesInv

THEOREM PagesInvariant == PagesSpec => []PagesInv
<1>1. PagesInv /\ [PagesNext]_pagesVars => PagesInv'
  <2> SUFFICES ASSUME PagesInv, [PagesNext]_pagesVars
               PROVE  PagesInv'
    OBVIOUS
  <2>1. ASSUME NEW p \in Procs, Submit(p) PROVE PagesInv'
    BY <2>1, SubmitKeeps
  <2>2. ASSUME NEW p \in Procs, Admit(p) PROVE PagesInv'
    BY <2>2, AdmitKeeps
  <2>3. ASSUME NEW p \in Procs, Work(p) PROVE PagesInv'
    BY <2>3, WorkKeeps
  <2>4. ASSUME NEW p \in Procs, Tick(p) PROVE PagesInv'
    BY <2>4, TickKeeps
  <2>5. CASE NoWork
    BY <2>5, RestKeeps DEF NoWork
  <2>6. CASE IdleTick
    BY <2>6, RestKeeps DEF IdleTick
  <2>7. CASE UNCHANGED pagesVars
    BY <2>7, RestKeeps DEF pagesVars
  <2> QED
    BY <2>1, <2>2, <2>3, <2>4, <2>5, <2>6, <2>7 DEF PagesNext
<1> QED
  BY <1>1, PagesInitially, PTL DEF PagesSpec

-----------------------------------------------------------------------------
(* Page replacement: the properties *)

\* A page of a process that was submitted and has not left is in memory or on disk
\* as often as it was listed, under OPTIMAL at least as often; what left has none
\* in memory, memory is not overfilled, and only OPTIMAL gives up.
THEOREM PagesAreConserved == PagesSpec => []PagesConserved
<1>1. PagesInv => PagesConserved
  <2> SUFFICES ASSUME PagesInv
               PROVE  PagesConserved
    OBVIOUS
  <2>1. /\ PagesTypes /\ MemoryInv /\ Settled /\ GaveUp /\ Fit /\ Single(frames)
        /\ frames \in Seq(Page) /\ disk \in Seq(Page)
    BY DEF PagesInv, MemoryInv, MemoryTypes
  <2>2. Len(frames) <= MemoryFrames /\ (algorithm = "OPTIMAL" => Len(frames) <= 1)
    BY <2>1 DEF Fit
  <2>3. ASSUME exited
        PROVE  /\ algorithm = "OPTIMAL"
               /\ \E p \in Running : Copies(frames, <<p, uses[p][1].value>>) = 1
    <3>1. algorithm = "OPTIMAL"
      BY <2>1, <2>3 DEF GaveUp
    <3>2. PICK p \in Running : <<p, uses[p][1].value>> \in Ids(frames)
      BY <2>1, <2>3 DEF GaveUp
    <3>3. Copies(frames, <<p, uses[p][1].value>>) = 1
      BY <2>1, <3>2, SingleCopies DEF One
    <3> QED
      BY <3>1, <3>3
  <2>4. ASSUME NEW p \in Procs, NEW i \in PageIds, i[1] = p, place[p] \in Submitted
        PROVE  /\ Copies(frames \o disk, i) >= Listed(p, i[2])
               /\ algorithm # "OPTIMAL" => Copies(frames \o disk, i) = Listed(p, i[2])
    <3>1. Copies(frames \o disk, i) = Copies(frames, i) + Copies(disk, i)
      BY <2>1, CopiesConcat
    <3> QED
      BY <2>1, <2>4, <3>1 DEF Settled, Conserved
  <2>5. ASSUME NEW p \in Procs, NEW i \in PageIds, i[1] = p, place[p] = "left"
        PROVE  Copies(frames, i) = 0
    <3>1. i \notin Ids(frames)
      BY <2>1, <2>5 DEF Settled, InMemory, Admitted
    <3> QED
      BY <2>1, <3>1, SingleCopies DEF One
  <2> QED
    BY <2>2, <2>3, <2>4, <2>5 DEF PagesConserved, Submitted
<1> QED
  BY <1>1, PagesInvariant, PTL

\* The page getPage answers is in memory once, at the end of the tick.
THEOREM PagesPresent == PagesSpec => PagePresent
<1> DEFINE Step == \A p \in Procs :
                     Tick(p) /\ Answer(uses[p], done[p]) # NoUse /\ Answer(uses'[p], done[p]) # NoUse
                     => Copies(frames', <<p, Answer(uses'[p], done[p]).value>>) = 1
<1>1. PagesInv /\ [PagesNext]_pagesVars => [Step]_pagesVars
  <2> SUFFICES ASSUME PagesInv, NEW p \in Procs, Tick(p),
                      Answer(uses[p], done[p]) # NoUse, Answer(uses'[p], done[p]) # NoUse
               PROVE  Copies(frames', <<p, Answer(uses'[p], done[p]).value>>) = 1
    BY DEF Step
  <2>1. /\ PagesTypes /\ MemoryInv /\ Using /\ Settled /\ place[p] \in Admitted
        /\ elapsed' = elapsed + 1 /\ Later /\ Touch(p)
        /\ uses' = [uses EXCEPT ![p] = Remaining(@, done[p])]
    BY DEF PagesInv, Tick, Ready, Running, Admitted, scenario, Later
  <2>2. uses'[p] = Remaining(uses[p], done[p])
    BY <2>1 DEF PagesTypes
  <2>3. <<p, Answer(uses'[p], done[p]).value>> \in Ids(frames')
    BY <2>1, <2>2, TouchPages
  <2>4. frames' \in Seq(Page) /\ Single(frames')
    <3>1. Page' = Page
      BY <2>1 DEF Later, Page, PageIds, Procs
    <3>2. MemoryInv'
      BY TickKeeps DEF Paged
    <3> QED
      BY <3>1, <3>2 DEF MemoryInv, MemoryTypes
  <2> HIDE DEF Step
  <2> QED
    BY <2>3, <2>4, SingleCopies DEF One
<1>2. PagesSpec => [][Step]_pagesVars
  BY <1>1, PagesInvariant, PTL DEF PagesSpec
<1> QED
  BY <1>2 DEF PagePresent, Step

\* FIFO puts out the page loaded first, LRU the one used first but for a tick.
THEOREM VictimsInOrder == PagesSpec => VictimOrder
<1> DEFINE Step == \A k \in DOMAIN frames :
                     Full /\ phase' # "paging" /\ Copies(frames', frames[k].id) = 0 =>
                       \A j \in DOMAIN frames :
                         /\ algorithm = "FIFO" => since[frames[k].id] <= since[frames[j].id]
                         /\ algorithm = "LRU"  => since[frames[k].id] <= since[frames[j].id] + 1
<1>1. PagesInv /\ [PagesNext]_pagesVars => [Step]_pagesVars
  <2> SUFFICES ASSUME PagesInv, PagesNext, NEW k \in DOMAIN frames,
                      Full, phase' # "paging", Copies(frames', frames[k].id) = 0
               PROVE  \A j \in DOMAIN frames :
                        /\ algorithm = "FIFO" => since[frames[k].id] <= since[frames[j].id]
                        /\ algorithm = "LRU"  => since[frames[k].id] <= since[frames[j].id] + 1
    BY DEF Step
  <2> HIDE DEF Step
  <2>1. /\ MemoryInv /\ frames \in Seq(Page) /\ Single(frames)
        /\ DOMAIN frames = 1 .. Len(frames) /\ k \in 1 .. Len(frames)
    BY LenProperties DEF PagesInv, MemoryInv, MemoryTypes
  <2>2. frames' # frames
    <3>1. Copies(frames, frames[k].id) = 1
      BY <2>1, CopiesOne DEF Single
    <3> QED
      BY <3>1
  <2>3. \E p \in Procs : Admit(p) \/ Tick(p)
    BY <2>2 DEF PagesNext, Submit, Work, NoWork, IdleTick, memory
  <2>4. \E q : Paged(q)
    BY <2>3, AdmitPages, TickKeeps
  <2>5. FirstOut /\ frames' \in Seq(Page)
    <3>1. MemoryInv'
      BY <2>4 DEF Paged
    <3>2. Page' = Page
      <4>1. workload' = workload
        BY <2>3 DEF Admit, Tick, scenario
      <4> QED
        BY <4>1 DEF Page, PageIds, Procs
    <3> QED
      BY <2>4, <3>1, <3>2 DEF Paged, MemoryInv, MemoryTypes
  <2>6. frames[k].id \notin Ids(frames')
    BY <2>5, CopiesIs DEF Ids
  <2> QED
    BY <2>1, <2>5, <2>6 DEF FirstOut
<1>2. PagesSpec => [][Step]_pagesVars
  BY <1>1, PagesInvariant, PTL DEF PagesSpec
<1> QED
  BY <1>2 DEF VictimOrder, Step
===============================================================================
