-------------------------------- MODULE Paging --------------------------------
(***************************************************************************)
(* Virtual memory, kernal/mem/virtmem.c, from the page tables stage 2      *)
(* leaves (boot/stage2/pagingsetup.asm) through the steps of kmain that    *)
(* replace them, to calls of map_page and free_page.                       *)
(*                                                                         *)
(* An address is the pair of its indices in the directory and in a table   *)
(* (map_page drops the rest of what it is given); a physical one is a      *)
(* frame.  Every access of the code to a table goes through the MMU, the   *)
(* directory serving as a table of its own through its last entry, so the  *)
(* model looks each page up too.  Blocks come from the abstract pool that  *)
(* PhysMem implements.  Of an entry's flags PRESENT and WRITABLE are kept. *)
(*                                                                         *)
(* The TLB remembers where each page was that the code used, and goes on   *)
(* answering so until it is told to forget: an entry may stay in it for    *)
(* ever, and one that does not is no worse than none.  What the processor  *)
(* might fetch without a use is left out.                                  *)
(***************************************************************************)
EXTENDS Naturals

CONSTANTS
  PerTable,     \* entries in a table: 1024
  NumFrames,
  MmapFrame, StackFrame, DirFrame, LowTable, KernelTable, VgaFrame,
                \* 0x1000, 0x8F000, 0x9C000, 0x9D000, 0x9E000, 0xB8000
  KernelFrame,  \* 0x100000
  KernelSlot,   \* 0x300
  KernelPages,  \* __end - __begin
  Pools,        \* the sets of blocks the pool may be given at boot
  Leftovers,    \* what a frame may hold, read as a table, before it is used
  CallerPages, CallerFrames  \* what callers of map_page ask for

Slots     == 0 .. PerTable - 1
Recursive == PerTable - 1   \* 1023
StackSlot == PerTable - 2
Pages     == Slots \X Slots
Frames    == 0 .. NumFrames - 1
NoFrame   == NumFrames
Never     == NumFrames + 1
Entry     == [frame : Frames, present : BOOLEAN, writable : BOOLEAN]
Table     == [Slots -> Entry]
BootTables == {DirFrame, LowTable, KernelTable}

ASSUME LayoutAssumption ==
  /\ PerTable \in Nat /\ NumFrames \in Nat /\ KernelFrame \in Nat
  /\ KernelFrame + PerTable <= NumFrames
  /\ {MmapFrame, StackFrame, VgaFrame} \cup BootTables \subseteq Slots
  /\ DirFrame # LowTable /\ DirFrame # KernelTable /\ LowTable # KernelTable
  /\ KernelSlot \in 1 .. PerTable - 3 /\ KernelPages \in 1 .. PerTable - 1
  /\ Pools \subseteq SUBSET (KernelFrame + PerTable .. NumFrames - 1)
  /\ Leftovers \subseteq Table
  /\ CallerPages \subseteq Pages
  /\ CallerFrames \subseteq Frames /\ \A s \in Pools : CallerFrames \cap s = {}
  /\ \A v \in CallerPages : /\ v[1] \notin {StackSlot, Recursive}
                            /\ v[1] = KernelSlot => v[2] > KernelPages

VARIABLES
  pc,       \* the step of kmain that comes next
  pagedir,  \* _page_directory: the page the code finds the directory at
  mem,      \* what the frames that are or may become tables hold
  managed, pool, held, reply,  \* of the pool of blocks
  tlb,      \* the frame of each page whose translation is remembered
  asked,    \* the frame callers gave each page last, or NoFrame (not in the code)
  owed      \* the pages for which callers owe a flush_tlb_entry (not in the code)

poolVars == <<managed, pool, held, reply>>
callers == <<asked, owed>>
vars == <<pc, pagedir, mem, poolVars, tlb, callers>>

Pool == INSTANCE BlockPool WITH Blocks <- Frames, BlockSize <- 1, Addrs <- {}

-----------------------------------------------------------------------------
(* The MMU *)

Present(m, v) ==
  /\ m[DirFrame][v[1]].present
  /\ m[DirFrame][v[1]].frame \in DOMAIN m
  /\ m[m[DirFrame][v[1]].frame][v[2]].present

\* The frame page v is in, with tables m.
Translate(m, v) ==
  IF Present(m, v) THEN m[m[DirFrame][v[1]].frame][v[2]].frame ELSE NoFrame

\* Where an access to page v goes.
Seen(m, v) == IF v \in DOMAIN tlb THEN tlb[v] ELSE Translate(m, v)

\* m with entry k of the table at page v set to e.
Store(m, v, k, e) == [m EXCEPT ![Seen(m, v)][k] = e]
Load(m, v, k) == m[Seen(m, v)][k]

\* The TLB after the pages us were used with tables m.
Remembering(m, us) ==
  [v \in DOMAIN tlb \cup {v \in us : Present(m, v)} |-> Seen(m, v)]
Forgetting(us) == [v \in DOMAIN tlb \ us |-> tlb[v]]

-----------------------------------------------------------------------------
(* Boot *)

\* MakeTable0h and MakeTable300h: consecutive frames.
Consecutive(f) == [k \in Slots |-> [frame |-> f + k, present |-> TRUE, writable |-> TRUE]]
Entered(f) == [frame |-> f, present |-> TRUE, writable |-> TRUE]

\* EnablePaging.  The directory's other entries are taken to be clear.
BootDirectory ==
  [k \in Slots |-> CASE k = 0          -> Entered(LowTable)
                     [] k = KernelSlot -> Entered(KernelTable)
                     [] OTHER          -> [frame |-> 0, present |-> FALSE, writable |-> FALSE]]

Init ==
  /\ pc = "pmmngr_init"
  /\ pagedir = <<0, DirFrame>>
  /\ managed \in Pools /\ pool = managed /\ held = {} /\ reply = Pool!Reply("boot", 0, 0)
  /\ \E rest \in [managed -> Leftovers] :
       mem = [f \in BootTables \cup managed |->
                CASE f = DirFrame    -> BootDirectory
                  [] f = LowTable    -> Consecutive(0)
                  [] f = KernelTable -> Consecutive(KernelFrame)
                  [] OTHER           -> rest[f]]
  /\ tlb = [v \in {} |-> NoFrame]
  /\ asked = [v \in CallerPages |-> Never] /\ owed = {}

\* pmmngr_init reads the firmware's map and fills the pool: see PhysMem.
PmmngrInit ==
  /\ pc = "pmmngr_init" /\ pc' = "set_recursive_map"
  /\ UNCHANGED <<pagedir, mem, poolVars>>

SetRecursiveMap_OldPointer ==  \* Mutant: _page_directory is not moved.
  /\ pc = "set_recursive_map" /\ pc' = "map_vga"
  /\ mem' = Store(mem, pagedir, Recursive, Entered(DirFrame))
  /\ UNCHANGED <<pagedir, poolVars>>

SetRecursiveMap ==
  /\ pc = "set_recursive_map" /\ pc' = "map_vga"
  /\ mem' = Store(mem, pagedir, Recursive, Entered(DirFrame))
  /\ pagedir' = <<Recursive, Recursive>>
  /\ UNCHANGED poolVars

-----------------------------------------------------------------------------
(* map_page and free_page *)

HasTable(v) == Load(mem, pagedir, v[1]).present

\* m with page v in frame p, its table being there.  The table is addressed
\* through the recursive entry.
Mapped(m, v, p) == Store(m, <<Recursive, v[1]>>, v[2], Entered(p))

\* m with the block b, as it is, as the table of v.  alloc_page sets PRESENT,
\* after which map_page does not set WRITABLE.
WithTable(m, v, b) ==
  Store(m, pagedir, v[1], [Load(m, pagedir, v[1]) EXCEPT !.frame = b, !.present = TRUE])

AllocPage_Unmarked ==  \* Mutant: the block stays in the pool.
  /\ \E b \in pool : held' = held \cup {b} /\ reply' = Pool!Reply("alloc", 0, b)
  /\ UNCHANGED <<managed, pool>>
AllocPage == Pool!Take

MapPage(v, p) ==
  IF HasTable(v)
  THEN /\ mem' = Mapped(mem, v, p)
       /\ UNCHANGED poolVars
  ELSE /\ AllocPage
       /\ mem' = Mapped(WithTable(mem, v, reply'.val), v, p)

\* The return of false.
MapPageFails(v) == ~HasTable(v) /\ Pool!TakeFails /\ UNCHANGED mem

Cleared(e) == [e EXCEPT !.present = FALSE]

\* free_page, given the address of v's entry.
FreePage(v) ==
  /\ Load(mem, <<Recursive, v[1]>>, v[2]).present
  /\ Pool!Give /\ reply'.arg = Load(mem, <<Recursive, v[1]>>, v[2]).frame
  /\ mem' = Store(mem, <<Recursive, v[1]>>, v[2], Cleared(Load(mem, <<Recursive, v[1]>>, v[2])))

-----------------------------------------------------------------------------
(* The rest of kmain *)

VgaPage   == <<KernelSlot, KernelPages>>     \* __VGA_text_memory
StackPage == <<StackSlot, Recursive>>        \* STACK - PAGE_SIZE

MapVga ==
  /\ pc = "map_vga" /\ pc' = "map_stack"
  /\ MapPage(VgaPage, VgaFrame)
  /\ UNCHANGED pagedir

\* If it fails there is only a message.
MapStack ==
  /\ pc = "map_stack" /\ pc' = "clear_screen"
  /\ MapPage(StackPage, StackFrame) \/ MapPageFails(StackPage)
  /\ UNCHANGED pagedir

\* Neither clear_screen nor refresh_stack changes a table.  With the new stack
\* unmapped the processor resets.
ClearScreen ==
  /\ pc = "clear_screen" /\ pc' = "refresh_stack"
  /\ UNCHANGED <<pagedir, mem, poolVars>>

RefreshStack ==
  /\ pc = "refresh_stack"
  /\ pc' = IF Seen(mem, StackPage) = NoFrame THEN "reset" ELSE "remove_identity_map"
  /\ UNCHANGED <<pagedir, mem, poolVars>>

Flushed_Not == tlb  \* Mutant: flush_tlb does not reload cr3.
Flushed == Forgetting(DOMAIN tlb)

RemoveIdentityMap ==
  /\ pc = "remove_identity_map" /\ pc' = "kshell"
  /\ mem' = IF Load(mem, pagedir, 0).present
            THEN Store(mem, pagedir, 0, BootDirectory[Recursive])
            ELSE mem
  /\ tlb' = Flushed
  /\ UNCHANGED <<pagedir, poolVars, callers>>

\* The pages the code uses in the next step and where they have to be: the
\* kernel's own, the stack's before and after refresh_stack, the directory's,
\* the firmware's map's and the display's.
Needs ==
  {<<<<KernelSlot, k>>, KernelFrame + k>> : k \in 0 .. KernelPages - 1}
  \cup {IF pc \in {"remove_identity_map", "kshell", "reset"} THEN <<StackPage, StackFrame>>
                                                   ELSE <<<<0, StackFrame>>, StackFrame>>}
  \cup {<<pagedir, DirFrame>>}
  \cup (IF pc = "pmmngr_init" THEN {<<<<0, MmapFrame>>, MmapFrame>>} ELSE {})
  \cup (IF pc \in {"clear_screen", "kshell"} THEN {<<VgaPage, VgaFrame>>} ELSE {})

\* A step of kmain uses these and, with map_page, pages of the window.
Windows == {<<Recursive, d>> : d \in Slots}
Kmain ==
  /\ PmmngrInit \/ SetRecursiveMap \/ MapVga \/ MapStack \/ ClearScreen \/ RefreshStack
  /\ tlb' = Remembering(mem', Windows \cup {n[1] : n \in Needs})
  /\ UNCHANGED callers

-----------------------------------------------------------------------------
(* Callers, which take blocks, map them or a device, and give pages back.  *)
(* They map a block in one page only, and free the page and not the block. *)

Tables == {mem[DirFrame][d].frame : d \in {d \in Slots : mem[DirFrame][d].present}}

CallerAllocates ==
  /\ pc = "kshell"
  /\ Pool!Take
  /\ UNCHANGED <<pc, pagedir, mem, tlb, callers>>

MayMap(p) == p \in CallerFrames \/ p \in held \ (Tables \cup {asked[v] : v \in CallerPages})

\* Callers use a page they have mapped.
CallerMaps(v) ==
  /\ pc = "kshell" /\ v \notin owed
  /\ \/ \E p \in Frames :
          /\ MayMap(p) /\ MapPage(v, p)
          /\ asked' = [asked EXCEPT ![v] = p]
          /\ owed' = owed \cup ({v} \cap DOMAIN tlb)
          /\ tlb' = Remembering(mem', {v, pagedir, <<Recursive, v[1]>>})
     \/ MapPageFails(v) /\ UNCHANGED <<tlb, callers>>
  /\ UNCHANGED <<pc, pagedir>>

CallerFrees(v) ==
  /\ pc = "kshell" /\ v \notin owed
  /\ asked[v] \in held
  /\ FreePage(v)
  /\ asked' = [asked EXCEPT ![v] = NoFrame]
  /\ owed' = owed \cup ({v} \cap DOMAIN tlb)
  /\ tlb' = Remembering(mem, {<<Recursive, v[1]>>})
  /\ UNCHANGED <<pc, pagedir>>

\* flush_tlb_entry, which neither map_page nor free_page calls.
CallerFlushes(v) ==
  /\ v \in owed
  /\ tlb' = Forgetting({v})
  /\ owed' = owed \ {v}
  /\ UNCHANGED <<pc, pagedir, mem, poolVars, asked>>

Next ==
  \/ Kmain \/ RemoveIdentityMap \/ CallerAllocates
  \/ \E v \in CallerPages : CallerMaps(v) \/ CallerFrees(v) \/ CallerFlushes(v)

Spec == Init /\ [][Next]_vars

-----------------------------------------------------------------------------
(* Properties *)

Steps == {"pmmngr_init", "set_recursive_map", "map_vga", "map_stack", "clear_screen",
          "refresh_stack", "remove_identity_map", "kshell", "reset"}

\* Every variable has its type; each block is in the pool or held.
TypeOK ==
  /\ pc \in Steps /\ pagedir \in Pages
  /\ mem \in [BootTables \cup managed -> Table]
  /\ DOMAIN tlb \subseteq Pages /\ \A v \in DOMAIN tlb : tlb[v] \in Frames
  /\ asked \in [CallerPages -> Frames \cup {NoFrame, Never}] /\ owed \subseteq CallerPages
  /\ pool \subseteq managed /\ held = managed \ pool

\* While the tables stage 2 left are replaced under the running kernel, and
\* whatever callers map later, each step finds the pages it uses.  Needs a
\* block for the table of the stack: without one the kernel goes on with its
\* stack unmapped.
NeedsMapped ==
  managed # {} => \A n \in Needs : Seen(mem, n[1]) = n[2]

\* An access to a page goes where the last call for it said, whatever was mapped
\* and freed since, however the table's frame was filled before and wherever the
\* page was at boot, once callers have flushed what neither map_page nor
\* free_page flushes.
MappedAsAsked ==
  \A v \in CallerPages \ owed :
    asked[v] # Never => Seen(mem, v) = asked[v]

\* A frame that is a table or that callers have mapped is not one that can be
\* allocated again, and no frame serves as two tables.
NothingFreeInUse ==
  /\ pool \cap (Tables \cup {asked[v] : v \in CallerPages}) = {}
  /\ \A d, e \in Slots :
       /\ mem[DirFrame][d].present /\ mem[DirFrame][e].present
       /\ mem[DirFrame][d].frame = mem[DirFrame][e].frame
       => d = e
=============================================================================
