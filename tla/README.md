# SHE_X Mini Operating System: a TLA+ model

This directory models and checks the logic of the SHE_X mini operating system
and of the programs beside it in `kernal/`. Paths such as `mem/phymem.c` are
relative to `src/kernal/` and `boot/...` to `src/`. `PROJECT.json` lists the
components, the runs, the lines each definition stands for, the hazards and the
theorems.

The repository does not build as a whole (`include/pro_con.h` is empty, some
headers live under other names), so the reference is always the text of the
source. Four things it uses are not in it and are modelled from their use: the
keyboard and its controller, the two interrupt controllers with the processor's
MMU, TLB and interrupts, the BIOS with its disk, and the operating system's
threads and mutexes.

## 1. Inventory

### The kernel

| component | source | state | operations |
|---|---|---|---|
| Physical memory manager | `mem/phymem.c` | a bitmap of 4 KiB blocks, 1 = in use | `pmmngr_init` (from the E820 map), `pmmngr_allocate_block`, `pmmngr_free_block`, `pmmngr_toggle_range` |
| Paging | `mem/virtmem.c`, `boot/stage2/pagingsetup.asm`, `kernel/kernel.c`, `kernel/stack.asm`, `hal/x86.asm` | the page directory, reached through its own last entry; the tables; `_page_directory`; the TLB | `set_recursive_map`, `map_page`, `free_page`, `alloc_page`, `remove_identity_map`, and the order `kmain` calls them in |
| Keyboard and console input | `driver/keyboard.c`, `driver/dadio.c`, `hal/interruptstubs.asm`, `hal/x86.asm` | modifier toggles, last character, last scan code, the flag `_is_keyboard_interrupt` | `keyboard_handler` (interrupt), `wait_for_keyboard`, `get_monitor_char` |
| Shell | `kernel/kshell.c` | the command buffer, the loop's index, `_shell_name` | editing a line, splitting it into words, the commands |
| Ball game | `kernel/kshell.c` (`command_ball`) | two balls with directions, the display | a loop that halts and looks at the flags of two interrupt handlers |
| Text display | `driver/dadio.c`, `driver/cursor.asm` | the memory of the display and its cursor | `monitor_puts`, `putc`, `get_cursor`, `set_cursor`, `clear_screen` |
| Timer | `driver/timer.c` | a tick count, `_is_timer_interrupt`, the pole in the display's corner | the interrupt, `set_timer`, `wait_for_timer` |
| Interrupts and exceptions | `hal/inthandling.c`, `hal/interruptstubs.asm` | the gates; requested and serviced lines in the two controllers | `interrupt_init`, the stubs, the ends of interrupt, the exception handlers |
| Segment descriptors | `hal/gdt.c` | a table filled once | `gdt_init` |
| Boot, stage 1 | `boot/stage1` | cluster, place and count in registers; the FAT | find two files, follow their chains, read their sectors |
| Boot, stage 2 | `boot/stage2`, `kernel/entry.asm` | the E820 map and its length, the first page tables, the stack | read the map, protected mode, copy the kernel, paging, jump to `kmain` |
| ATA | `driver/ATA.c` | none | polled sector reads; nothing calls it |

### The programs beside it

| component | source | state | operations |
|---|---|---|---|
| Scheduling simulator | `Process_scheduling/Simulate.cpp`, `Process.cpp`, `include/ProcessSchedulingAlgorithms.h` | seven vectors of processes, a clock, a quantum, statistics | the tick loop; six short-term algorithms |
| Page replacement | `include/PageReplacementAlgorithms.h`, `include/Page.h` | pages in memory and on disk, the clock's hand | FIFO, LRU, CLOCK, OPTIMAL, called at each admission and each tick |
| Producers and consumers | `Thread/pro_con.c` | a ring buffer, a mutex, two condition variables | `producer`, `consumer` |
| Input files | `include/FileManager.h`, `Process_scheduling/main.cpp` | none | parsing |
| Exercises | `Thread/thread.c`, `memory_management/*.c` | local | a detached thread; worst-fit allocation; `malloc` |

### How they interact

* Stage 1 hands stage 2 the kernel's length in a register and the disk's layout
  on the stack; stage 2 hands `kmain` the map's length and the layout the same
  way, and jumps to it.
* Stage 2 leaves two things in low memory: the E820 map, which `pmmngr_init`
  turns into the bitmap, and page tables, which `kmain` replaces while it runs
  on them.
* `map_page` and `free_page` call the block manager for tables and for the
  pages' frames.
* The keyboard's interrupt writes three variables; `get_monitor_char` in the
  foreground reads them one at a time. A flag and `hlt` tie them together, and
  the timer's interrupt ends a `hlt` too. The ball game looks at the flags of
  both handlers itself, and the timer's handler draws on the same display.
* The shell calls `get_monitor_char` for each character and echoes it on the
  display. The buffer and the display are edited by separate code and are
  supposed to agree.
* In the simulator each tick calls the long-, medium- and short-term parts in
  turn; they hand processes from vector to vector by copying and erasing. Page
  replacement reads the queues and changes none of them.

### What is hard, and what makes each part correct

* **Blocks.** Bits are toggled and not set, so two ranges that overlap, a range
  that does not begin on a bitmap word, or an overflow at 4 GB silently turns
  free memory into used memory and the reverse. Correct: no block is lost or
  granted twice, and firmware's and the kernel's are never granted.
* **Paging.** The ground is exchanged under running code; a table is used
  without being cleared. Correct: every step finds the pages it touches; each
  page is where the last call put it; nothing in use can be allocated again.
* **Boot.** Two entries of the FAT share a byte, only one value ends a chain, no
  error is looked at, neither of the directory, of the FAT nor of the files, and
  a program that is jumped to finds its arguments elsewhere. Correct: the kernel
  is entered with the file's sectors in their order; the disk's layout passes two
  stacks and reaches a third in the order of `kmain`'s parameters; nothing but a
  user keeps the loader waiting. (That `kmain` takes the parameters it was
  handed, and that it is entered at all, is not so: section 4.)
* **Interrupts.** What a handler forgets to end at either controller is never
  served again. Correct: every service ends; an exception is reported as itself.
* **Ball game.** Two flags, one `hlt`, and an edge that is tested by equality.
  Correct: no tick is lost, and the display shows the balls and nothing else.
* **Keyboard.** Interrupts at every step; a value of 16 bits cut to a char; a
  second byte that is read before it has come. Correct: what is returned was
  typed during the wait, with the modifiers typed before it, a lone key gets its
  own answer, and no wakeup is lost for good. The code falls short of the first
  two in a few ways, which the properties name one by one.
* **Shell.** Two indices and three loops describe one line. Correct: it is a
  line editor, and what it shows is what it will run.
* **Simulator.** Statistics and termination depend on state copied from vector
  to vector. Correct: no process is lost, the limits hold, the clock adds up,
  the simulation ends.
* **Page replacement.** Pages move between two vectors by indices found
  earlier. Correct: nothing is lost, the page in use is present, the victim is
  the algorithm's.
* **Threads.** Correct: a bounded queue, no lost wakeup, no deadlock.

## 2. Modules

| module | is | composes |
|---|---|---|
| `BlockPool` | what a pool of blocks promises (abstract) | |
| `PhysMem`, `MCPhysMem` | the bitmap | implements `BlockPool` |
| `PhysMemProofs` | theorems about `PhysMem` | |
| `Boot`, `MCBoot` | both boot stages, to the first instruction of `kmain` | |
| `BootProofs` | theorems about `Boot` | |
| `Paging`, `MCPaging` | page tables, MMU, TLB, the steps of `kmain` | uses `BlockPool` for its blocks |
| `PagingProofs` | theorems about `Paging`, and about `PageReplacement` | |
| `Interrupts` | gates, controllers, stubs, exceptions | |
| `Ball` | the ball game | extends `Interrupts` |
| `BallProofs` | theorems about `Ball` and `Interrupts` | |
| `Keyboard` | keyboard, controller, interrupt, `get_monitor_char` | |
| `KeyboardProofs` | theorems about `Keyboard` | |
| `LineEditor` | a line editor (abstract) | |
| `Shell`, `MCShell` | the loop of `kshell`, the display's cursor | implements `LineEditor` |
| `ShellProofs` | theorems about `Shell` | |
| `SchedSim`, `MCSchedSim` | the simulator's loop and algorithms | |
| `SchedSimProofs` | theorems about `SchedSim` | |
| `PageReplacement`, `MCPageReplacement` | demand paging in the simulator | abstracts which process runs |
| `BoundedQueue` | a first-in first-out queue (abstract) | |
| `ProCon` | the producers and consumers | implements `BoundedQueue` |
| `ProConProofs` | theorems about `ProCon` | |

`PhysMem` and `Paging` meet at `BlockPool`: the first is shown to implement
it, and the second is written against it. `Ball` composes the foreground of the
kernel with `Interrupts`; what `keyboard_handler` does inside one of these
interrupts is `Keyboard`'s, and `Ball` lets it leave any character.

### `PhysMem`

The bitmap is the set `used` of blocks whose bit is 1, so that exclusive-or
with a mask is `SymDiff` with the blocks of the mask. `FlippedBy` is the closed
form of the loop of `pmmngr_toggle_range` (whole words from the word that holds
the first block, then single bits); `ToggleLoop` is the loop itself, turn by turn
(`LoopTurn`). TLC compares the two for every range of its bitmap, and
`FlippedByIsTheLoop` proves them equal for every size. Addresses wrap at the end
of the address space as `uint32_t` does. `ReadEntry` is one turn of the loop of `pmmngr_init`, `ReserveKernel` its
last call, `AllocateBlock`/`AllocateFails` and `FreeBlock`/`FreeRejected` the
outcomes of the other two functions. `held` is not in the code: it records who
was promised what. Callers return blocks they hold, blocks already free, and
addresses of no block; none returns a reserved block, which the code would
accept.

### `Paging`

`mem` holds the entries of the frames that are or may become tables. `Translate`
is the MMU; every load and store of the code goes through it, also those that
address a table through the recursive entry. `pc` is the next step of `kmain`.
Memory taken for a table keeps what it held (`Leftovers`). After boot, callers
take blocks, map them (or a device) and free them again. The pool is `BlockPool`
with the frames as blocks.

`tlb` holds the frame of every page the code has used, until `flush_tlb` or
`flush_tlb_entry`: an entry a processor drops earlier only makes it look the
page up again, so one that never forgets is the worst case. Pages that are
fetched without being used are left out (one such page, the display's, is
mapped again at boot while its old translation could have been fetched).
`flush_tlb_entry` has no caller in the repository; `CallerFlushes` is what a
caller of `map_page` or `free_page` has to do, and `owed` the pages for which
it has not yet. Left out: flags other than `PRESENT` and `WRITABLE`, the size
check of the kernel; the directory entries that stage 2 does not write are taken
to be clear.

### `Boot`

Registers keep their names (`cluster` is `dx`, `at` is `bx` in sectors, `count`
is `cx`). The FAT lies in memory four bits at a time (`Nibble`), and
`NextSector` is `GetNextSector` on that: a word at 3/2 of the cluster, its low
or high twelve bits. Behind the table lies anything (`Beyond`). `Place` is
`LBA_to_CHS`, whose cylinder has eight bits; `SectorAt` is what the BIOS makes of
it. Any read may fail, of the root directory (`LoadRoot`), of the table (`LoadFAT`)
or of a file's sector (`ReadSector`), which leaves memory as it was: `Findfile` and
`NextSector` then go by what an earlier program left there (`Leftovers`: nothing,
or another disk's directory and table). A failing read of several sectors is
taken to bring none of them. STAGE2.BIN is read upwards from 0x7e00, towards the
stack that grows down from 0x9000: its ninth sector overwrites the address
`Findfile` returns to (`StackSectors`, `pc = "lost"`).

The two `int 0x16` before stage 2 and before protected mode are `KeyPressed`, a step
of the user's. The firmware ends its map with ebx 0 or with the carry flag, which
the loop counts differently. `EnterStage2` pushes three words, `Start` pops them
into `layout`, and `EnterKernel` pushes them again with the count. Both stages
jump and do not call: stage 2 pops what it is given, but `kmain` is a C function,
takes the top of the stack for its return address and its parameters from the words
above.

The GDT of stage 2 (`boot/stage2/GDT.asm`) defines a code segment and no data
segment, so that loading 0x10 resets the machine (`pc = "reset"`). To say anything of what follows, `gdt` may also be a GDT
with a data segment, which is not the repository's: everything about
`KernelTransfer` and `kmain`, in this module and in `Paging`, is about stage 2
with that descriptor added. Several labels of stage 2 do not exist (`clrscr_32`);
they print, and are left out.

### `Interrupts` and `Ball`

`requested` and `inService` are the registers of the two 8259s, a line of the
second being level 2 of the first as well. A gate keeps further interrupts
out, so a stub is a step that begins with its line in service and ends with what
its ends of interrupt leave. Vectors without a stub of their own have
`default_handler`, which never returns. `Faults` are the handlers by vector as
they are installed, with the parameters they declare; `Frame` is what the
processor pushes, and `Parameter` what a C function reads of that.

`Ball` has one action for each test of the loop. A flag found set is cleared in
the same step, since an interrupt in between could only set it again. The
display is one character per place; the timer's pole has one look.

### `Keyboard`

An interrupt gate keeps other interrupts out, so `KeyboardInterrupt` is one
step; each read of the foreground is a step of its own, with `pc` saying which
is next. The keyboard sends bytes to the controller's queue. The second byte of
an extended key may not have arrived when the handler reads it, in which case
port 0x60 gives the byte before.

Characters are their codes and the tables are the code's: `KeyValue` is
`_scancode_std` with the values of the enum, `StdChar` its low byte, as the cast to
`char` leaves it, `Switched` and `Becomes` the cases of the switch. Keys are all
that have a make code up to 93, and the extended ones beside them
(`KeysAssumption`); an extended key whose second byte is that of a modifier, the
Shifts and the sequences of Pause and PrintScreen that a keyboard makes up, and
typematic repeats are left out. Letting one Shift go ends both, as in the code.

Beside the driver's state the module keeps the user's: `typed` are the modifiers
as they were typed, and each byte on the wire carries its key and the modifiers
typed before it, which the driver does not see. `Meaning` is the character of a
key with them. `TakenFor` is what the driver may take a press for by itself:
`Meaning`, save for the presses that `Repeats`, `Unanswered` and `IsCut` name. An
extended key whose second byte comes late, or is read twice, is taken for the
keypad's key. `heard`, `meant`, `slips`, `again`, `current` and `due` are history
for the properties.

### `Shell`

A step is what the loop does with one character, prompt included. `buf`, `i`
and `cursor` are the code's; `cells` is what the display shows from the end of
the prompt. A command is known by what it prints, a text being a sequence of
lengths and newlines. The words are found by `WordStart` and `TokenAt`, as
`extract_token` does. `Overrun` is what may be printed from behind a token
buffer that has no NUL. The ball game is in `Ball`. A name longer than
`_shell_name` is excluded (`NameFits`): what it overwrites is up to the linker.

### `SchedSim`

`pc` is the function that `StartSimulation` calls next; one action for each
function, or for each outcome of `CheckRunningProcess`. The vectors are
sequences of process numbers. `FromTheEnd` is the loop that walks a vector
backwards, copies and erases; `Admitted`/`Left` is `FCFS` called until the
system is full, with `isSysFull` testing an unsigned difference for 0.
`Choice` and `Quantum` are the six algorithms; what LOTTERY draws is left to
chance. Whole ticks only; pacing, logging and `Clear` are left out.

### `PageReplacement`

`frames` and `disk` are the two vectors; `FIFO`, `LRU` and `CLOCK` are
functions of the code, `Replace` what they share. `Remaining` and `Answer` are
`getPage`, which removes expired pages as it answers and is called twice per
tick by `PageInMemory`. Which process runs when is left open, so the results
hold for every scheduler. `OPTIMAL` is the simulator's own function: it has one
page in memory at most, since it adds to an empty memory only, and never takes
what it loads off the disk. At an admission it asks for a page of
`runningProcess[0]`, and calls `exit(1)` if that page is in memory; an admission
while nothing runs is undefined and is left out. (`main.cpp:83-85` announces FIFO
while LRU is the one passed; the model takes the algorithm as a parameter.)

### `ProCon`

`pc` follows both thread bodies from lock to unlock. `Wait` releases the mutex
and sleeps in one step, `WakeUnasked` is a spurious wakeup, `Relock` the end of
the wait. `sleep(1)` and the next turn of the loop are part of `Unlock`.

## 3. Runs

Each run takes less than three minutes with two workers.

| run | shows | bounds |
|---|---|---|
| `boot` | `KernelIsTheFile`, `ParametersHandedOn`, `BootEnds` | every FAT of three clusters with six values, two directories, two leftovers, two GDTs, segments of three sectors, the stack behind two, one failed read, four entries of the map |
| `physmem` | `PoolConserved`, `HeldIsMarked`, and that the bitmap implements `BlockPool` | four words of four bits, blocks of two bytes, the kernel one word; eight maps |
| `physmem_misaligned` | **violates** `PoolConserved4K` | two page-aligned maps that are not word-aligned |
| `paging` | `NeedsMapped`, `MappedAsAsked`, `NothingFreeInUse` | tables of six entries; no, one or three free blocks, clear or with leftovers; four pages |
| `exceptions` | **violates** `DiagnosisIsTrue` | two lines |
| `ball` | `ServiceEnds`, `ShowsTheBalls`, `TicksArePlayed` | a display of three by two, five lines, six characters, one request pending beside the timer's |
| `keyboard` | `AnswerIsAKey`, `SinglePressAnswered`, `KeyEndsWait` | thirteen keys, three presses and releases |
| `shell` | `EchoIsBuffer`, and that the shell implements `LineEditor` | lines of six, words of three, three rows of ten |
| `shell_cursor` | **violates** `CursorOnScreen` | the same |
| `scheduler` | `OnePlaceEach`, `MultiprogrammingBound`, `SliceBound`, `TimeAddsUp`, `EndsComplete`, `TurnaroundCoversWork`, `GridlockIsForever`, `EndsOrGridlocks` | three processes, one or two places, all six algorithms, 216 workloads |
| `page_replacement` | `PagesConserved`, `PagePresent`, `VictimOrder` | two frames, two or three processes, eight ticks |
| `procon` | `NobodyForgotten`, implements `BoundedQueue`, `KeepsMoving` | two producers, two consumers, buffer of two, two values |

The passing runs of `physmem`, `ball`, `keyboard`, `shell`, `scheduler` and
`procon` check their module's `TypeOK` as well; in `paging`, `page_replacement`
and `boot` the other properties say more than the types do.

### Why the bounds are enough

* **physmem.** The arithmetic distinguishes a range shorter than a word, whole
  words, and words with a remainder, beginning at a word or within one, ending
  before or at the end of the address space. The eight maps have each of them,
  and ranges below the kernel, above 4 GB, reserved, unaligned and overlapping.
  After initialisation the state space is closed: every order of calls is
  explored. The proofs (section 5) lift the results to every size.
* **boot.** Three clusters make chains of every length up to three, forwards and
  backwards, over an even and an odd entry and both kinds of neighbour, shared
  between the files, looping, leaving the table, and ending in 0xfff or in
  another of FAT12's end marks, which the code does not know. One failed read is
  the directory's, the table's or any sector's; what is in memory instead is
  nothing or a directory and a table that lead elsewhere. A loop goes round
  the segment of three sectors, and takes the count past `CountSize` 8. The arithmetic of cylinders has its carries at two sectors, two heads
  and two cylinders. Proved for every disk (section 5).
* **ball.** On three by two places the balls meet, pass, leave at each edge and
  stand in the pole's corner. The lines are one of each kind: the timer's, the
  keyboard's, one of the first controller with a stub, one of the second with
  and one without. Proved for every display and set of lines (section 5).
* **paging.** The stack's table takes one block; two more let a page and its
  table compete for the last block. With no block the boot fails, with one it
  just succeeds. Leftovers are clear, or look like a table full of pages. One
  page of the callers' lies in the identity map and has been used before it
  goes, so it is what a missing `flush_tlb` would leave behind.
  Proved for every size and every set of blocks and pages (section 5).
* **keyboard.** Three events are a key stroke within which or behind which another
  begins, or a modifier held around a key: enough to pair one key's character
  with another's scan code at any step of the foreground. The keys are one of
  each kind the handler or the properties tell apart: a letter, a digit, a key
  without a case in the switch (space), the keypad's minus, 4 and plus, a key
  that is cut to a character (Alt), the three modifiers, Left, Right and the
  keypad's Enter. Proved for all keys and any number of events (section 5).
* **shell.** Six characters are more than one word of maximal length and a
  second one; a full line, a line with the end cut off by a word and an empty
  line are reached. `CursorLimit` stops commands that would take the cursor
  past 50 cells on a display of 30; it is there because, without wrapping, the
  cursor grows for ever.
* **scheduler.** Three processes with one or two places are the least for which
  waiting, blocking and suspension meet. `LongQuantum` 12 exceeds any burst and
  `TimeLimit` 24 any simulation that ends: `EndsOrGridlocks` says that an end
  comes before the limit (`ClockRuns`). The counter stops there to merge the
  otherwise infinite tail of a gridlocked run, so what is said about the clock is
  said while it runs. The theorems hold for every `TimeLimit`, hence for
  every finite run of the simulator.
* **page_replacement.** Two frames and three processes keep memory full and
  every kind of victim appears; the workloads have pages used again, used late,
  listed twice for a tick and never reached. OPTIMAL runs on the same workloads.
  `TimeLimit` 8 is past the last listed use; the model simply stops there. Proved
  for any number of frames, processes and pages (section 5).
* **procon.** Two threads of each kind are the least for which a signal can go
  to the wrong one; the proofs cover any number.

### Deadlock

Checked in `physmem`, `keyboard`, `shell` and `procon`. Off where the system
really stops: the simulator ends (`scheduler`), the machine resets when the
stack could not be mapped (`paging`), the followed part of a simulation ends at
`TimeLimit` (`page_replacement`), the loader is done or a file is not there
(`boot`), and `default_handler` or an exception handler loops for ever with
interrupts off (`ball`, `exceptions`).

### Fairness

* `SchedSim`: weak fairness of `Next`. One thread runs the loop, and nothing in
  it waits for anything but the wall clock.
* `Keyboard`: weak fairness of the foreground, since the processor runs, and of
  `TimerInterrupt`, since `set_timer` programs a periodic mode. There is none
  of the user's, of the wire or of the keyboard's interrupt.
* `ProCon`: weak fairness of each thread's steps between lock and unlock;
  strong fairness of taking the mutex, which is free time and again because
  each thread sleeps for a second between two uses. None of spurious wakeups.
* `Ball`: weak fairness of the timer's request (a periodic mode), of the
  processor's answer to a request, and of the loop's steps outside interrupts.
  None of the keys or of the other lines.
* `Boot`: weak fairness of `Machine`, every step but the user's: the processor runs,
  and the BIOS answers (its answers are not fair: it may end the map at once or
  late, up to `MaxEntries`). Nobody need press a key, so `BootEnds` allows for
  waiting at either `int 0x16` for ever.
* `PhysMem`, `Paging`, `Shell` and `PageReplacement` state safety only: callers
  and users need not do anything.

### Properties that read oddly

* `VictimOrder` for LRU allows a difference of one tick. `PageInMemory` marks a
  hit with `_elapsedTime + 1` (`Simulate.cpp:75`) and LRU marks a load with
  `_elapsedTime`, so two uses a tick apart can look simultaneous. The exact
  order is violated; the one stated is what the code does guarantee.
* `BootEnds` begins where the directory and the table are in memory as they are on
  the disk, whether read or left there, and needs both files complete and
  STAGE2.BIN short of the stack. A chain that ends in 0xff8 to 0xffe, which FAT12
  allows, is followed for ever. With the code's GDT the end is the reset.
* `ParametersHandedOn` is about what lies on the stack at the jump to the kernel. It
  does not say that `kmain` takes it, which it does not (section 4), and allows for
  a count one too high, which the loop has when the carry flag ends the map.
* `ShowsTheBalls` leaves the corner to the pole until the next tick.
* `PagesConserved` lets OPTIMAL double pages and give up.
* `AnswerIsAKey` allows more than the character a press means, as the code gives
  more; `slips` and `again` say what, press by press:
  - the low byte of a key that is no character: a newline for F10, a backspace
    for Alt and F8, 18 (the arrow to the right) for the keypad's plus and others;
  - for an extended key whose second byte came late, what the keypad's key with
    that code gives: 4 for Left while NumLock is on;
  - for keypad 4 and 6 together with another press, the arrow while NumLock is on
    and the sign with Shift, as `get_monitor_char` puts one press's character to
    another's scan code;
  - after a modifier, or Shift with a key the switch has no case for, the
    character of the press before (`again`): `keyboard_handler` raises the flag
    and leaves `_latest_char` as it was.
* `SinglePressAnswered` has no answer due for the keypad's minus without NumLock, and
  for Enter and / beside the keypad, which the code does not answer.

## 4. Findings

Each of these is a run that ends in a violation of what the repository says.

1. **`physmem_misaligned`** (`mem/phymem.c:119`). A usable range of 32 blocks
   or more that begins on a page but not on a bitmap word has the whole first
   word flipped: blocks before it change state and its last ones do not. The
   README of the repository promises "4 KiB alignment, and bitmap range
   toggling".
2. **`exceptions`** (`hal/inthandling.c:135`). The handlers are installed
   without gaps from vector 8 on, `double_fault_abort` missing, so a page fault
   is reported as an alignment check; and their parameters are read one or two
   words off, as the processor does not push a return address.
3. **`shell_cursor`** (`driver/dadio.c:44`). `monitor_puts` wraps only when a
   newline reaches the end of the display exactly. A message that runs past it
   takes the cursor off the display until `fresh`.
Other disagreements the models show without a run of their own:

* `kmain` is jumped to and not called (`boot/stage2/stage2.asm:149`,
  `kernel/entry.asm:9`), so it takes the map's count, on the top, for its return
  address: `mmapsize` is the number of the first data sector, `data_sect` that of
  the root directory, `root_sect` that of the FAT, `fat_sect` whatever lies above.
  `docs/debugging.md:19` says "inspect the four parameters on the stack to confirm
  stage2 values preserved", and the list of changes in the README (line 37)
  "removed extra `esp` subtraction to preserve boot parameters for `kmain`". It is
  so for every disk and every map: `stack` at `pc = "kmain"` shows it.
* The segment registers are loaded with selector 0x10 (`boot/stage2/stage2.asm:82`),
  which is behind the end of the GDT (`boot/stage2/GDT.asm:16`): the machine resets,
  where the repository's README (line 4) has it jump to `0xC0000000`. `BootEnds`
  has the reset for that GDT.
* `CheckBlockedQueue` lets blocked processes return only while nobody waits for
  admission, and nobody is admitted while they fill the system
  (`Simulate.cpp:127`, `:169`). `GridlockIsForever` and `EndsOrGridlocks` say
  that this is stable and the only way not to end.
* Readmission from suspension overwrites the submission time
  (`ProcessSchedulingAlgorithms.h:22`), and the waiting time can come out
  negative; `TurnaroundCoversWork` is about the processes never suspended.
* `map_page` sets `PDE_WRITABLE` only if the entry is not present after
  `alloc_page` has set it (`mem/virtmem.c:105`). Harmless in ring 0 without
  `CR0.WP`, and not what `docs/debugging.md` expects.
* OPTIMAL ends the simulator with "page not found on disk" at an admission while
  the running process's page is in memory (`Simulate.cpp:270`).

## 5. Proofs

TLAPS checks these proof modules.

**`PhysMemProofs`**, from `SizesAssumption` (sizes are positive; the kernel
begins and ends on bitmap words, as `KERNEL_P` and `KERNEL_MAPPED_SIZE` do) and
`MapsAssumption` (maps are finite sequences of entries), for every bitmap, block
size and set of maps. The inductive invariant is

    Inv == TypeOK /\ HeldIsMarked /\ MapProgress /\ PoolConserved

`PoolConserved` alone is not inductive: it says nothing before initialisation
ends. `MapProgress` carries it through the map, where after each entry exactly
the usable entries so far are clear; with the kernel's range among them the last
toggle yields the pool. `HeldIsMarked` carries it through frees. The arithmetic
is in the lemmas: `FlippedExactly` says that the word-wise loop flips exactly
the range when it begins on a word or is shorter than one, `RangeExactly` that
rounding and the 32-bit subtraction lose nothing under `CleanMap`.
`FlippedByIsTheLoop` needs neither condition: the closed form the model uses is
what the loop flips, also when it starts within a word or goes round the end of
the bitmap (`LoopAt` says where the loop is after any turn; `WordTurn` and
`BitTurn` take it through the two kinds). Established:
`PhysMemTypeOK`, `PhysMemHeldIsMarked` (for any map), `PhysMemMapProgress`,
`PhysMemPoolConserved`, and `PhysMemImplementsPool` (initial states and steps
map to those of `BlockPool` when the map is clean and word-aligned).

**`ProConProofs`**, from `ThreadsAssumption` (two disjoint non-empty sets of
threads, a buffer of at least one slot), for any number of threads. The
invariant is

    Inv == TypeOK /\ Locking /\ NobodyForgotten

`Locking` ties the mutex to where a thread is, gives a thread about to act its
room or its item, and ties `in` to `out` and `count`; without it neither the
bounds of `count` nor the wakeups can be kept. Established: `ProConTypeOK`,
`ProConNobodyForgotten` and `ProConImplementsQueue` (the refinement mapping
reads the ring from `out` on).

**`ShellProofs`**, from `SizesAssumption` (sizes are positive, NUL is no
character, the two names given by the program fit) and `FirstPromptAssumption`
(the bound on the cursor lets the first prompt be printed), for every size of
buffer, word, name and display and whatever the commands print. The invariant is

    Inv == TypeOK /\ NoHoles /\ EchoIsBuffer

Its parts need each other: the arrow to the right is stopped by a NUL, so the
index stays in the buffer because the last place is always NUL (`NoHoles`),
which in turn holds because the index is. Backspace is the hard case: both loops
move the tail up to and with its NUL. The searches of the code are minima of
sets; `MinOfNats` proves by well-foundedness that these exist. A prompt's place
is typed by the bound `CursorLimit`, so nothing about `Puts` is needed.
Established: `ShellTypeOK`, `ShellNoHoles`, `ShellEchoIsBuffer`, and
`ShellImplementsEditor`: every step of the shell is one of `LineEditor` on the
text up to the first NUL. The editing actions follow from where that NUL moves
(`TextAfter`). For Enter, `StartsAre` shows that skipping words and spaces ends
where `LineEditor` counts the first and the second beginning of a word, and
`TokenIsWord` that what is copied from there, up to a space, the end or the size
of a token, is the word.

**`BallProofs`**, from `MachineAssumption` (the lines are lines, the display has
a place), for every display, every set of lines and of characters and any number
of pending requests. The invariant is

    Inv == TypeOK /\ ServiceEnds /\ ShowsTheBalls

and its parts need each other: outside handlers nothing is in service, so an
interrupt finds both controllers empty and the ends of interrupt take out
exactly its own levels (`EndOfMasters`, `EndOfSlaves`); the directions of
`TypeOK` and a ball inside the display give a ball at most one step outside it;
and the display is right after a tick because it was before, what a ball leaves
being wiped before the next is drawn and the corner the only place an interrupt
writes. Established: `BallTypeOK`, `BallServiceEnds`, `BallShowsTheBalls`.

**`KeyboardProofs`**, from `KeysAssumption` (keys have a make code up to 93, alone or
behind 0xe0), for any set of such keys and any number of presses. The invariant
is

    Inv == Types /\ Sent /\ ReadAgain /\ History

`Sent` says that the bytes on the wire lead, one behind the other, from the
driver's modifiers to those typed, so that a byte finds the driver with the
modifiers it was typed with; appending a key's bytes and taking the first one
away keep that (`LinkedAppend`, `LinkedTail`). `ReadAgain` says which bytes the
handler may find on the port a second time. `History` has `AnswerIsAKey` and three
parts: the character and the scan code the handler leaves are told of by the
presses remembered since the flag was cleared (`TellsCurrent`), the foreground
reads them only after an interrupt (`Waited`), and as long as one interrupt was
handled they make what is due for its press (`OnePress`). `PressAnswers` goes through
the keys and the tables: what the handler makes of a make code with the modifiers
it has is what `TakenFor` and `Mixed` say of the key. `HandleTells` and
`HandleExtendedTells` carry that to the handler's two ways, and `RecordTells` to the
history.
Established: `KeyboardTypeOK`, `KeyboardAnswerIsAKey`,
`KeyboardSinglePressAnswered`.

**`PagingProofs`**, from `LayoutAssumption` (stage 2's tables are three frames
below the pool's, the kernel's slot is neither the first nor one of the last two;
callers stay off the kernel's own pages, the stack's and the window's, and the
frames they map without allocating them, those of devices, are no blocks), for
tables of any size, any set of free blocks with anything in them, and any pages
and frames callers ask for. The invariant is

    IInv == managed \in Pools /\ TypeOK
            /\ TablesApart /\ DirectoryFound /\ Coherent /\ KernelThere /\ CallersServed

Its heart is `DirectoryFound`: the recursive entry stays the directory's own.
With it an access to the window of an entry reaches that entry's table
(`Window`); with `TablesApart`, that each table is a frame of its own, a store
there changes the entry of one page only (`PlacedLookups`); so every other page
stays where `KernelThere` and `CallersServed` say it is, and stays apart from
what can be allocated. `Coherent` says that the TLB differs from the tables
only where callers owe a flush: what makes it inductive is that an absent entry
is never remembered, so a new table is not reached through an old translation,
and that `remove_identity_map` forgets everything. Before the recursive entry is
there, the same accesses go through stage 2's identity map (`SetRecursiveMapStep`).
Established: `PagingTypeOK`, `PagingNothingFreeInUse`, `PagingMappedAsAsked`,
`PagingNeedsMapped`.

The second half is about `PageReplacement`, which shares no state with `Paging`;
it is in the same module only because both are about pages. From
`BoundsAssumption` (memory has a frame, the algorithms are the four, a process
listed a page), for any number of frames and processes, with

    PagesInv == PagesTypes /\ MemoryInv /\ Using /\ Settled /\ GaveUp

`Settled` says where pages can be: in memory those of admitted processes only
(`InMemory`), on disk those of submitted ones (`Unsubmitted`), and the two
together have each as often as it was listed (`Conserved`). `MemoryInv` says that
memory has no page twice, is not overfilled, and is in the order of loading under
FIFO or marked with the last uses under LRU (`Stamped`). They need each other: a
page is doubled only if it is loaded while in memory, and FCFS loads for a process
that was not admitted before, so `InMemory` excludes that; a page that is wanted is
on disk because it was listed, is not in memory and is not lost (`ListedFound`).
Underneath are lemmas on how often a page is in a sequence that was joined,
appended to, changed in a place or cut (`CopiesConcat` to `CopiesRemoveAt`), on
what each algorithm moves (`FIFOMoves` to `OPTIMALMoves`, `ReplaceMoves`), on the
victims (`LRUVictimIs`, and `TurnIs`: the clock's hand comes to every frame), and
on what `RemovePages` leaves, by induction over the frames. Established:
`PagesAreConserved`, and from the same invariant the action properties
`PagesPresent` and `VictimsInOrder`.

**`SchedSimProofs`**, from `BoundsAssumption` (the degrees of multiprogramming and
the two bounds are positive, a workload is a sequence of tasks, the algorithms are
the six), for any number of processes. The first invariant is

    IInv == Types /\ Clock /\ Placed /\ MultiprogrammingBound /\ Sliced

`Placed` says of `OnePlaceEach` what a step can be shown to keep: each vector
lists a set (every element once), and these sets and that of the finished
processes split the started ones. What concatenating, appending, reversing,
cutting and taking out of a sequence do to the set it lists are the `Lists...`
lemmas; `AmongLists` is the one about the loops that pick processes out of a
vector, an induction on the vector's length done by least counterexample.
`MultiprogrammingBound` needs `Placed`, for a process leaves one vector as it
enters another, and `Room`, what FCFS takes at most. `Sliced` adds to
`SliceBound` what the quantum may still grant, which is strictly below the quota
except between `CheckRunningProcess` and the clock's tick. `Clock` keeps the
clock at or above zero before the end, so that submission times stay natural.
Established: `SchedSimTypeOK`, `SchedSimOnePlaceEach`,
`SchedSimMultiprogrammingBound`, `SchedSimSliceBound`, and
`SchedSimGridlockIsForever`, an action property from the same invariant: in a
gridlock `Room` is 0, so `Admitted` is empty, and nobody returns while somebody
waits.

Three more invariants rest on `IInv` and on each other. `Progress` says what a
process has left to do by the vector it is in: fresh ones all of it, blocked ones
no work but their wait, finished ones nothing; it is what makes the tests of
`CheckRunningProcess` choose the right outcome. `Booked` keeps the account: the
clock less the idle time is the work done, plus the ticks of those that came back
with nothing left, plus the tick of the running process once the clock has given
it (`Due`). Work done is a sum over all processes (`Total`); `TotalChange`, again
an induction by least counterexample, says that a step which changes one process
changes the sum by as much. `Aged` bounds the time since submission from below by
what a process has worked and waited, with what it is still owed in this tick
(`Owed`). Established: `SchedSimTimeAddsUp`, `SchedSimEndsComplete`,
`SchedSimTurnaroundCoversWork`.

**`BootProofs`**, from `DiskAssumption`: the FAT is a table of at least two
clusters, with less than the end mark's number of them, the files begin in it, the
geometry is positive and reaches the FAT and the root directory, and a segment has
fewer sectors than the counter can count. `BootKernelIsTheFile` says that memory
holds the file, whatever lay there before, from

    KernelInv == ...
      /\ (failed = 0 => AsOnDisk /\ \A n \in Lengths : Readable(n) => Along(n))

where `AsOnDisk` says that the directory and the table in memory are the disk's, and
`Along` follows the loop: after k clusters `count` is k, `cluster` is the
k-th of the chain, and k sectors are in their places. It rests on two facts. A
chain of n clusters ends at the n-th and not before, so the loop stops where it
should (`Followed` is a recursive function, which `UpToExists` shows to exist and
which the proofs unfold one cluster at a time). And `GetNextSector`, with its word
at 3/2 of the cluster and its shift by four, reads exactly the entry, whichever
half of the middle byte it has (`NextSectorIs`).
That cylinder, head and sector name the sector meant is `SectorAtPlace`.
`BootParametersHandedOn` follows the three sectors and the count from where they
are made to the stack the kernel is entered with: `ParametersInv` says where they
are at each `pc` (`Carried`) and how far the count is from the entries written
(`Counted`).

Only model-checked: liveness (`KeyEndsWait`, `KeepsMoving`, `EndsOrGridlocks`,
`TicksArePlayed`, `BootEnds`). Fairness and `ENABLED` are out of the prover's reach.

Induction. The library's induction theorems take an operator as a parameter, which
no installed prover can instantiate. Where a proof goes through a recursive
function (`Followed`, `Total`, `ToggleLoop`, the loops over vectors), it takes the
set of the counterexamples, a subset of the naturals, and its least element, which exists by
well-foundedness of `<` (`LeastOfNats`, `NatsBySteps`).

## 6. Not modelled

* `gdt.c`: one table filled once. The order of initialisation calls in `kmain`
  that touch no shared state.
* The timer's tick count, which nothing acts on; `wait_for_timer` has no caller.
* Colours, number formatting, the welcome screen of stage 2, the A20 line.
* `ATA.c`: polled reads that nothing calls and that keep nothing.
* Input parsing; the two exercises on memory allocation and the thread
  demonstration, which run once from top to bottom.
* The hit statistics and `Simulator::Clear`; an admission under OPTIMAL while
  nothing runs.
* What undefined behaviour would do: a name or a word written past its array; what
  runs after STAGE2.BIN has overwritten stage 1's stack.

## 7. Plan

Done: the modules above, most important first (blocks, simulator, keyboard,
threads, shell, paging, page replacement; then interrupts, the ball game, boot,
the TLB and OPTIMAL).

Proved: every invariant the runs check, and every action property.

To model, if they get callers: `ATA` as a polled state machine, `wait_for_timer`.
