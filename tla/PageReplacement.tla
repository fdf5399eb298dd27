---------------------------- MODULE PageReplacement ----------------------------
(***************************************************************************)
(* Demand paging in the simulator: the algorithms FIFO, LRU and CLOCK of   *)
(* kernal/include/PageReplacementAlgorithms.h and OPTIMAL of Simulate.cpp, *)
(* and what Simulate.cpp and Process.cpp do with pages around them.        *)
(*                                                                         *)
(* A process is submitted, perhaps admitted later, runs a tick at a time   *)
(* whenever the scheduler has it run, and leaves (blocked or terminated:   *)
(* it has then no work left and uses no more pages).  Which process runs   *)
(* when is left open; SchedSim models that.                                *)
(*                                                                         *)
(* OPTIMAL looks at runningProcess[0] whatever it is called for; what an   *)
(* admission does that comes while nothing runs is undefined and is left   *)
(* out.                                                                    *)
(***************************************************************************)
EXTENDS Integers, SequencesExt, FiniteSetsExt

CONSTANTS
  MemoryFrames,  \* numberOfMemoryFrames: 30
  Algorithms,    \* the algorithms considered
  Workloads,     \* what was read: sequences of [exec, pages], exec > 0, pages # <<>>
  TimeLimit      \* bound: the simulation is followed to this tick

Use    == [first : Nat, life : Nat, value : Nat]  \* of a page by a process
NoUse  == [first |-> 0, life |-> 0, value |-> 0]  \* Page(0,0,0,0)

ASSUME BoundsAssumption ==
  /\ MemoryFrames \in Nat \ {0} /\ TimeLimit \in Nat
  /\ Algorithms \subseteq {"FIFO", "LRU", "CLOCK", "OPTIMAL"}
  /\ \A w \in Workloads : w \in Seq([exec : Nat \ {0}, pages : Seq(Use) \ {<<>>}])

VARIABLES
  workload, algorithm,  \* the scenario; never change
  place,    \* of each process: "incoming", "waiting", "ready", "running", "left"
  uses,     \* `pages' of each process
  done,     \* totalExecutationTime - remainsExecutionTime
  frames,   \* memoryFrames
  disk,     \* Disk
  hand,     \* clock_p
  elapsed,  \* _elapsedTime
  phase,    \* the part of the tick: "arrivals" and work, then "paging"
  exited,   \* exit(1) was called
  since     \* when each page was last loaded, under LRU: or used (history)

scenario == <<workload, algorithm>>
memory   == <<frames, disk, hand, exited, since>>
pagesVars == <<scenario, place, uses, done, memory, elapsed, phase>>

Procs   == DOMAIN workload
PageIds == {<<p, u.value>> : p \in Procs, u \in UNION {ToSet(workload[q].pages) : q \in Procs}}

\* A page and the marks it carries between memory and disk.
PageOf(p, u) == [id |-> <<p, u.value>>, lastUsed |-> 0, referenced |-> FALSE]

PagesInit ==
  /\ workload \in Workloads /\ algorithm \in Algorithms
  /\ place = [p \in Procs |-> "incoming"]
  /\ uses = [p \in Procs |-> workload[p].pages]
  /\ done = [p \in Procs |-> 0]
  /\ frames = <<>> /\ disk = <<>> /\ hand = 0
  /\ elapsed = 0 /\ phase = "arrivals" /\ exited = FALSE
  /\ since = [id \in PageIds |-> 0]

-----------------------------------------------------------------------------
(* The algorithms, given the place k of the page on disk. *)

Full == Len(frames) >= MemoryFrames

RemovedFrom_Not(d, k) == d  \* Mutant: the page stays on disk.
RemovedFrom(d, k) == RemoveAt(d, k)

FIFO(k) ==
  /\ frames' = Append(IF Full THEN Tail(frames) ELSE frames, disk[k])
  /\ disk' = RemovedFrom(IF Full THEN Append(disk, frames[1]) ELSE disk, k)
  /\ UNCHANGED hand

\* LRU's loop begins with the first frame and then looks from the last one.
LRUVictim ==
  LET least == {j \in DOMAIN frames : \A n \in DOMAIN frames : frames[j].lastUsed <= frames[n].lastUsed}
  IN  IF 1 \in least THEN 1 ELSE Max(least)

LRU(k) ==
  LET new == [disk[k] EXCEPT !.lastUsed = elapsed]
  IN  /\ IF Full
         THEN /\ frames' = [frames EXCEPT ![LRUVictim] = new]
              /\ disk' = RemovedFrom(Append(disk, frames[LRUVictim]), k)
         ELSE /\ frames' = Append(frames, new)
              /\ disk' = RemovedFrom(disk, k)
      /\ UNCHANGED hand

\* The hand goes round, a referenced frame losing its mark, to the first frame
\* that has none: at the latest to the one it began with.
Turn(n) == (((hand % MemoryFrames) + n) % MemoryFrames) + 1
Passed ==
  IF \A j \in DOMAIN frames : frames[j].referenced THEN MemoryFrames
  ELSE CHOOSE n \in 0 .. MemoryFrames - 1 :
         /\ ~frames[Turn(n)].referenced
         /\ \A m \in 0 .. n - 1 : frames[Turn(m)].referenced
ClockVictim == Turn(Passed)

CLOCK(k) ==
  LET new == [disk[k] EXCEPT !.referenced = TRUE]
      unmarked == [j \in DOMAIN frames |->
                     IF j \in {Turn(m) : m \in 0 .. Passed - 1}
                     THEN [frames[j] EXCEPT !.referenced = FALSE] ELSE frames[j]]
  IN  IF Full
      THEN /\ frames' = [unmarked EXCEPT ![ClockVictim] = new]
           /\ disk' = RemovedFrom(Append(disk, unmarked[ClockVictim]), k)
           /\ hand' = ClockVictim
      ELSE /\ frames' = Append(frames, new)
           /\ disk' = RemovedFrom(disk, k)
           /\ UNCHANGED hand

\* Whatever its size, memory is filled only while it is empty, so the search for
\* the page used furthest in the future has one candidate.  The page loaded in
\* its place stays on disk too.
OPTIMAL(k) ==
  /\ IF frames = <<>>
     THEN frames' = <<disk[k]>> /\ disk' = RemoveAt(disk, k)
     ELSE frames' = <<disk[k]>> /\ disk' = Append(disk, frames[1])
  /\ UNCHANGED hand

Index(pages, id) == SelectInSeq(pages, LAMBDA page : page.id = id)

\* pageReplacementAlgorithm(&memoryFrames, &Disk, page), u being p's use of it.
Replace(p, u) ==
  LET id == <<p, u.value>>
      k  == Index(disk, id)
  IN  IF disk = <<>> \/ u.life = 0 THEN UNCHANGED memory
      ELSE IF k = 0 THEN exited' = TRUE /\ UNCHANGED <<frames, disk, hand, since>>
      ELSE /\ CASE algorithm = "FIFO"  -> FIFO(k)
                [] algorithm = "LRU"   -> LRU(k)
                [] algorithm = "CLOCK" -> CLOCK(k)
                [] algorithm = "OPTIMAL" -> OPTIMAL(k)
           /\ since' = IF algorithm \in {"CLOCK", "OPTIMAL"} THEN since ELSE [since EXCEPT ![id] = elapsed]
           /\ UNCHANGED exited

-----------------------------------------------------------------------------
(* Arrivals.  StartProcess submits before the first tick, to the ready     *)
(* queue while there is room, and CheckIncomingQueue later, to the waiting *)
(* queue.  The pages begin on disk.                                        *)

Submit(p) ==
  /\ ~exited /\ phase = "arrivals"
  /\ place[p] = "incoming"
  /\ \E to \in IF elapsed = 0 THEN {"waiting", "ready"} ELSE {"waiting"} :
       place' = [place EXCEPT ![p] = to]
  /\ disk' = disk \o [k \in DOMAIN uses[p] |-> PageOf(p, uses[p][k])]
  /\ UNCHANGED <<scenario, uses, done, frames, hand, exited, since, elapsed, phase>>

Running == {p \in Procs : place[p] = "running"}

\* What getPage leaves of the list and answers: the first page once its time
\* has come, or when it has expired the second whether or not its time has.
Remaining(us, n) ==
  IF us # <<>> /\ us[1].first <= n /\ us[1].life = 0 THEN Tail(us) ELSE us
Answer(us, n) ==
  LET left == Remaining(us, n)
  IN  IF us = <<>> \/ us[1].first > n \/ left = <<>> THEN NoUse
      ELSE IF left[1].life > 0 THEN left[1] ELSE NoUse

\* FCFS, with the first page of the process, or OPTIMAL, which asks the running
\* process for its page.
Admit(p) ==
  /\ ~exited /\ phase = "arrivals"
  /\ place[p] = "waiting"
  /\ place' = [place EXCEPT ![p] = "ready"]
  /\ IF algorithm # "OPTIMAL"
     THEN Replace(p, uses[p][1]) /\ UNCHANGED uses
     ELSE \E q \in Running :
            /\ Replace(q, Answer(uses[q], done[q]))
            /\ uses' = [uses EXCEPT ![q] = Remaining(@, done[q])]
  /\ UNCHANGED <<scenario, done, elapsed, phase>>

-----------------------------------------------------------------------------
(* CheckRunningProcess *)

\* What stays of memory, in its order.
RemovePages(p) ==
  LET upTo[n \in 0 .. Len(frames)] ==
        IF n = 0 THEN <<>>
        ELSE IF frames[n].id[1] # p THEN Append(upTo[n - 1], frames[n]) ELSE upTo[n - 1]
  IN  upTo[Len(frames)]

\* decrementPageLifeTime looks at the first page whether it is in use or not.
Aged(us) ==
  IF us = <<>> \/ us[1].life = 0 THEN us ELSE [us EXCEPT ![1].life = @ - 1]

KeepsPages(p) == done'[p] < workload[p].exec

Work(p) ==
  /\ ~exited /\ phase = "arrivals"
  /\ p \in Running
  /\ done' = [done EXCEPT ![p] = @ + 1]
  /\ uses' = [uses EXCEPT ![p] = Aged(@)]
  /\ \E to \in IF done'[p] = workload[p].exec THEN {"left"} ELSE {"running", "ready"} :
       place' = [place EXCEPT ![p] = to]
  /\ frames' = IF KeepsPages(p) THEN frames ELSE RemovePages(p)
  /\ phase' = "paging"
  /\ UNCHANGED <<scenario, disk, hand, exited, since, elapsed>>

NoWork ==
  /\ ~exited /\ phase = "arrivals"
  /\ Running = {}
  /\ phase' = "paging"
  /\ UNCHANGED <<scenario, place, uses, done, memory, elapsed>>

-----------------------------------------------------------------------------
(* Dispatch, PageInMemory and the end of the tick *)

Matches_Value(page, id) == page.id[2] = id[2]  \* Mutant: whoever's page it is.
Matches(page, id) == page.id = id

Stamp_Not == 0  \* Mutant: a hit does not count as a use.
Stamp == elapsed + 1

\* PageInMemory asks getPage once whether there is a page to look for and then
\* again which.
Touch(p) ==
  LET first  == Answer(uses[p], done[p])
      second == Answer(Remaining(uses[p], done[p]), done[p])
      id == <<p, second.value>>
      k  == SelectInSeq(frames, LAMBDA page : Matches(page, id))
  IN  IF first.life = 0 THEN UNCHANGED memory
      ELSE IF second # NoUse /\ k # 0
      THEN /\ frames' = [frames EXCEPT ![k].lastUsed = Stamp, ![k].referenced = TRUE]
           /\ since' = IF algorithm = "LRU" THEN [since EXCEPT ![id] = elapsed] ELSE since
           /\ UNCHANGED <<disk, hand, exited>>
      ELSE Replace(p, second)

Ready == {p \in Procs : place[p] = "ready"}

Tick(p) ==
  /\ ~exited /\ phase = "paging" /\ elapsed < TimeLimit
  /\ IF Running = {} THEN p \in Ready ELSE p \in Running
  /\ place' = [place EXCEPT ![p] = "running"]
  /\ uses' = [uses EXCEPT ![p] = Remaining(@, done[p])]
  /\ Touch(p)
  /\ elapsed' = elapsed + 1
  /\ phase' = "arrivals"
  /\ UNCHANGED <<scenario, done>>

\* Nothing is dispatched, or a process that was blocked and has no work left.
IdleTick ==
  /\ ~exited /\ phase = "paging" /\ elapsed < TimeLimit
  /\ Running = {} /\ (Ready = {} \/ \E p \in Procs : place[p] = "left")
  /\ elapsed' = elapsed + 1
  /\ phase' = "arrivals"
  /\ UNCHANGED <<scenario, place, uses, done, memory>>

PagesNext ==
  \/ \E p \in Procs : Submit(p) \/ Admit(p) \/ Work(p) \/ Tick(p)
  \/ NoWork \/ IdleTick

PagesSpec == PagesInit /\ [][PagesNext]_pagesVars

-----------------------------------------------------------------------------
(* Properties *)

Copies(pages, id) == Cardinality({k \in DOMAIN pages : pages[k].id = id})

Listed(p, value) == Cardinality({k \in DOMAIN workload[p].pages : workload[p].pages[k].value = value})

\* Pages are neither lost nor doubled by their moves between memory and disk,
\* and no more are in memory than fit: each page of a process is in one of the
\* two as often as the process listed it, until the process leaves; so the page
\* wanted is always found and the simulator never gives up with "page not found
\* on disk".  A process that left has none in memory.  OPTIMAL doubles pages but
\* loses none and has one in memory at most; it does give up, at an admission
\* while the page of the running process is in memory.
PagesConserved ==
  /\ Len(frames) <= MemoryFrames
  /\ algorithm = "OPTIMAL" => Len(frames) <= 1
  /\ exited => /\ algorithm = "OPTIMAL"
               /\ \E p \in Running : Copies(frames, <<p, uses[p][1].value>>) = 1
  /\ \A p \in Procs, id \in PageIds : id[1] = p =>
       /\ place[p] \in {"waiting", "ready", "running"} =>
            /\ Copies(frames \o disk, id) >= Listed(p, id[2])
            /\ algorithm # "OPTIMAL" => Copies(frames \o disk, id) = Listed(p, id[2])
       /\ place[p] = "left" => Copies(frames, id) = 0

\* After its tick a running process has the page it is using in memory, also
\* when pages of others had to leave, and not twice.  It uses the page getPage
\* answers both times PageInMemory asks: with pages listed for the same time or
\* too early it may ask for none or for the next.
PagePresent ==
  [][\A p \in Procs :
       Tick(p) /\ Answer(uses[p], done[p]) # NoUse /\ Answer(uses'[p], done[p]) # NoUse
       => Copies(frames', <<p, Answer(uses'[p], done[p]).value>>) = 1]_pagesVars

\* FIFO puts out the page that was loaded first.  LRU puts out one that was
\* used first but for one tick: a page used by a hit is marked with the end of
\* its tick and a page just loaded with the beginning of it.
VictimOrder ==
  [][\A k \in DOMAIN frames :
       Full /\ phase' # "paging" /\ Copies(frames', frames[k].id) = 0 =>
         \A j \in DOMAIN frames :
           /\ algorithm = "FIFO" => since[frames[k].id] <= since[frames[j].id]
           /\ algorithm = "LRU"  => since[frames[k].id] <= since[frames[j].id] + 1]_pagesVars
=============================================================================
