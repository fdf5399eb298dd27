------------------------------- MODULE SchedSim -------------------------------
(***************************************************************************)
(* The process-scheduling simulator: Simulator::StartSimulation of         *)
(* kernal/Process_scheduling/Simulate.cpp and the short-term scheduling    *)
(* algorithms of kernal/include/ProcessSchedulingAlgorithms.h.             *)
(*                                                                         *)
(* A simulated process is at any time an element of one of seven vectors,  *)
(* modelled as sequences of process identifiers; its counters are kept in  *)
(* functions on identifiers.  One tick of the simulated machine is one     *)
(* round of the loop of StartSimulation, an action for each function it    *)
(* calls; `pc' is the function called next.  Times are whole ticks.  Left  *)
(* out: the wall-clock pacing of the loop, logging, page replacement       *)
(* (which reads the queues and changes none of them), and timesExecuted,   *)
(* which FEEDBACK only ever turns into the priority of a copy.             *)
(***************************************************************************)
EXTENDS Integers, SequencesExt, FiniteSetsExt

CONSTANTS
  MaxMultiprogramming,  \* maxProcessMultiprogramming values considered
  Algorithms,           \* the short-term algorithms considered, by name
  Workloads,            \* what filetoVectorofTuples may have read: sequences
                        \* of [sub, prio, exec, block]
  LongQuantum,          \* bound: stands for numeric_limits<int>::max()
  TimeLimit             \* bound: _elapsedTime stops growing here

Task == [sub : Nat, prio : Nat, exec : Nat \ {0}, block : Nat]

ASSUME BoundsAssumption ==
  /\ MaxMultiprogramming \subseteq Nat \ {0}
  /\ Algorithms \subseteq {"RR", "HRRN", "PRIORITY", "LOTTERY", "SD", "FEEDBACK"}
  /\ \A w \in Workloads : w \in Seq(Task)
  /\ LongQuantum \in Nat \ {0} /\ TimeLimit \in Nat \ {0}

VARIABLES
  workload, max, algorithm,   \* the scenario; never change
  pc,           \* what StartSimulation does next
  started,      \* how many processes StartProcess has taken
  incoming,     \* incomingQueue: not submitted yet
  waiting,      \* waitingQueue: submitted, not admitted
  ready,        \* readyQueue
  running,      \* runningProcess
  blocked,      \* blockedQueue
  readySusp,    \* readySuspensedQueue
  blockedSusp,  \* blockedSuspensedQueue
  remaining,    \* remainsExecutionTime of each process
  blockTime,    \* blockTime of each process
  submission,   \* submissionTime of each process
  response,     \* responseTime of each process, -1 until it first runs
  quantum,      \* _quantum, kept at 0 once it is below 1
  cpuIdle,      \* _cpuIdle
  elapsed,      \* _elapsedTime
  idleTime,     \* _cpuIdleTime
  results,      \* what TerminateProcess added to the statistics, by process
  slice,        \* ticks the running process has had since dispatch (history)
  suspended     \* processes that were ever suspended (history)

scenario == <<workload, max, algorithm>>
queues   == <<incoming, waiting, ready, running, blocked, readySusp, blockedSusp>>
counters == <<remaining, blockTime, submission, response>>
clock    == <<quantum, cpuIdle, elapsed, idleTime>>
history  == <<slice, suspended>>
vars == <<scenario, pc, started, queues, counters, clock, results, history>>

Procs == DOMAIN workload

InSystem_NotRunning == Len(ready) + Len(blocked)  \* Mutant
\* isSysFull: the difference is computed in size_t, so only 0 is <= 0.
InSystem  == Len(running) + Len(ready) + Len(blocked)
IsSysFull == max - InSystem = 0

Init ==
  /\ workload \in Workloads /\ max \in MaxMultiprogramming /\ algorithm \in Algorithms
  /\ pc = "start" /\ started = 0
  /\ incoming = <<>> /\ waiting = <<>> /\ ready = <<>> /\ running = <<>>
  /\ blocked = <<>> /\ readySusp = <<>> /\ blockedSusp = <<>>
  /\ remaining  = [p \in Procs |-> workload[p].exec]
  /\ blockTime  = [p \in Procs |-> workload[p].block]
  /\ submission = [p \in Procs |-> workload[p].sub]
  /\ response   = [p \in Procs |-> -1]
  /\ quantum = 0 /\ cpuIdle = TRUE /\ elapsed = 0 /\ idleTime = 0
  /\ results = [p \in {} |-> <<>>]
  /\ slice = 0 /\ suspended = {}

\* StartProcess, called for each process before the loop.
StartProcess ==
  /\ pc = "start" /\ started < Len(workload)
  /\ LET p == started + 1
         now == submission[p] = 0
     IN  /\ started' = p
         /\ ready'    = IF now /\ ~IsSysFull THEN Append(ready, p) ELSE ready
         /\ waiting'  = IF now /\ IsSysFull THEN Append(waiting, p) ELSE waiting
         /\ incoming' = IF now THEN incoming ELSE Append(incoming, p)
  /\ UNCHANGED <<scenario, pc, running, blocked, readySusp, blockedSusp,
                 counters, clock, results, history>>

EnterLoop ==
  /\ pc = "start" /\ started = Len(workload)
  /\ pc' = "loop"
  /\ UNCHANGED <<scenario, started, queues, counters, clock, results, history>>

\* Mutant: the suspended processes are forgotten.
EmptyQueue_NoSuspended ==
  incoming = <<>> /\ waiting = <<>> /\ ready = <<>> /\ blocked = <<>> /\ cpuIdle

EmptyQueue ==
  /\ incoming = <<>> /\ waiting = <<>> /\ readySusp = <<>>
  /\ ready = <<>> /\ blocked = <<>> /\ blockedSusp = <<>> /\ cpuIdle

\* The processes of queue q that are in S, in their order.
Among(q, S) ==
  LET upTo[n \in 0 .. Len(q)] ==
        IF n = 0 THEN <<>>
        ELSE IF q[n] \in S THEN Append(upTo[n - 1], q[n]) ELSE upTo[n - 1]
  IN  upTo[Len(q)]

\* What the loops that walk a vector from its end move of it, and what they leave.
FromTheEnd(q, S) == Reverse(Among(q, S))
Staying(q, S) == Among(q, Procs \ S)

\* The loop's test and CheckIncomingQueue.
CheckIncomingQueue ==
  /\ pc = "loop" /\ ~EmptyQueue
  /\ LET Submitted == {p \in Procs : submission[p] - elapsed <= 0}
     IN  /\ waiting'  = waiting \o FromTheEnd(incoming, Submitted)
         /\ incoming' = Staying(incoming, Submitted)
  /\ pc' = "admit"
  /\ UNCHANGED <<scenario, started, ready, running, blocked, readySusp, blockedSusp,
                 counters, clock, results, history>>

(***************************************************************************)
(* FCFS(from, readyQueue), called until `from' is empty or the system is   *)
(* full: the first processes of `from' move to the end of the ready queue  *)
(* and count as submitted now.                                             *)
(***************************************************************************)
Room == IF IsSysFull THEN 0 ELSE max - InSystem
Admitted(from) == SubSeq(from, 1, Min({Room, Len(from)}))
Left_Kept(from) == from  \* Mutant: copied to the ready queue, not erased.
Left(from)     == SubSeq(from, Min({Room, Len(from)}) + 1, Len(from))
SubmittedNow(from) ==
  [p \in Procs |-> IF p \in ToSet(Admitted(from)) THEN elapsed ELSE submission[p]]

Admit ==
  /\ pc = "admit"
  /\ waiting' = Left(waiting)
  /\ ready' = ready \o Admitted(waiting)
  /\ submission' = SubmittedNow(waiting)
  /\ pc' = "blocked"
  /\ UNCHANGED <<scenario, started, incoming, running, blocked, readySusp, blockedSusp,
                 remaining, blockTime, response, clock, results, history>>

NobodyWaits_Ignored == TRUE  \* Mutant
NobodyWaits == waiting = <<>>

\* CheckBlockedQueue: every blocked process waits one tick less; those whose
\* time is up leave, but from blockedQueue only while nothing waits to be
\* admitted.
CheckBlockedQueue ==
  /\ pc = "blocked"
  /\ blockTime' = [p \in Procs |->
        IF p \in ToSet(blocked \o blockedSusp) /\ blockTime[p] > 0
        THEN blockTime[p] - 1 ELSE blockTime[p]]
  /\ LET Over    == {p \in Procs : blockTime'[p] <= 0}
         Returns == IF NobodyWaits THEN Over ELSE {}
     IN  /\ ready'       = ready \o FromTheEnd(blocked, Returns)
         /\ blocked'     = Staying(blocked, Returns)
         /\ readySusp'   = readySusp \o FromTheEnd(blockedSusp, Over)
         /\ blockedSusp' = Staying(blockedSusp, Over)
  /\ pc' = "readysusp"
  /\ UNCHANGED <<scenario, started, incoming, waiting, running,
                 remaining, submission, response, clock, results, history>>

\* Mutant: the suspended processes that are ready are not looked at.
CheckReadySuspensedQueue_Never ==
  /\ pc = "readysusp" /\ pc' = "running"
  /\ UNCHANGED <<scenario, started, queues, counters, clock, results, history>>

CheckReadySuspensedQueue ==
  /\ pc = "readysusp"
  /\ IF NobodyWaits
     THEN /\ readySusp' = Left(readySusp)
          /\ ready' = ready \o Admitted(readySusp)
          /\ submission' = SubmittedNow(readySusp)
     ELSE UNCHANGED <<readySusp, ready, submission>>
  /\ pc' = "running"
  /\ UNCHANGED <<scenario, started, incoming, waiting, running, blocked, blockedSusp,
                 remaining, blockTime, response, clock, results, history>>

-----------------------------------------------------------------------------
(* CheckRunningProcess, one action for each of its outcomes.  Each of them *)
(* begins with one tick of work by the running process; a process back     *)
(* from blocking has nothing left to do in its tick.                       *)

DecrementExecutionTime_Below0(t) == t - 1  \* Mutant
DecrementExecutionTime(t) == IF t > 0 THEN t - 1 ELSE t

Work(p) ==
  /\ pc = "running" /\ running = <<p>>
  /\ remaining' = [remaining EXCEPT ![p] = DecrementExecutionTime(@)]
  /\ slice' = slice + 1
  /\ pc' = "dispatch"
  /\ UNCHANGED <<scenario, started, incoming, waiting, readySusp,
                 blockTime, submission, response, clock>>

\* The burst is over and there is something to wait for: the process leaves
\* for blockedSuspensedQueue if it holds a place others wait for.
Block(p) ==
  /\ Work(p)
  /\ remaining'[p] < 1 /\ blockTime[p] > 0
  /\ IF waiting # <<>> /\ IsSysFull
     THEN /\ blockedSusp' = Append(blockedSusp, p)
          /\ suspended' = suspended \cup {p}
          /\ UNCHANGED blocked
     ELSE /\ blocked' = Append(blocked, p)
          /\ UNCHANGED <<blockedSusp, suspended>>
  /\ running' = <<>>
  /\ UNCHANGED <<ready, results>>

Turnaround_LessWork(p) == elapsed - (submission[p] + workload[p].exec)  \* Mutant
Turnaround(p)  == elapsed - submission[p]
WaitingTime(p) == elapsed - (submission[p] + workload[p].exec)

\* setTurnaroundTime, setWaitingTime and TerminateProcess.
Terminate(p) ==
  /\ Work(p)
  /\ remaining'[p] < 1 /\ blockTime[p] <= 0
  /\ results' = [q \in DOMAIN results \cup {p} |->
                   IF q # p THEN results[q]
                   ELSE [turnaround |-> Turnaround(p),
                         wait       |-> WaitingTime(p),
                         resp       |-> response[p]]]
  /\ running' = <<>>
  /\ UNCHANGED <<ready, blocked, blockedSusp, suspended>>

Preempt(p) ==
  /\ Work(p)
  /\ remaining'[p] >= 1 /\ quantum < 1
  /\ ready' = Append(ready, p)
  /\ running' = <<>>
  /\ UNCHANGED <<blocked, blockedSusp, suspended, results>>

Continue(p) ==
  /\ Work(p)
  /\ remaining'[p] >= 1 /\ quantum >= 1
  /\ UNCHANGED <<ready, running, blocked, blockedSusp, suspended, results>>

NothingRuns ==
  /\ pc = "running" /\ running = <<>>
  /\ pc' = "dispatch"
  /\ UNCHANGED <<scenario, started, queues, counters, clock, results, history>>

CheckRunningProcess ==
  \/ NothingRuns
  \/ \E p \in Procs : Block(p) \/ Terminate(p) \/ Preempt(p) \/ Continue(p)

-----------------------------------------------------------------------------
(* The short-term algorithms: the places in the ready queue each may take *)
(* the next process from, and the quantum it gives it.                     *)

Places == 1 .. Len(ready)
First(S) == {Min(S)}
Prio(i) == workload[ready[i]].prio

\* HRRN compares the ratios 1 + waiting / remaining as doubles, starting from
\* 0: a ratio that is not positive, or 0/0, never wins, and the first place is
\* taken when none does.  A process back from blocking has nothing remaining,
\* so its ratio is infinite.
WaitOf(i)   == WaitingTime(ready[i])
RemainOf(i) == remaining[ready[i]]
Positive(i) == IF RemainOf(i) > 0 THEN RemainOf(i) + WaitOf(i) > 0 ELSE WaitOf(i) > 0
Higher(i, j) ==
  IF RemainOf(i) <= 0 THEN RemainOf(j) > 0
  ELSE /\ RemainOf(j) > 0
       /\ (RemainOf(i) + WaitOf(i)) * RemainOf(j) > (RemainOf(j) + WaitOf(j)) * RemainOf(i)
HighestRatio ==
  LET rated == {i \in Places : Positive(i)}
      best  == {i \in rated : \A j \in rated : ~Higher(j, i)}
  IN  IF best = {} THEN {1} ELSE First(best)

\* In LOTTERY each process holds tickets; which is drawn is left to chance.
Choice ==
  CASE algorithm \in {"RR", "SD"} -> {1}
    [] algorithm = "HRRN"     -> HighestRatio
    [] algorithm = "PRIORITY" -> First({i \in Places : \A j \in Places : Prio(i) >= Prio(j)})
    [] algorithm = "FEEDBACK" -> First({i \in Places : \A j \in Places : Prio(i) <= Prio(j)})
    [] algorithm = "LOTTERY"  -> Places

\* FEEDBACK leaves the last quantum in place for a priority above 3.
Quantum(i) ==
  CASE algorithm \in {"RR", "LOTTERY"}    -> 2
    [] algorithm \in {"HRRN", "PRIORITY"} -> LongQuantum
    [] algorithm = "SD"       -> max \div Len(ready)
    [] algorithm = "FEEDBACK" -> IF Prio(i) > 3 THEN quantum ELSE 2 ^ Prio(i)

\* Calling the algorithm when nothing runs and something is ready.
Dispatch ==
  /\ pc = "dispatch" /\ running = <<>> /\ ready # <<>>
  /\ \E i \in Choice :
       LET p == ready[i]
       IN  /\ running' = <<p>>
           /\ ready' = RemoveAt(ready, i)
           /\ quantum' = Quantum(i)
           /\ response' = IF response[p] = -1
                          THEN [response EXCEPT ![p] = elapsed - submission[p]]
                          ELSE response
  /\ cpuIdle' = FALSE
  /\ slice' = 0
  /\ pc' = "clock"
  /\ UNCHANGED <<scenario, started, incoming, waiting, blocked, readySusp, blockedSusp,
                 remaining, blockTime, submission, elapsed, idleTime, results, suspended>>

IdleAfter == IF running = <<>> THEN TRUE ELSE cpuIdle

NothingToDispatch ==
  /\ pc = "dispatch" /\ (running # <<>> \/ ready = <<>>)
  /\ cpuIdle' = IdleAfter
  /\ pc' = "clock"
  /\ UNCHANGED <<scenario, started, queues, counters, quantum, elapsed, idleTime,
                 results, history>>

CountsAsIdle_NoneReady == ready = <<>>  \* Mutant
CountsAsIdle == cpuIdle /\ running = <<>>
DecrementQuantum_Not == quantum  \* Mutant
DecrementQuantum == IF quantum > 0 THEN quantum - 1 ELSE 0

\* The end of a tick: _elapsedTime++, _quantum--, _cpuIdleTime++ if idle.
Tick ==
  /\ pc = "clock"
  /\ LET step == IF elapsed < TimeLimit THEN 1 ELSE 0
     IN  /\ elapsed' = elapsed + step
         /\ idleTime' = IF CountsAsIdle THEN idleTime + step ELSE idleTime
  /\ quantum' = DecrementQuantum
  /\ pc' = "loop"
  /\ UNCHANGED <<scenario, started, queues, counters, cpuIdle, results, history>>

\* Leaving the loop; the last tick, on which nothing was left to run, does
\* not count.
CalcStatistics ==
  /\ pc = "loop" /\ EmptyQueue
  /\ elapsed' = elapsed - 1
  /\ idleTime' = idleTime - 1
  /\ pc' = "done"
  /\ UNCHANGED <<scenario, started, queues, counters, quantum, cpuIdle, results, history>>

Next ==
  \/ StartProcess \/ EnterLoop
  \/ CheckIncomingQueue \/ Admit \/ CheckBlockedQueue \/ CheckReadySuspensedQueue
  \/ CheckRunningProcess \/ Dispatch \/ NothingToDispatch \/ Tick
  \/ CalcStatistics

\* One thread runs the loop and nothing in it waits.
Spec == Init /\ [][Next]_vars /\ WF_vars(Next)

-----------------------------------------------------------------------------
(* Properties *)

\* Every variable has its type, and the bounded clock stays in its bounds.
TypeOK ==
  /\ workload \in Workloads /\ max \in MaxMultiprogramming /\ algorithm \in Algorithms
  /\ pc \in {"start", "loop", "admit", "blocked", "readysusp", "running", "dispatch",
             "clock", "done"}
  /\ started \in 0 .. Len(workload)
  /\ \A q \in {incoming, waiting, ready, running, blocked, readySusp, blockedSusp} :
       q \in Seq(1 .. started)
  /\ remaining \in [Procs -> Nat] /\ blockTime \in [Procs -> Nat]
  /\ submission \in [Procs -> Nat] /\ response \in [Procs -> Int]
  /\ quantum \in Nat /\ cpuIdle \in BOOLEAN
  /\ elapsed \in -1 .. TimeLimit /\ idleTime \in -1 .. TimeLimit
  /\ DOMAIN results \subseteq 1 .. started
  /\ slice \in Nat /\ suspended \subseteq Procs

Everywhere == incoming \o waiting \o ready \o running \o blocked \o readySusp \o blockedSusp
Finished == DOMAIN results

\* No process is lost or duplicated while the seven vectors hand processes on
\* to each other: every started one is in exactly one place of one vector, or
\* has terminated.
OnePlaceEach ==
  /\ Len(Everywhere) = Cardinality(ToSet(Everywhere))
  /\ ToSet(Everywhere) \cap Finished = {}
  /\ ToSet(Everywhere) \cup Finished = 1 .. started

\* The degree of multiprogramming is never exceeded: four functions move
\* processes into the vectors isSysFull counts, and one place too many would
\* count as room without end, its difference being unsigned.
MultiprogrammingBound ==
  Len(running) + Len(ready) + Len(blocked) <= max /\ Len(running) <= 1

Quota ==
  CASE algorithm \in {"RR", "LOTTERY"}    -> 2
    [] algorithm \in {"HRRN", "PRIORITY"} -> LongQuantum
    [] algorithm = "SD"                   -> max
    [] algorithm = "FEEDBACK"             -> 8

\* No process keeps the processor once it has had its algorithm's quantum,
\* across the tick boundary where _quantum is counted down before the next
\* CheckRunningProcess reads it.
SliceBound == running # <<>> => slice < Quota

(***************************************************************************)
(* The places of the system are all taken by blocked processes while       *)
(* others wait for admission: blocked processes return only when nobody    *)
(* waits, and nobody is admitted while the system is full.                 *)
(***************************************************************************)
Gridlock ==
  /\ Len(blocked) = max /\ waiting # <<>>
  /\ running = <<>> /\ ready = <<>>

ExtraTicks == {p \in Finished : workload[p].block > 0}

\* The clock has not reached the bound it stops at.
ClockRuns == elapsed < IF pc = "done" THEN TimeLimit - 1 ELSE TimeLimit

\* f[1] + ... + f[n]
Total(f, n) ==
  LET upTo[k \in 0 .. n] == IF k = 0 THEN 0 ELSE upTo[k - 1] + f[k]
  IN  upTo[n]

WorkDone == [p \in Procs |-> workload[p].exec - remaining[p]]

\* The processor's time adds up: each tick of the clock is either counted in
\* _cpuIdleTime or was given to a process (a process back from blocking gets
\* one with nothing left to do, and its end takes it).
TimeAddsUp ==
  pc = "loop" /\ ClockRuns =>
    elapsed - idleTime =
      Total(WorkDone, Len(workload)) + Cardinality(ExtraTicks) + Len(running)

\* The loop is left only when every process has terminated, and the
\* percentages CalcStatistics then computes are of sensible numbers: a clock
\* above zero and an idle time between zero and it.
EndsComplete ==
  pc = "done" =>
    /\ Finished = Procs
    /\ workload # <<>> /\ ClockRuns => elapsed > 0 /\ 0 <= idleTime /\ idleTime < elapsed

\* A process that was never suspended is charged a turnaround that covers its
\* work and its wait, and ran for the first time within it.
TurnaroundCoversWork ==
  ClockRuns =>
    \A p \in Finished \ suspended :
      /\ results[p].turnaround >= workload[p].exec + workload[p].block
      /\ results[p].resp \in 0 .. results[p].turnaround

\* Once gridlocked the simulator stays so: it runs tick after tick for ever.
GridlockIsForever == [][Gridlock => Gridlock']_vars

\* It is the only way not to end: under every algorithm and workload the
\* simulation terminates, before the bound on the clock, or runs into it.
EndsOrGridlocks == <>((pc = "done" /\ ClockRuns) \/ Gridlock)
=============================================================================
