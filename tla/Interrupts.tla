------------------------------ MODULE Interrupts ------------------------------
(***************************************************************************)
(* Interrupts and exceptions: the table that interrupt_init of             *)
(* hal/inthandling.c fills, the stubs of hal/interruptstubs.asm, the       *)
(* exception handlers, and timer_handler of driver/timer.c.                *)
(*                                                                         *)
(* The two 8259 controllers are not part of the repository: as init_pic    *)
(* leaves them they are fully nested, every line is unmasked, and an end   *)
(* of interrupt (EOI) takes the most urgent level out of service.  Every   *)
(* gate is an interrupt gate: it keeps further interrupts out until iret,  *)
(* so a handler and its stub are one step.                                 *)
(***************************************************************************)
EXTENDS Integers, Sequences, FiniteSetsExt

CONSTANTS
  Lines,          \* the interrupt lines that devices pull
  Chars,          \* what keyboard_handler may leave in _latest_char
  Width, Height,  \* of the display: 80 and 25
  MaxPending      \* bound: lines but the timer's that are pending at once

ASSUME MachineAssumption ==
  /\ Lines \subseteq (0 .. 15) \ {2}  \* line 2 joins the controllers
  /\ Width \in Nat \ {0} /\ Height \in Nat \ {0} /\ MaxPending \in Nat

VARIABLES
  requested,  \* lines with a request pending
  inService,  \* levels in service: 0..7 of the first controller, 8..15 of the second
  cpu,        \* "running", "halted" (hlt), "hung" (the for (;;) of a handler)
  timerFlag,  \* _is_timer_interrupt
  kbdFlag,    \* _is_keyboard_interrupt
  char,       \* _latest_char
  screen,     \* the display's characters
  shown       \* what an exception handler printed

input == <<kbdFlag, char>>
irqVars == <<requested, inService, cpu, timerFlag, input, screen, shown>>

Cells  == (0 .. Width - 1) \X (0 .. Height - 1)
Corner == <<Width - 1, 0>>
NoChar == "none"     \* character 0, of a release
Blank  == "blank"    \* a space, or character 0
Nothing == <<>>

-----------------------------------------------------------------------------
(* interrupt_init: every gate has default_handler until it gets its own.   *)

Vector(l) == IF l < 8 THEN 32 + l ELSE 40 + (l - 8)  \* init_pic

\* The handlers of vectors 0 to 16: what each prints and the parameters it is
\* declared with.
Faults ==
  LET plain(s) == [says |-> s, takes |-> <<"cs", "eip", "flags">>]
      coded(s) == [says |-> s, takes |-> <<"eip", "cs", "flags", "err">>]
  IN  << [says |-> "divide", takes |-> <<"eip", "cs", "flags">>], plain("single step"),
         plain("nmi"), plain("breakpoint"), plain("overflow"), plain("bounds"),
         plain("opcode"), plain("no device"), coded("tss"), coded("segment"),
         coded("stack"), coded("protection"), coded("page"), plain("fpu"),
         coded("alignment"), plain("machine check"), plain("simd") >>

Gate(v) ==
  CASE v \in 0 .. 16   -> "fault"
    [] v = 32          -> "isr32"
    [] v = 33          -> "isr33"
    [] v \in 34 .. 37  -> "isr34"
    [] v \in {46, 47}  -> "isr46"
    [] OTHER           -> "default_handler"

-----------------------------------------------------------------------------
(* The controllers *)

First(l)  == IF l >= 8 THEN 2 ELSE l   \* the level of l at the first controller
Level(l)  == IF l >= 8 THEN {2, l} ELSE {l}
Masters   == 0 .. 7
Slaves    == 8 .. 15

\* Nothing as urgent as l is in service.
Open(l) ==
  /\ \A m \in inService \cap Masters : First(l) < m
  /\ l \in Slaves => \A m \in inService \cap Slaves : l < m

MoreUrgent(l, k) == First(l) < First(k) \/ (First(l) = First(k) /\ l < k)
Next_Irq(l) ==
  /\ l \in requested /\ Open(l)
  /\ \A k \in requested : Open(k) => ~MoreUrgent(k, l)

Without(levels, some) == IF levels \cap some = {} THEN levels ELSE levels \ {Min(levels \cap some)}
SendEOIMaster(levels) == Without(levels, Masters)
SendEOISlave_Lost(levels) == levels  \* Mutant: the second controller is told nothing.
SendEOISlave(levels)  == Without(levels, Slaves)

\* A device asks for service; a request that is still pending absorbs it.
Pull(l) ==
  /\ l \notin requested
  /\ l = 0 \/ Cardinality(requested \ {0}) < MaxPending
  /\ requested' = requested \cup {l}
  /\ UNCHANGED <<inService, cpu, timerFlag, input, screen, shown>>

-----------------------------------------------------------------------------
(* The stubs.  levels: what is in service while they run. *)

\* rotate_pole turns what stands in the corner, whatever it was, into a pole.
RotatePole == screen' = [screen EXCEPT ![Corner] = "pole"]

Isr32_NoEOI(levels) ==  \* Mutant: the timer's stub forgets the EOI.
  /\ timerFlag' = TRUE
  /\ RotatePole
  /\ inService' = levels
  /\ UNCHANGED input
Isr32(levels) ==
  /\ timerFlag' = TRUE
  /\ RotatePole
  /\ inService' = SendEOIMaster(levels)
  /\ UNCHANGED input

\* keyboard_handler: see Keyboard.
Isr33(levels) ==
  /\ kbdFlag' = TRUE
  /\ char' \in Chars \cup {char}
  /\ inService' = SendEOIMaster(levels)
  /\ UNCHANGED <<timerFlag, screen>>

Isr34(levels) ==  \* and isr35 to isr37
  /\ inService' = SendEOIMaster(levels)
  /\ UNCHANGED <<timerFlag, input, screen>>

Isr46(levels) ==  \* and isr47
  /\ inService' = SendEOISlave(SendEOIMaster(levels))
  /\ UNCHANGED <<timerFlag, input, screen>>

Returns(l, levels) ==
  /\ cpu' = "running"
  /\ \/ Gate(Vector(l)) = "isr32" /\ Isr32(levels)
     \/ Gate(Vector(l)) = "isr33" /\ Isr33(levels)
     \/ Gate(Vector(l)) = "isr34" /\ Isr34(levels)
     \/ Gate(Vector(l)) = "isr46" /\ Isr46(levels)

\* default_handler prints and loops, with interrupts off.
DefaultHandler(l, levels) ==
  /\ Gate(Vector(l)) = "default_handler"
  /\ inService' = levels
  /\ cpu' = "hung"
  /\ UNCHANGED <<timerFlag, input, screen>>

Interrupt(l) ==
  /\ cpu # "hung"
  /\ Next_Irq(l)
  /\ requested' = requested \ {l}
  /\ Returns(l, inService \cup Level(l)) \/ DefaultHandler(l, inService \cup Level(l))
  /\ UNCHANGED shown

-----------------------------------------------------------------------------
(* Exceptions *)

\* What the processor's manual calls exception v, in the words of the handlers.
Name ==
  [v \in {0, 1, 2, 3, 4, 5, 6, 7, 8, 10, 11, 12, 13, 14, 16, 17, 18, 19} |->
     CASE v <= 7  -> Faults[v + 1].says
       [] v = 8   -> "double fault"
       [] v \in 10 .. 14 -> Faults[v - 1].says
       [] v \in 16 .. 19 -> <<"fpu", "alignment", "machine check", "simd">>[v - 15]]
WithErrorCode == {8, 10, 11, 12, 13, 14, 17}

\* What the processor pushes, last first.  The handlers are functions of C
\* entered without a call: they take what lies on top for their return address.
Frame(v) ==
  (IF v \in WithErrorCode THEN <<"err">> ELSE <<>>) \o <<"eip", "cs", "flags">>
Parameter(v, p) ==
  LET places == {k \in DOMAIN Faults[v + 1].takes : Faults[v + 1].takes[k] = p}
      place  == Min(places) + 1
  IN  IF place \in DOMAIN Frame(v) THEN Frame(v)[place] ELSE "anything"

Trap(v) ==
  /\ cpu = "running"
  /\ cpu' = "hung"
  /\ shown' = IF Gate(v) = "fault"
              THEN [of |-> v, says |-> Faults[v + 1].says, cs |-> Parameter(v, "cs"),
                    eip |-> Parameter(v, "eip"), flags |-> Parameter(v, "flags")]
              ELSE [of |-> v, says |-> "default", cs |-> "", eip |-> "", flags |-> ""]
  /\ UNCHANGED <<requested, inService, timerFlag, input, screen>>

-----------------------------------------------------------------------------
(* The kernel after interrupt_init, with nothing to do but hlt. *)

InitInterrupts ==
  /\ requested = {} /\ inService = {} /\ cpu = "running"
  /\ timerFlag = FALSE /\ kbdFlag = FALSE /\ char = NoChar
  /\ screen = [c \in Cells |-> Blank]
  /\ shown = Nothing

KernelWait ==
  /\ cpu = "running"
  /\ cpu' = "halted"
  /\ UNCHANGED <<requested, inService, timerFlag, input, screen, shown>>

Devices == (\E l \in Lines : Pull(l)) \/ (\E l \in Lines : Interrupt(l))

NextInterrupts == Devices \/ KernelWait \/ \E v \in DOMAIN Name : Trap(v)

SpecInterrupts == InitInterrupts /\ [][NextInterrupts]_irqVars

-----------------------------------------------------------------------------
(* Properties *)

\* Every variable has its type.
MachineTypeOK ==
  /\ requested \subseteq Lines /\ inService \subseteq 0 .. 15
  /\ cpu \in {"running", "halted", "hung"}
  /\ timerFlag \in BOOLEAN /\ kbdFlag \in BOOLEAN
  /\ char \in Chars \cup {NoChar}
  /\ DOMAIN screen = Cells

\* Every stub ends what its interrupt began, at the controllers that must hear
\* of it: outside handlers nothing is in service, so no line is kept waiting by
\* one long served.  The kernel stops for nothing but a line without a stub,
\* and then with that line in service for ever.
ServiceEnds ==
  /\ cpu # "hung" => inService = {}
  /\ cpu = "hung" /\ shown = Nothing =>
       \E l \in Lines \cap (6 .. 13) : inService = Level(l)

\* "Trigger exceptions to view hex diagnostics": what is printed for an
\* exception names it, and the values are its own.
DiagnosisIsTrue ==
  shown # Nothing =>
    /\ shown.says = Name[shown.of]
    /\ shown.cs = "cs" /\ shown.eip = "eip" /\ shown.flags = "flags"
=============================================================================
