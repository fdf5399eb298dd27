--------------------------------- MODULE Ball ---------------------------------
(***************************************************************************)
(* The ball game, command_ball of kernel/kshell.c, under the interrupts it *)
(* lives on: it halts until an interrupt, then looks at the flags of the   *)
(* keyboard's and of the timer's handler.  Each player steers a ball; a    *)
(* tick moves both, and who leaves the display loses.                      *)
(*                                                                         *)
(* A flag that is found set is cleared in the same step: an interrupt in   *)
(* between sets what is set already.                                       *)
(***************************************************************************)
EXTENDS Interrupts

VARIABLES
  pc,         \* the place in the loop, "shell" outside the game
  ball1, ball2

gameVars == <<pc, ball1, ball2>>
vars == <<irqVars, gameVars>>

At(b) == <<b.x, b.y>>

Ball1AtStart == [x |-> 0, y |-> 0, dx |-> 0, dy |-> 0]
Ball2AtStart == [x |-> Width - 1, y |-> Height - 1, dx |-> 0, dy |-> 0]

Init ==
  /\ InitInterrupts
  /\ pc = "shell" /\ ball1 = Ball1AtStart /\ ball2 = Ball2AtStart

\* The flags are as the shell left them.
Start ==
  /\ cpu = "running" /\ pc = "shell"
  /\ pc' = "wait"
  /\ ball1' = Ball1AtStart /\ ball2' = Ball2AtStart
  /\ screen' = [c \in Cells |-> Blank]
  /\ UNCHANGED <<requested, inService, cpu, timerFlag, input, shown>>

Wait ==
  /\ pc = "wait"
  /\ KernelWait
  /\ pc' = "keyboard"
  /\ UNCHANGED <<ball1, ball2>>

-----------------------------------------------------------------------------
(* A key *)

TestKeyboard ==
  /\ cpu = "running" /\ pc = "keyboard"
  /\ pc' = IF kbdFlag THEN "getchar" ELSE "timer"
  /\ kbdFlag' = FALSE
  /\ UNCHANGED <<requested, inService, cpu, timerFlag, char, screen, shown, ball1, ball2>>

Clamp_Never(d) == d  \* Mutant: a direction is not kept in -1 .. 1.
Clamp(d) == CASE d < -1 -> -1
              [] d > 1  -> 1
              [] OTHER  -> d
Up(b)    == [b EXCEPT !.dy = Clamp(@ - 1)]
Down(b)  == [b EXCEPT !.dy = Clamp(@ + 1)]
Left(b)  == [b EXCEPT !.dx = Clamp(@ - 1)]
Right(b) == [b EXCEPT !.dx = Clamp(@ + 1)]

Steer1(c, b) == CASE c = "w" -> Up(b)   [] c = "s" -> Down(b)
                  [] c = "a" -> Left(b) [] c = "d" -> Right(b) [] OTHER -> b
Steer2(c, b) == CASE c = "i" -> Up(b)   [] c = "k" -> Down(b)
                  [] c = "j" -> Left(b) [] c = "l" -> Right(b) [] OTHER -> b

GetLatestChar ==
  /\ cpu = "running" /\ pc = "getchar"
  /\ ball1' = Steer1(char, ball1) /\ ball2' = Steer2(char, ball2)
  /\ pc' = "timer"
  /\ UNCHANGED irqVars

-----------------------------------------------------------------------------
(* A tick.  Ball 1 moves; if that takes it to ball 2 they exchange their   *)
(* directions; then ball 2 moves.                                          *)

Moved(b) == [b EXCEPT !.x = @ + b.dx, !.y = @ + b.dy]
Towards(b, c) == [b EXCEPT !.dx = c.dx, !.dy = c.dy]

Hit   == At(Moved(ball1)) = At(ball2)
Next1 == IF Hit THEN Towards(Moved(ball1), ball2) ELSE Moved(ball1)
Next2 == Moved(IF Hit THEN Towards(ball2, ball1) ELSE ball2)

Out(b) == b.x = Width \/ b.x < 0 \/ b.y < 0 \/ b.y = Height

Wiped_One == [screen EXCEPT ![At(ball1)] = Blank]  \* Mutant: ball 2 leaves a trail.
Wiped == [screen EXCEPT ![At(ball1)] = Blank, ![At(ball2)] = Blank]

TestTimer ==
  /\ cpu = "running" /\ pc = "timer"
  /\ timerFlag' = FALSE
  /\ IF ~timerFlag THEN pc' = "wait" /\ UNCHANGED <<ball1, ball2, screen, kbdFlag>>
     ELSE /\ ball1' = Next1 /\ ball2' = Next2
          /\ IF Out(Next1) \/ Out(Next2)
             THEN pc' = "lost" /\ screen' = Wiped /\ kbdFlag' = FALSE
             ELSE /\ pc' = "wait" /\ UNCHANGED kbdFlag
                  /\ screen' = [Wiped EXCEPT ![At(Next1)] = "o", ![At(Next2)] = "*"]
  /\ UNCHANGED <<requested, inService, cpu, char, shown>>

\* The end: "Press x to exit" is waited for with get_monitor_char, which
\* clears the flag before and after (see Keyboard), and fresh clears the
\* display.
Exit ==
  /\ cpu = "running" /\ pc = "lost" /\ kbdFlag
  /\ kbdFlag' = FALSE
  /\ IF char = "x" THEN pc' = "shell" /\ screen' = [c \in Cells |-> Blank]
                   ELSE UNCHANGED <<pc, screen>>
  /\ UNCHANGED <<requested, inService, cpu, timerFlag, char, shown, ball1, ball2>>

-----------------------------------------------------------------------------

Loop == Wait \/ TestKeyboard \/ GetLatestChar \/ TestTimer

Next ==
  \/ Devices /\ UNCHANGED gameVars
  \/ Start \/ Loop \/ Exit

\* The timer is periodic, a request is served when nothing more urgent is, and
\* the processor runs.
Spec ==
  /\ Init /\ [][Next]_vars
  /\ WF_vars(Pull(0) /\ UNCHANGED gameVars)
  /\ WF_vars((\E l \in Lines : Interrupt(l)) /\ UNCHANGED gameVars)
  /\ WF_vars(Loop)

-----------------------------------------------------------------------------
(* Properties *)

Playing == pc \in {"wait", "keyboard", "getchar", "timer"}

Balls == [x : -1 .. Width, y : -1 .. Height, dx : -1 .. 1, dy : -1 .. 1]

\* Every variable has its type: a ball is at most one step outside, and its
\* directions stay in -1 .. 1 whatever is pressed and however they collide.
TypeOK ==
  /\ MachineTypeOK
  /\ pc \in {"shell", "wait", "keyboard", "getchar", "timer", "lost"}
  /\ ball1 \in Balls /\ ball2 \in Balls

Picture(c) == CASE c = At(ball2) -> "*"
                [] c # At(ball2) /\ c = At(ball1) -> "o"
                [] OTHER -> Blank

\* While the game goes on both balls are on the display, which shows them where
\* they are and nothing else: nothing before the first tick, and in the corner
\* perhaps the timer's pole, which may hide a ball until the next tick.
ShowsTheBalls ==
  Playing =>
    /\ {At(ball1), At(ball2)} \subseteq Cells
    /\ \/ \A c \in Cells \ {Corner} : screen[c] = Picture(c)
       \/ /\ \A c \in Cells \ {Corner} : screen[c] = Blank
          /\ At(ball1) = At(Ball1AtStart) /\ At(ball2) = At(Ball2AtStart)
    /\ screen[Corner] \in {Picture(Corner), Blank, "pole"}

\* Each tick is played while the game goes on, also one between the test of
\* the flag and the hlt (it ends with the next one), unless the kernel hangs.
TicksArePlayed ==
  Playing /\ timerFlag ~> ~timerFlag \/ cpu = "hung"
=============================================================================
