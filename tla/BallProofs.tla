------------------------------ MODULE BallProofs ------------------------------
(***************************************************************************)
(* The interrupts are served to their end and the ball game stays on its   *)
(* display, for displays of every size, every set of lines that devices    *)
(* pull and every key.                                                     *)
(***************************************************************************)
EXTENDS Ball, TLAPS

Inv == TypeOK /\ ServiceEnds /\ ShowsTheBalls

\* The only level of a set is its most urgent one.
LEMMA MinOfOne ==
  ASSUME NEW n \in Nat
  PROVE  Min({n}) = n
  BY SMT DEF Min

\* The stubs: what is in service when one begins, and what its gate is.
LEMMA Gates ==
  ASSUME NEW l \in 0 .. 15
  PROVE  /\ Gate(Vector(l)) = "isr32" => l = 0
         /\ Gate(Vector(l)) = "isr33" => l = 1
         /\ Gate(Vector(l)) = "isr34" => l \in 2 .. 5
         /\ Gate(Vector(l)) = "isr46" => l \in 14 .. 15
         /\ Gate(Vector(l)) = "default_handler" => l \in 6 .. 13
  BY DEF Gate, Vector

\* What the EOIs leave of what an interrupt put in service.
LEMMA EndOfMasters ==
  ASSUME NEW l \in 0 .. 7
  PROVE  SendEOIMaster({} \cup Level(l)) = {}
<1>1. l \in Masters /\ Level(l) = {l}
  BY DEF Level, Masters
<1>2. {} \cup Level(l) = {l} /\ {l} \cap Masters = {l}
  BY <1>1, Zenon
<1>3. Min({l}) = l
  BY MinOfOne
<1> QED
  BY <1>2, <1>3 DEF SendEOIMaster, Without

LEMMA EndOfSlaves ==
  ASSUME NEW l \in 14 .. 15
  PROVE  SendEOISlave(SendEOIMaster({} \cup Level(l))) = {}
<1>1. {} \cup Level(l) = {2, l} /\ {2, l} \cap Masters = {2}
  BY DEF Level, Masters
<1>2. Min({2}) = 2 /\ Min({l}) = l
  BY MinOfOne
<1>3. SendEOIMaster({} \cup Level(l)) = {l}
  BY <1>1, <1>2 DEF SendEOIMaster, Without
<1>4. l \in Slaves
  BY DEF Slaves
<1>5. {l} \cap Slaves = {l}
  BY <1>4, Zenon
<1> QED
  BY <1>2, <1>3, <1>5 DEF SendEOISlave, Without

-----------------------------------------------------------------------------
(* The interrupts, whatever runs between them *)

\* A stub that returns leaves nothing in service.
LEMMA StubsEnd ==
  ASSUME MachineTypeOK, NEW l \in Lines, inService = {},
         Returns(l, inService \cup Level(l))
  PROVE  /\ inService' = {} /\ cpu' = "running"
         /\ timerFlag' \in BOOLEAN /\ kbdFlag' \in BOOLEAN /\ char' \in Chars \cup {NoChar}
         /\ screen' = screen \/ RotatePole
<1>1. l \in 0 .. 15
  BY MachineAssumption
<1> DEFINE g == Gate(Vector(l))
<1>2. CASE g = "isr32" /\ Isr32(inService \cup Level(l))
  BY <1>1, <1>2, Gates, EndOfMasters DEF Isr32, Returns, input, MachineTypeOK
<1>3. CASE g = "isr33" /\ Isr33(inService \cup Level(l))
  BY <1>1, <1>3, Gates, EndOfMasters DEF Isr33, Returns, input, MachineTypeOK
<1>4. CASE g = "isr34" /\ Isr34(inService \cup Level(l))
  BY <1>1, <1>4, Gates, EndOfMasters DEF Isr34, Returns, input, MachineTypeOK
<1>5. CASE g = "isr46" /\ Isr46(inService \cup Level(l))
  BY <1>1, <1>5, Gates, EndOfSlaves DEF Isr46, Returns, input, MachineTypeOK
<1> QED
  BY <1>2, <1>3, <1>4, <1>5 DEF Returns

LEMMA PoleType ==
  ASSUME MachineTypeOK, RotatePole
  PROVE  /\ DOMAIN screen' = Cells
         /\ screen'[Corner] = "pole"
         /\ \A c \in Cells \ {Corner} : screen'[c] = screen[c]
<1>1. Corner \in Cells
  BY MachineAssumption DEF Corner, Cells
<1> QED
  BY <1>1 DEF RotatePole, MachineTypeOK

LEMMA DevicesInv ==
  ASSUME MachineTypeOK, ServiceEnds, Devices
  PROVE  /\ MachineTypeOK' /\ ServiceEnds'
         /\ screen' = screen \/ RotatePole
<1>1. ASSUME NEW l \in Lines, Pull(l)
      PROVE  MachineTypeOK' /\ ServiceEnds' /\ screen' = screen
  BY <1>1 DEF Pull, MachineTypeOK, ServiceEnds, input
<1>2. ASSUME NEW l \in Lines, Interrupt(l)
      PROVE  MachineTypeOK' /\ ServiceEnds' /\ (screen' = screen \/ RotatePole)
  <2>1. inService = {} /\ requested' \subseteq Lines /\ shown' = shown /\ l \in 0 .. 15
    BY <1>2, MachineAssumption DEF Interrupt, ServiceEnds, MachineTypeOK
  <2>2. CASE Returns(l, inService \cup Level(l))
    BY <2>1, <2>2, StubsEnd, PoleType DEF MachineTypeOK, ServiceEnds
  <2>3. CASE DefaultHandler(l, inService \cup Level(l))
    <3>1. l \in 6 .. 13 /\ inService' = Level(l) /\ cpu' = "hung"
      BY <2>1, <2>3, Gates DEF DefaultHandler
    <3>2. Level(l) \subseteq 0 .. 15
      BY <2>1 DEF Level
    <3> QED
      BY <2>1, <2>3, <3>1, <3>2 DEF DefaultHandler, input, MachineTypeOK, ServiceEnds
  <2> QED
    BY <1>2, <2>2, <2>3 DEF Interrupt
<1> QED
  BY <1>1, <1>2 DEF Devices

-----------------------------------------------------------------------------
(* The game *)

\* A ball stays a ball when it is steered.
LEMMA SteerType ==
  ASSUME NEW b \in Balls, NEW c
  PROVE  /\ Steer1(c, b) \in Balls /\ Steer2(c, b) \in Balls
         /\ At(Steer1(c, b)) = At(b) /\ At(Steer2(c, b)) = At(b)
<1>1. /\ Up(b) \in Balls /\ Down(b) \in Balls /\ Left(b) \in Balls /\ Right(b) \in Balls
      /\ At(Up(b)) = At(b) /\ At(Down(b)) = At(b) /\ At(Left(b)) = At(b) /\ At(Right(b)) = At(b)
  BY MachineAssumption DEF Up, Down, Left, Right, Clamp, Balls, At
<1> QED
  BY <1>1 DEF Steer1, Steer2

\* A ball on the display is at most one step outside after a tick, and back on
\* the display unless its player loses.
LEMMA MovedType ==
  ASSUME NEW b \in Balls, At(b) \in Cells
  PROVE  /\ Moved(b) \in Balls
         /\ ~Out(Moved(b)) => At(Moved(b)) \in Cells
<1>1. b.x \in 0 .. Width - 1 /\ b.y \in 0 .. Height - 1 /\ b.dx \in -1 .. 1 /\ b.dy \in -1 .. 1
  BY MachineAssumption DEF At, Cells, Balls
<1>2. b.x + b.dx \in -1 .. Width /\ b.y + b.dy \in -1 .. Height
  BY <1>1, MachineAssumption
<1>3. Moved(b).x = b.x + b.dx /\ Moved(b).y = b.y + b.dy /\ Moved(b) \in Balls
  BY <1>2 DEF Moved, Balls
<1>4. ~Out(Moved(b)) => Moved(b).x \in 0 .. Width - 1 /\ Moved(b).y \in 0 .. Height - 1
  BY <1>2, <1>3, MachineAssumption DEF Out
<1> QED
  BY <1>3, <1>4 DEF At, Cells

LEMMA TowardsType ==
  ASSUME NEW b \in Balls, NEW c \in Balls
  PROVE  /\ Towards(b, c) \in Balls /\ At(Towards(b, c)) = At(b)
         /\ Out(Towards(b, c)) = Out(b)
  BY DEF Towards, Balls, At, Out

LEMMA TickType ==
  ASSUME ball1 \in Balls, ball2 \in Balls, At(ball1) \in Cells, At(ball2) \in Cells
  PROVE  /\ Next1 \in Balls /\ Next2 \in Balls
         /\ ~Out(Next1) => At(Next1) \in Cells
         /\ ~Out(Next2) => At(Next2) \in Cells
<1>1. Next1 \in Balls /\ (~Out(Next1) => At(Next1) \in Cells)
  BY MovedType, TowardsType DEF Next1
<1>2. Towards(ball2, ball1) \in Balls /\ At(Towards(ball2, ball1)) \in Cells
  BY TowardsType
<1>3. Next2 \in Balls /\ (~Out(Next2) => At(Next2) \in Cells)
  BY <1>2, MovedType DEF Next2
<1> QED
  BY <1>1, <1>3

LEMMA StartType ==
  /\ Ball1AtStart \in Balls /\ Ball2AtStart \in Balls
  /\ At(Ball1AtStart) \in Cells /\ At(Ball2AtStart) \in Cells
  /\ Corner \in Cells
  BY MachineAssumption DEF Ball1AtStart, Ball2AtStart, Balls, At, Cells, Corner

\* A device changes nothing of the picture but the corner.
LEMMA DevicesShow ==
  ASSUME Inv, Devices, UNCHANGED gameVars
  PROVE  ShowsTheBalls'
<1>1. screen' = screen \/ RotatePole
  BY DevicesInv DEF Inv, TypeOK
<1>2. pc' = pc /\ ball1' = ball1 /\ ball2' = ball2
  BY DEF gameVars
<1>3. CASE screen' = screen
  BY <1>2, <1>3 DEF Inv, ShowsTheBalls, Playing, Picture, At
<1>4. CASE RotatePole
  <2>1. screen'[Corner] = "pole" /\ \A c \in Cells \ {Corner} : screen'[c] = screen[c]
    BY <1>4, PoleType DEF Inv, TypeOK
  <2> QED
    BY <1>2, <2>1 DEF Inv, ShowsTheBalls, Playing, Picture, At
<1> QED
  BY <1>1, <1>3, <1>4

\* A tick that ends nobody's game draws both balls where they are now.
LEMMA TickShows ==
  ASSUME Inv, Playing, ~Out(Next1), ~Out(Next2),
         ball1' = Next1, ball2' = Next2,
         screen' = [Wiped EXCEPT ![At(Next1)] = "o", ![At(Next2)] = "*"]
  PROVE  ShowsTheBalls'
<1>1. At(ball1) \in Cells /\ At(ball2) \in Cells /\ DOMAIN screen = Cells
  BY DEF Inv, TypeOK, MachineTypeOK, ShowsTheBalls
<1>2. At(Next1) \in Cells /\ At(Next2) \in Cells
  BY <1>1, TickType DEF Inv, TypeOK
<1> DEFINE a == At(ball1)  b == At(ball2)  n == At(Next1)  m == At(Next2)
<1>3. n = At(ball1)' /\ m = At(ball2)'
  BY DEF At
<1>4. \A c \in Cells : Wiped[c] = IF c \in {a, b} THEN Blank ELSE screen[c]
  BY <1>1 DEF Wiped
<1>5. DOMAIN Wiped = Cells
  BY <1>1 DEF Wiped
<1>6. \A c \in Cells : screen'[c] = IF c = m THEN "*" ELSE IF c = n THEN "o" ELSE Wiped[c]
  BY <1>2, <1>5
<1>7. \A c \in Cells \ {Corner} : Wiped[c] = Blank
  BY <1>4 DEF Inv, ShowsTheBalls, Picture
<1>8. Wiped[Corner] \in {Blank, "pole"}
  BY <1>4, StartType DEF Inv, ShowsTheBalls, Picture
<1>9. \A c \in Cells : Picture(c)' = IF c = m THEN "*" ELSE IF c = n THEN "o" ELSE Blank
  BY <1>3 DEF Picture
<1> QED
  BY <1>2, <1>3, <1>6, <1>7, <1>8, <1>9, StartType DEF ShowsTheBalls

\* What one step of the game does to the balls, the display and the rest.
LEMMA GameInv ==
  ASSUME Inv, Start \/ Loop \/ Exit
  PROVE  Inv'
<1>1. CASE Start
  <2>1. /\ \A c \in Cells : screen'[c] = Blank
        /\ ball1' = Ball1AtStart /\ ball2' = Ball2AtStart
        /\ At(ball1)' = At(Ball1AtStart) /\ At(ball2)' = At(Ball2AtStart)
    BY <1>1 DEF Start, At
  <2>2. ShowsTheBalls'
    BY <2>1, StartType DEF ShowsTheBalls, Picture
  <2>3. TypeOK' /\ ServiceEnds'
    BY <1>1, <2>1, StartType DEF Start, Inv, TypeOK, MachineTypeOK, ServiceEnds, input
  <2> QED
    BY <2>2, <2>3 DEF Inv
<1>2. CASE Wait
  BY <1>2 DEF Wait, KernelWait, Inv, TypeOK, MachineTypeOK, ServiceEnds, ShowsTheBalls,
              Playing, Picture, At, input
<1>3. CASE TestKeyboard
  BY <1>3 DEF TestKeyboard, Inv, TypeOK, MachineTypeOK, ServiceEnds, ShowsTheBalls,
              Playing, Picture, At
<1>4. CASE GetLatestChar
  <2>1. ball1' \in Balls /\ ball2' \in Balls /\ At(ball1)' = At(ball1) /\ At(ball2)' = At(ball2)
    BY <1>4, SteerType DEF GetLatestChar, Inv, TypeOK, At
  <2>2. UNCHANGED irqVars /\ pc = "getchar" /\ pc' = "timer"
    BY <1>4 DEF GetLatestChar
  <2>3. TypeOK' /\ ServiceEnds'
    BY <2>1, <2>2 DEF Inv, TypeOK, MachineTypeOK, ServiceEnds, irqVars, input
  <2>4. ShowsTheBalls'
    BY <2>1, <2>2 DEF Inv, ShowsTheBalls, Playing, Picture, irqVars
  <2> QED
    BY <2>3, <2>4 DEF Inv
<1>5. CASE TestTimer
  <2>1. CASE ~timerFlag
    BY <1>5, <2>1 DEF TestTimer, Inv, TypeOK, MachineTypeOK, ServiceEnds, ShowsTheBalls,
                      Playing, Picture, At
  <2>2. CASE timerFlag
    <3>1. At(ball1) \in Cells /\ At(ball2) \in Cells /\ Playing
      BY <1>5 DEF TestTimer, Inv, ShowsTheBalls, Playing
    <3>2. ball1' = Next1 /\ ball2' = Next2 /\ ball1' \in Balls /\ ball2' \in Balls
      BY <1>5, <2>2, <3>1, TickType DEF TestTimer, Inv, TypeOK
    <3>3. DOMAIN screen' = Cells
      BY <1>5, <2>2 DEF TestTimer, Wiped, Inv, TypeOK, MachineTypeOK
    <3>4. TypeOK' /\ ServiceEnds'
      BY <1>5, <2>2, <3>2, <3>3 DEF TestTimer, Inv, TypeOK, MachineTypeOK, ServiceEnds
    <3>5. CASE Out(Next1) \/ Out(Next2)
      BY <1>5, <2>2, <3>4, <3>5 DEF TestTimer, Inv, ShowsTheBalls, Playing
    <3>6. CASE ~Out(Next1) /\ ~Out(Next2)
      BY <1>5, <2>2, <3>1, <3>4, <3>6, TickShows DEF TestTimer, Inv
    <3> QED
      BY <3>5, <3>6
  <2> QED
    BY <2>1, <2>2
<1>6. CASE Exit
  BY <1>6 DEF Exit, Inv, TypeOK, MachineTypeOK, ServiceEnds, ShowsTheBalls, Playing
<1> QED
  BY <1>1, <1>2, <1>3, <1>4, <1>5, <1>6 DEF Loop

LEMMA InitInv == Init => Inv
<1> SUFFICES ASSUME Init PROVE Inv
  OBVIOUS
<1>1. TypeOK
  BY StartType DEF Init, InitInterrupts, TypeOK, MachineTypeOK
<1>2. ServiceEnds
  BY DEF Init, InitInterrupts, ServiceEnds
<1>3. ShowsTheBalls
  BY DEF Init, ShowsTheBalls, Playing
<1> QED
  BY <1>1, <1>2, <1>3 DEF Inv

LEMMA NextInv ==
  ASSUME Inv, [Next]_vars
  PROVE  Inv'
<1>1. CASE UNCHANGED vars
  BY <1>1 DEF vars, gameVars, irqVars, input, Inv, TypeOK, MachineTypeOK, ServiceEnds,
              ShowsTheBalls, Playing, Picture, At
<1>2. CASE Devices /\ UNCHANGED gameVars
  <2>1. TypeOK' /\ ServiceEnds'
    BY <1>2, DevicesInv DEF Inv, TypeOK, gameVars
  <2> QED
    BY <1>2, <2>1, DevicesShow DEF Inv
<1>3. CASE Start \/ Loop \/ Exit
  BY <1>3, GameInv
<1> QED
  BY <1>1, <1>2, <1>3 DEF Next

-----------------------------------------------------------------------------
(* The theorems *)

LEMMA BallInv == Spec => []Inv
<1>1. Inv /\ [Next]_vars => Inv'
  BY NextInv
<1> QED
  BY InitInv, <1>1, PTL DEF Spec

\* A ball is never further than one step outside the display, and never faster
\* than one column and one row in a tick.
THEOREM BallTypeOK == Spec => []TypeOK
<1>1. Inv => TypeOK
  BY DEF Inv
<1> QED
  BY <1>1, BallInv, PTL

\* Every stub ends what its interrupt began, at both controllers, and the
\* kernel stops only for a line without a stub.
THEOREM BallServiceEnds == Spec => []ServiceEnds
<1>1. Inv => ServiceEnds
  BY DEF Inv
<1> QED
  BY <1>1, BallInv, PTL

\* The display shows both balls where they are and nothing else but the pole.
THEOREM BallShowsTheBalls == Spec => []ShowsTheBalls
<1>1. Inv => ShowsTheBalls
  BY DEF Inv
<1> QED
  BY <1>1, BallInv, PTL
=============================================================================
